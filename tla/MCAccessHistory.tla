-------------------------- MODULE MCAccessHistory --------------------------
(***************************************************************************)
(* Small instances of AccessHistory: what each strand may do.              *)
(***************************************************************************)
EXTENDS AccessHistory

Read(a, n)  == [kind |-> "read", addr |-> a, size |-> n]
Write(a, n) == [kind |-> "write", addr |-> a, size |-> n]

\* an int, or a double whose first half it is, read and then changed
IntOrDouble == {<<Read(0, 4)>>, <<Write(0, 4)>>, <<Read(0, 8), Write(4, 4)>>}

\* the last int of the block, read, written, or incremented
LastInt == {<<Read(12, 4)>>, <<Write(12, 4)>>, <<Read(12, 4), Write(12, 4)>>}

\* test_mem.cpp: init, increment_i and read_double
TestMem == {<<Write(0, 8)>>, <<Read(0, 4), Write(0, 4)>>, <<Read(0, 8)>>}
=============================================================================
