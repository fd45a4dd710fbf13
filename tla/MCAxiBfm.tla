------------------------------ MODULE MCAxiBfm ------------------------------
EXTENDS AxiBfm

Call(op, addr, len, num_bytes) ==
  [op |-> op, addr |-> addr, len |-> len, num_bytes |-> num_bytes]

\* A write of two bursts that begins and ends inside a word, a narrow one over the end
\* of the page and of the memory, a read over both.
MCCalls == {Call("write", 1, 4, 2), Call("write", 7, 3, 1), Call("read", 0, 7, 2)}

=============================================================================
