----------------------------- MODULE MCProcess -----------------------------
(* User pages 0..3, two to a page table; the stack is page 3.              *)
EXTENDS Process

MCPdNo(u) == u \div 2

Load(pages) == [type |-> "load", pages |-> pages]
Program(segments) == [exists |-> TRUE, header |-> TRUE, segments |-> segments]

MCExecutable ==
  { [exists |-> FALSE, header |-> FALSE, segments |-> <<>>],
    [exists |-> TRUE, header |-> FALSE, segments |-> <<>>],
    Program(<<Load(<<0, 1>>), [type |-> "ignore"], Load(<<2>>)>>),
    Program(<<Load(<<1>>), [type |-> "reject"]>>),
    Program(<<Load(<<0>>), Load(<<0>>)>>),
    Program(<<Load(<<3>>)>>) }

=============================================================================
