------------------------------ MODULE MCAgent ------------------------------
(***************************************************************************)
(* A connection of the agent with a line of every kind: both valid         *)
(* requests, each member wrong in each way the parser looks for, and lines *)
(* that do not end or do not fit.                                          *)
(***************************************************************************)
EXTENDS Agent

Whole(fields) == [read |-> "line", fields |-> fields]

Port(v) == [target |-> String("port"), port |-> v]
ShellOf(term, cols, rows, command) ==
  [target |-> String("shell"), term |-> term, cols |-> cols, rows |-> rows, command |-> command]
Xterm == String("xterm")
Size == Number(1)

MCLines ==
  {Whole(Port(v)) : v \in {Number(0), Number(1), Number(65535), Number(65536), Null, String("1")}}
  \cup {Whole([target |-> String("port"), port |-> Number(1), extra |-> Null]),
        Whole([target |-> String("port")]), Whole([target |-> Null, port |-> Number(1)]),
        Whole([target |-> String("other"), port |-> Number(1)]),
        Whole([port |-> Number(1)]), Whole(NoObject)}
  \cup {Whole(ShellOf(term, Size, Size, Null)) : term \in {Xterm, String(""), String(WithNul), Null, Size}}
  \cup {Whole(ShellOf(Xterm, cols, Size, Null)) : cols \in {Number(0), Null, Number(65536)}}
  \cup {Whole(ShellOf(Xterm, Size, rows, Null)) : rows \in {Number(0), String("1")}}
  \cup {Whole(ShellOf(Xterm, Size, Size, command)) :
          command \in {List(<<>>), List(<<Xterm, String(WithNul)>>), List(<<Size>>), Xterm}}
  \cup {[read |-> how, fields |-> Port(Number(1))] : how \in {"too long", "eof"}}

MCFrames ==
  {[type |-> FrameData, size |-> 1, zero |-> FALSE], [type |-> FrameResize, size |-> 4, zero |-> FALSE],
   [type |-> FrameResize, size |-> 4, zero |-> TRUE]}

MCExits == {[kind |-> "exited", value |-> 3]}
=============================================================================
