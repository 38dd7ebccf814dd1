---- MODULE MCBottomProtocol ----
EXTENDS BottomProtocol, TLC

CONSTANTS a, b

(* a uses port 5 and b port 6; each knows other hosts, x and y, too.        *)
Conn(ip, src, dst) == [ip |-> ip, src |-> src, dst |-> dst, protocol |-> "udp"]

Both(ip, mine, its) == [in |-> {Conn(ip, its, mine)}, out |-> {Conn(ip, mine, its)}]

Join(l, m) == [in |-> l.in \cup m.in, out |-> l.out \cup m.out]

MCPeer == {a, b}

Tcp(l) == [in |-> {[c EXCEPT !.protocol = "tcp"] : c \in l.in},
           out |-> {[c EXCEPT !.protocol = "tcp"] : c \in l.out}]

MCOpenLists ==
  (a :> {Join(Both("b", 5, 6), Both("x", 5, 9)),                       \* the call and another host
         Join(Both("b", 5, 6), Tcp(Both("b", 5, 8))),                  \* the call on two channels
         [in |-> {Conn("b", 6, 5)}, out |-> {Conn("b", 5, 7)}],        \* one direction differs
         [in |-> {Conn("b", 8, 5)}, out |-> {Conn("b", 5, 6)}],        \* the other one does
         [in |-> {Conn("b", 6, 5)}, out |-> {}]})                      \* nothing was sent yet
  @@
  (b :> {Join(Both("a", 6, 5), Tcp(Both("a", 8, 5))),
         Tcp(Both("a", 6, 5)),                                         \* equal ports, other protocol
         Join(Both("a", 6, 5), Both("y", 6, 5)),                       \* two hosts on equal ports
         [in |-> {Conn("a", 5, 6)}, out |-> {Conn("a", 6, 5), Conn("y", 6, 4)}]})
====
