CONSTANTS
  Ip = {ip1, ip2}
  Protocol = {udp, tcp}
  Port = {p1, p2}
SYMMETRY Symmetry
SPECIFICATION Spec
INVARIANTS TypeOK AnswersAgree
PROPERTY ImplementsStore
