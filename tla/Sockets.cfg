\* Two threads make up to three calls on two sockets, one TLSConfig and the
\* subscriptions of one socket; nng may give the id of one to the other.
CONSTANTS
  Thread = {t1, t2}
  Setting = {a, b}
  Topic = {x1}
  Sock = {s1, s2}
  Subscriber = s1
  Endpoint = {e1, e2}
  Id = {i1, i2}
  Nobody = Nobody
  MaxCalls = 3
SPECIFICATION SocketsSpec
SYMMETRY Symmetry
INVARIANTS EndpointsListed RegistryExact TlsAgrees SetIsCurrent
