CONSTANTS
  Main = Main
  Thread <- MCThread
  Conn = {m1}
  Worker = {w1, w2}
  Name = {n1, n2}
  Password = {p1, p2}
  None = None
SPECIFICATION Spec
INVARIANT NewNamesAreAdded
