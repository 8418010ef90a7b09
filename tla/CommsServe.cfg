SPECIFICATION FairSpec
CONSTANTS
  UnixClient = {u1, u2}
  TcpClient = {t1}
  Fd0 = Fd0
  Texts = {"help", "remote", "quit"}
  EcpriKinds = {"handled", "refused", "short", "alien"}
  FdLimit = 3
  MaxEcpri = 1
INVARIANTS
  TypeOK
  NoClientForgotten
  OnlyWordlessLeak
PROPERTIES
  UnixClientServed
