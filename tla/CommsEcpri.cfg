SPECIFICATION Spec
CONSTANTS
  UnixClient = {u1}
  TcpClient = {t1}
  Fd0 = Fd0
  Texts = {"help"}
  EcpriKinds = {"handled", "refused"}
  FdLimit = 4
  MaxEcpri = 1
PROPERTIES
  EcpriDealtWithInternally
