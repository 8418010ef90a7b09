SPECIFICATION Spec
CONSTANTS
  ul_ud_iq_width = ul_ud_iq_width
  ul_ud_comp_meth = ul_ud_comp_meth
  Field = {ul_ud_iq_width, ul_ud_comp_meth}
  Attr <- MapAttr
  Writable <- MapWritable
  InitReg <- ZeroReg
  Proc = {p1, p2}
  Driver = {"framer"}
  Texts <- SmallTexts
  Words <- SmallWords
SYMMETRY Symmetry
CHECK_DEADLOCK FALSE
INVARIANTS
  TypeOK
  KeptUnlessOverlapped
  NothingInvented
  NoAccessUnmapped
  FilesApart
  OnlyLaterFilesStray
  AntennasApart
