SPECIFICATION Spec
CONSTANTS
  a = a
  b = b
  c = c
  diaria = diaria
  manual = manual
  SemSerie = SemSerie
  Invalida = Invalida
  Cancelador = Cancelador
  Nulo = Nulo
  Ninguem = Ninguem
  Owners <- MCOwners
  BaixarNoCancelamento = TRUE
  Conds = {a, b}
  ForaDoPrazo = {}
  MaxLinhas = 2
  MaxReag = 1
  MaxExec = 2
  Verificadores = {diaria}
  Eventos = {"cv", "portal", "consulta", "baixa", "emissao", "posEmissao", "upload", "queda", "expira", "paga", "leituraBaixado", "janela"}
INVARIANTS
  TypeOK
  FilaSemTitulo
  UmTituloPorLinha
  EmitidaTemTitulo
  PermaneceNaSituacao
  RegistroFiel
PROPERTIES
  PagoNaoRegride
SYMMETRY Simetria
CHECK_DEADLOCK FALSE
