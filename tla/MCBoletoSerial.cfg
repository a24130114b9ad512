SPECIFICATION SpecH
CONSTANTS
  a = a
  b = b
  c = c
  diaria = diaria
  manual = manual
  SemSerie = SemSerie
  Invalida = Invalida
  Cancelador = Cancelador
  Nulo = Nulo
  Ninguem = Ninguem
  Owners <- MCOwners
  BaixarNoCancelamento = TRUE
  Conds = {a, b, c}
  ForaDoPrazo = {c}
  MaxLinhas = 3
  MaxReag = 1
  MaxExec = 2
  Verificadores = {diaria}
  Eventos = {"baixa", "portal", "paga", "posEmissao"}
INVARIANTS
  UmAbertoEmOrdem
CONSTRAINT SoEmOrdem
SYMMETRY Simetria
CHECK_DEADLOCK FALSE
