SPECIFICATION Spec
CONSTANTS
  a = a
  b = b
  c = c
  diaria = diaria
  manual = manual
  SemSerie = SemSerie
  Invalida = Invalida
  Cancelador = Cancelador
  Nulo = Nulo
  Ninguem = Ninguem
  Owners <- MCOwners
  BaixarNoCancelamento = TRUE
  Conds = {a, b}
  ForaDoPrazo = {}
  MaxLinhas = 2
  MaxReag = 0
  MaxExec = 2
  Verificadores = {diaria}
  Eventos = {"cancela", "paga", "consulta", "baixa", "baixaExterna", "serieInvalida", "desliga", "fechada"}
INVARIANTS
  RegistroFiel
PROPERTIES
  CanceladaNaoEmite
SYMMETRY Simetria
CHECK_DEADLOCK FALSE
