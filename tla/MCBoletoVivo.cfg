SPECIFICATION FairSpec
CONSTANTS
  a = a
  b = b
  c = c
  diaria = diaria
  manual = manual
  SemSerie = SemSerie
  Invalida = Invalida
  Cancelador = Cancelador
  Nulo = Nulo
  Ninguem = Ninguem
  Owners <- MCOwners
  BaixarNoCancelamento = TRUE
  Conds = {a, b}
  ForaDoPrazo = {}
  MaxLinhas = 2
  MaxReag = 1
  MaxExec = 1
  Verificadores = {diaria}
  Eventos = {"portal", "paga", "fechada"}
PROPERTIES
  TodaLinhaTermina
  PagamentoDetectado
CHECK_DEADLOCK FALSE
