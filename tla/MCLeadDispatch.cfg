SPECIFICATION FairSpec
CONSTANTS
  l1 = l1
  c1 = c1
  c2 = c2
  p1 = p1
  p2 = p2
  Leads = {l1}
  Processos = {c1, c2, p1, p2}
  Ciclos = {c1, c2}
  MaxTent = 2
  MaxBusca = 2
  Backoff <- MCBackoff
  TimeoutPost = 1
  Preso = 2
  MaxCruzes = 1
  MaxQuedas = 1
  MaxMaos = 1
  Eventos = {"graph", "recusa", "falha", "perde", "banco", "sombra", "rota", "backlog", "spam", "redisparo"}
  Nulo = Nulo
INVARIANTS
  TypeOK
  EntregaUnica
  InboxFiel
  TentativasLimitadas
PROPERTIES
  DeadLetterEspera
  LeadTemDesfecho
CHECK_DEADLOCK FALSE
