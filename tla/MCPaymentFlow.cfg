SPECIFICATION FairSpec
CONSTANTS
  p1 = p1
  p2 = p2
  Processos = {p1, p2}
  Colega = FALSE
  UmaPorVez = TRUE
  MaxPedidos = 2
  MaxMedicoes = 2
  MaxQuedas = 1
  Eventos = {"falha", "incerta", "clique", "cria", "agora", "boleto", "aborto", "cancela", "paga", "semNumero", "avanca"}
INVARIANTS
  TypeOK
  UmTitulo
  TituloAutorizado
  MedicaoRegular
  PagoConfere
PROPERTIES
  AditivoConfirmado
  AutorizacaoAvanca
CHECK_DEADLOCK FALSE
