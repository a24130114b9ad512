--------------------------- MODULE BoletoEmissao ---------------------------
(***************************************************************************)
(* processBoletoWebhook and what starts it: the CV webhook, the admin's    *)
(* retry and regenerate, and boletoWindowScheduler, which resumes queued   *)
(* rows.  A run works on one row; pc[l] says what the run of row l does    *)
(* next, ex[l] what it remembers across its awaits.  Runs of different     *)
(* rows interleave freely: only the portal session is serialised, by the   *)
(* lease.                                                                  *)
(***************************************************************************)
EXTENDS BoletoDados

CONSTANT MaxExec   \* bound: runs at the same time (1 makes them serial)

VARIABLES pc,      \* step of the run of each row
          ex,      \* what the run read and decided
          atual    \* row boletoWindowScheduler is awaiting (0: `processando` is false)

emissaoVars == <<pc, ex, atual>>

Passos == {"parado", "inicio", "reserva", "pago", "janela", "agendar", "validar",
           "prazo", "lock", "sessao", "baixa", "emissao", "posBaixa", "upload",
           "etapa", "concluir", "falha", "falhaSegura"}
NoPortal == {"sessao", "baixa", "emissao"}

Exec == [foto: Conds \cup {SemSerie, Invalida, Nulo}, forcar: BOOLEAN,
         manual: BOOLEAN, prev: Linhas \cup {0}, seq: NNs, baixou: BOOLEAN]
ExecNova == [foto |-> Nulo, forcar |-> FALSE, manual |-> FALSE, prev |-> 0,
             seq |-> 0, baixou |-> FALSE]

EmissaoTypeOK == /\ pc \in [Linhas -> Passos]
                 /\ ex \in [Linhas -> Exec]
                 /\ atual \in Linhas \cup {0}

TodasParadas == [l \in Linhas |-> "parado"]
TodasNovas == [l \in Linhas |-> ExecNova]
EmissaoInit == pc = TodasParadas /\ ex = TodasNovas /\ atual = 0

Rodando == {l \in Linhas : pc[l] # "parado"}

Ir(l, passo) == pc' = [pc EXCEPT ![l] = passo]
Parar(l) == Ir(l, "parado") /\ ex' = [ex EXCEPT ![l] = ExecNova]

soLinha == <<titulo, dono, cv, janela, ativo, leaseVars, atual>>
soPasso == <<h, soLinha>>

\* ------------------------------------------------------------------ starts
\* receiveWebhook, retryHistoryItem (forcar) and regenerateHistoryItem
\* (forcar, manual); the last two are offered on an existing row.
Acionar(l, forcar, manual) ==
  /\ ativo
  /\ l \notin Usadas /\ 1 .. l - 1 \subseteq Usadas
  /\ Cardinality(Rodando) < MaxExec
  /\ manual => forcar
  /\ forcar => l > 1
  /\ Update(l, [h[l] EXCEPT !.status = "processing"])
  /\ Ir(l, "reserva")
  /\ ex' = [ex EXCEPT ![l].forcar = forcar, ![l].manual = manual]
  /\ UNCHANGED <<titulo, dono, cv, janela, ativo, leaseVars, atual>>

\* retomarUm: the compare-and-set on emissao_agendada_processada, one row at
\* a time.  The due time has come; a tick takes its rows in order of due time.
Retomar(l) ==
  /\ atual = 0
  /\ l \in NaFila
  /\ Cardinality(Rodando) < MaxExec
  /\ Update(l, [h[l] EXCEPT !.processada = TRUE])
  /\ atual' = l
  /\ Ir(l, "inicio")
  /\ ex' = [ex EXCEPT ![l].forcar = TRUE]
  /\ UNCHANGED <<titulo, dono, cv, janela, ativo, leaseVars>>

\* The awaited run returned: the scheduler goes on to its next row.
FimRetomada == /\ atual # 0 /\ pc[atual] = "parado"
               /\ atual' = 0
               /\ UNCHANGED <<h, titulo, dono, cv, janela, ativo, leaseVars, pc, ex>>

\* The head of processBoletoWebhook on a resumed row: the settings are read
\* again, and an inactive module returns without touching the row.
Iniciar(l) ==
  /\ pc[l] = "inicio"
  /\ IF ativo
       THEN /\ Update(l, [h[l] EXCEPT !.status = "processing"])
            /\ Ir(l, "reserva") /\ UNCHANGED ex
       ELSE Parar(l) /\ UNCHANGED h
  /\ UNCHANGED soLinha

\* ------------------------------------------------------- decisions up front
\* GET of the reserva; cancelled: silent skip.
LerReserva(l) ==
  /\ pc[l] = "reserva"
  /\ IF cv.viva
       THEN /\ Ir(l, "pago")
            /\ ex' = [ex EXCEPT ![l].foto = cv.cond]
            /\ UNCHANGED h
       ELSE /\ Update(l, [h[l] EXCEPT !.status = "skipped", !.pessoa = TRUE])
            /\ Parar(l)
  /\ UNCHANGED soLinha

\* The CV does not answer, or does not know the company's CNPJ: the catch.
FalharCV(l) == /\ Pode("cv")
               /\ \/ pc[l] = "reserva"
                  \/ pc[l] = "prazo" /\ ex[l].foto \notin ForaDoPrazo
               /\ Ir(l, "falha")
               /\ UNCHANGED <<ex, soPasso>>

\* The ato is paid already: skipped, nothing is emitted.
VerPago(l) ==
  /\ pc[l] = "pago"
  /\ IF Pagas \ {l} # {}
       THEN /\ Update(l, [h[l] EXCEPT !.status = "skipped", !.pessoa = TRUE])
            /\ Parar(l)
       ELSE Ir(l, "janela") /\ UNCHANGED <<h, ex>>
  /\ UNCHANGED soLinha

\* Outside the window: dropped if a row is queued already, else queued after
\* a message to the CV.
VerJanela(l) ==
  /\ pc[l] = "janela"
  /\ IF ex[l].forcar \/ janela
       THEN Ir(l, "validar") /\ UNCHANGED <<h, ex>>
     ELSE IF NaFila \ {l} # {}
       THEN /\ Update(l, [h[l] EXCEPT !.status = "skipped", !.ignorado = TRUE,
                                     !.pessoa = TRUE])
            /\ Parar(l)
       ELSE Ir(l, "agendar") /\ UNCHANGED <<h, ex>>
  /\ UNCHANGED soLinha

Agendar(l) ==
  /\ pc[l] = "agendar"
  /\ Update(l, [h[l] EXCEPT !.status = "queued", !.processada = FALSE, !.pessoa = TRUE])
  /\ Parar(l)
  /\ UNCHANGED soLinha

\* No ato series: skipped.  Two series, bad titular data, above the ceiling:
\* error, and the error stage is scheduled in the CV.
Recusar(l) ==
  /\ pc[l] = "validar"
  /\ ex[l].foto \in {SemSerie, Invalida}
  /\ Update(l, IF ex[l].foto = SemSerie
                 THEN [h[l] EXCEPT !.status = "skipped", !.pessoa = TRUE]
                 ELSE [h[l] EXCEPT !.status = "error", !.pessoa = TRUE,
                                   !.situacao = "erro"])
  /\ Parar(l)
  /\ UNCHANGED soLinha

\* The re-trigger decision on the latest pending boleto: none, emit; same
\* conditions, ignore; other conditions, replace.
\* (The mutant forgets to hand the previous boleto over to the session.)
Ignorar(l) == /\ Update(l, [h[l] EXCEPT !.status = "success", !.ignorado = TRUE,
                                         !.cond = ex[l].foto, !.pessoa = TRUE])
              /\ Parar(l)
DecidirRetriggerMut(l) ==
  /\ pc[l] = "validar"
  /\ ex[l].foto \in Conds
  /\ IF \E k \in Ultima(Pendentes \ {l}) : h[k].cond = ex[l].foto
       THEN Ignorar(l)
       ELSE Ir(l, "prazo") /\ UNCHANGED <<h, ex>>
  /\ UNCHANGED soLinha
DecidirRetrigger(l) ==
  /\ pc[l] = "validar"
  /\ ex[l].foto \in Conds
  /\ \/ /\ Pendentes \ {l} = {}
        /\ Ir(l, "prazo") /\ UNCHANGED <<h, ex>>
     \/ \E k \in Ultima(Pendentes \ {l}) :
          \/ h[k].cond = ex[l].foto /\ Ignorar(l)
          \/ /\ h[k].cond # ex[l].foto
             /\ IF h[k].nn = Nulo
                  THEN Ir(l, "falha") /\ UNCHANGED ex
                  ELSE Ir(l, "prazo") /\ ex' = [ex EXCEPT ![l].prev = k]
             /\ UNCHANGED h
  /\ UNCHANGED soLinha

RecusarPrazo(l) ==
  /\ pc[l] = "prazo"
  /\ ex[l].foto \in ForaDoPrazo
  /\ Update(l, [h[l] EXCEPT !.status = "error", !.pessoa = TRUE, !.situacao = "erro"])
  /\ Parar(l)
  /\ UNCHANGED soLinha

\* The data goes to the row, and the suffix of the nosso numero is the count
\* of the person's earlier rows.
AnterioresMut(l) == {k \in 1 .. l : h[k].pessoa}
Anteriores(l) == {k \in 1 .. l - 1 : h[k].pessoa}
Numerar(l) ==
  /\ pc[l] = "prazo"
  /\ ex[l].foto \notin ForaDoPrazo
  /\ Update(l, [h[l] EXCEPT !.pessoa = TRUE, !.cond = ex[l].foto])
  /\ ex' = [ex EXCEPT ![l].seq = Cardinality(Anteriores(l))]
  /\ Ir(l, "lock")
  /\ UNCHANGED soLinha

\* ------------------------------------------------------------ portal session
PegarLock(l) == /\ pc[l] = "lock"
                /\ TryAcquire(l)
                /\ Ir(l, "sessao")
                /\ UNCHANGED <<h, titulo, dono, cv, janela, ativo, ex, atual>>

\* Four minutes of polling against a lease that still runs.
DesistirLock(l) == /\ pc[l] = "lock"
                   /\ Busy
                   /\ Ir(l, "falhaSegura")
                   /\ UNCHANGED <<ex, soPasso>>

\* Login and selection of the company: nothing is written at the bank yet.
AbrirSessao(l) == /\ pc[l] = "sessao"
                  /\ Ir(l, IF ex[l].prev # 0 THEN "baixa" ELSE "emissao")
                  /\ UNCHANGED <<ex, soPasso>>

\* A throw inside the session: the finally releases the lease, the catch
\* reschedules only what failed in login/select with valid credentials.
Sair(l, passo) == /\ Ir(l, passo)
                  /\ Release(l)
                  /\ UNCHANGED <<h, cv, janela, ativo, ex, atual>>

FalharSessao(l) == /\ Pode("portal")
                   /\ pc[l] = "sessao"
                   /\ \E passo \in {"falhaSegura", "falha"} : Sair(l, passo)
                   /\ UNCHANGED <<titulo, dono>>

\* baixarTitulo on the previous boleto.  /baixa_titulo lists open titles only,
\* so one that was paid or written off meanwhile is "not found", and the
\* emission goes on.  (The mutant takes "not found" for a write-off.)
BaixaPreviaMut(l) ==
  /\ pc[l] = "baixa"
  /\ LET n == h[ex[l].prev].nn
     IN titulo' = [titulo EXCEPT ![n] = IF @ = "aberto" THEN "baixado" ELSE @]
  /\ ex' = [ex EXCEPT ![l].baixou = TRUE]
  /\ Ir(l, "emissao")
  /\ UNCHANGED <<h, dono, cv, janela, ativo, leaseVars, atual>>
BaixaPrevia(l) ==
  /\ pc[l] = "baixa"
  /\ LET n == h[ex[l].prev].nn
     IN IF titulo[n] = "aberto"
          THEN /\ titulo' = [titulo EXCEPT ![n] = "baixado"]
               /\ ex' = [ex EXCEPT ![l].baixou = TRUE]
          ELSE UNCHANGED <<titulo, ex>>
  /\ Ir(l, "emissao")
  /\ UNCHANGED <<h, dono, cv, janela, ativo, leaseVars, atual>>

\* The write-off aborts (title listed but not open, selection or detail screen
\* not as expected) or is not confirmed, though it may have gone through.
FalharBaixaMut(l) ==
  /\ Pode("baixa")
  /\ pc[l] = "baixa"
  /\ Ir(l, "emissao")
  /\ ex' = [ex EXCEPT ![l].baixou = TRUE]
  /\ UNCHANGED <<h, soLinha>>
FalharBaixa(l) ==
  /\ Pode("baixa")
  /\ pc[l] = "baixa"
  /\ LET n == h[ex[l].prev].nn
     IN \/ UNCHANGED titulo
        \/ titulo[n] = "aberto" /\ titulo' = [titulo EXCEPT ![n] = "baixado"]
  /\ Sair(l, "falha")
  /\ UNCHANGED dono

\* createBoleto registers the title; the finally releases the lease.  The bank
\* keeps one title per nosso numero.
Emitir(l) ==
  /\ pc[l] = "emissao"
  /\ titulo[ex[l].seq] = "nao"
  /\ titulo' = [titulo EXCEPT ![ex[l].seq] = "aberto"]
  /\ dono' = [dono EXCEPT ![ex[l].seq] = l]
  /\ Sair(l, IF ex[l].baixou THEN "posBaixa" ELSE "upload")

\* The portal refuses the boleto, or (posEmissao) registers it and the PDF
\* never arrives.
FalharEmissaoMut(l) ==
  /\ pc[l] = "emissao"
  /\ \/ UNCHANGED <<titulo, dono>>
     \/ /\ Pode("posEmissao") /\ titulo[ex[l].seq] = "nao"
        /\ titulo' = [titulo EXCEPT ![ex[l].seq] = "aberto"]
        /\ dono' = [dono EXCEPT ![ex[l].seq] = l]
  /\ Sair(l, "falhaSegura")
FalharEmissao(l) ==
  /\ pc[l] = "emissao"
  /\ \/ Pode("emissao") \/ titulo[ex[l].seq] # "nao"
     \/ Pode("posEmissao")
  /\ \/ UNCHANGED <<titulo, dono>>
     \/ /\ Pode("posEmissao") /\ titulo[ex[l].seq] = "nao"
        /\ titulo' = [titulo EXCEPT ![ex[l].seq] = "aberto"]
        /\ dono' = [dono EXCEPT ![ex[l].seq] = l]
  /\ Sair(l, "falha")

\* -------------------------------------------------------------- what follows
\* The replaced row, read before the session, is cancelled as it is now.
GravarBaixa(l) == /\ pc[l] = "posBaixa"
                  /\ Update(ex[l].prev, [h[ex[l].prev] EXCEPT !.pay = "cancelled"])
                  /\ Ir(l, "upload")
                  /\ UNCHANGED <<ex, soLinha>>

\* The PDF goes to the storage; only then the row learns its nosso numero.
Upload(l) == /\ pc[l] = "upload"
             /\ Update(l, [h[l] EXCEPT !.nn = ex[l].seq])
             /\ Ir(l, "etapa")
             /\ UNCHANGED <<ex, soLinha>>

FalharUploadMut(l) == /\ Pode("upload")
                      /\ pc[l] = "upload"
                      /\ Ir(l, "etapa")
                      /\ UNCHANGED <<ex, soPasso>>
FalharUpload(l) == /\ Pode("upload")
                   /\ pc[l] = "upload"
                   /\ Ir(l, "falha")
                   /\ UNCHANGED <<ex, soPasso>>

\* Attachment and messages; the success stage is scheduled, except in manual
\* mode, and last the row says success.
AgendarEtapa(l) ==
  /\ pc[l] = "etapa"
  /\ Update(l, [h[l] EXCEPT !.situacao = IF ex[l].manual THEN @ ELSE "sucesso"])
  /\ Ir(l, "concluir")
  /\ UNCHANGED <<ex, soLinha>>

Concluir(l) ==
  /\ pc[l] = "concluir"
  /\ Update(l, [h[l] EXCEPT !.status = "success"])
  /\ Parar(l)
  /\ UNCHANGED soLinha

\* catch: a safe failure is queued again up to MAX_REAGENDAMENTOS times, every
\* other one is an error with the error stage scheduled.
ReagendarMovendoEtapa(l) ==
  /\ pc[l] = "falhaSegura"
  /\ h[l].tentativas < MaxReag
  /\ Update(l, [h[l] EXCEPT !.status = "queued", !.processada = FALSE,
                            !.tentativas = @ + 1, !.situacao = "erro"])
  /\ Parar(l)
  /\ UNCHANGED soLinha
ReagendarSemReset(l) ==
  /\ pc[l] = "falhaSegura"
  /\ h[l].tentativas < MaxReag
  /\ Update(l, [h[l] EXCEPT !.status = "queued", !.tentativas = @ + 1])
  /\ Parar(l)
  /\ UNCHANGED soLinha
Reagendar(l) ==
  /\ pc[l] = "falhaSegura"
  /\ h[l].tentativas < MaxReag
  /\ Update(l, [h[l] EXCEPT !.status = "queued", !.processada = FALSE,
                            !.tentativas = @ + 1])
  /\ Parar(l)
  /\ UNCHANGED soLinha

Reprovar(l) ==
  /\ pc[l] = "falha" \/ (pc[l] = "falhaSegura" /\ h[l].tentativas >= MaxReag)
  /\ Update(l, [h[l] EXCEPT !.status = "error", !.situacao = "erro"])
  /\ Parar(l)
  /\ UNCHANGED soLinha

\* The server restarts: every run is gone, the rows, the lease and whatever
\* the portal already registered stay.
Reiniciar == /\ Pode("queda")
             /\ pc' = TodasParadas /\ ex' = TodasNovas /\ atual' = 0
             /\ UNCHANGED dadosVars

Passo(l) ==
  \/ Iniciar(l) \/ LerReserva(l) \/ FalharCV(l) \/ VerPago(l) \/ VerJanela(l)
  \/ Agendar(l) \/ Recusar(l) \/ DecidirRetrigger(l) \/ RecusarPrazo(l)
  \/ Numerar(l) \/ PegarLock(l) \/ DesistirLock(l) \/ AbrirSessao(l)
  \/ FalharSessao(l) \/ BaixaPrevia(l) \/ FalharBaixa(l) \/ Emitir(l)
  \/ FalharEmissao(l) \/ GravarBaixa(l) \/ Upload(l) \/ FalharUpload(l)
  \/ AgendarEtapa(l) \/ Concluir(l) \/ Reagendar(l) \/ Reprovar(l)

EmissaoNext ==
  \/ \E l \in Linhas : \/ \E forcar, manual \in BOOLEAN : Acionar(l, forcar, manual)
                       \/ Retomar(l)
                       \/ Passo(l)
  \/ FimRetomada
=============================================================================
