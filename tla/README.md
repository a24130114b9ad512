# Verification of the Menin Office back-end

The repository is the back-end of a real-estate office: some thirty services over one Postgres database, woken by
HTTP requests, by webhooks and by about forty cron jobs, talking to a CRM ("CV"), an ERP (Sienge), Meta, WhatsApp and
a bank portal (Ecobrança) driven by a headless browser. Most of it is CRUD, imports and delivery. This project
verifies the five flows where the order of steps decides whether somebody is charged, paid or contacted twice, or
never, or loses a contract or a unit:

* the **Boleto de Ato**: the boleto of the first payment of a reserva, its replacement, payment and write-off;
* the **CV stage** that follows a boleto, held back until the CV's batch has run;
* the **cancellation of reservas**: from the CV's webhook to the deletion of the contract and the unit's return to sale;
* the **marketing leads**: from Meta's webhook to one conversion in the CV;
* the **payment flow**: from a launch to contract, measurement, title and payment in Sienge.

## 1. Inventory

| Component | State it keeps | Operations | Interacts with | What is hard, and what makes it correct |
|---|---|---|---|---|
| Ecobrança lock (`services/boleto/BoletoEcoLockService.js`) | one row of `boleto_eco_lock`: owner, expires_at | acquire, release, withLock; clients poll or give up | every user of the portal | the lease is never renewed; late release; death of the process. Exclusive while the lease runs; nobody frees another's lock |
| Emission (`BoletoGenerationService.js`, `playwright/services/ecocobrancaService.js`) | rows of `boleto_history`, titles at the bank | `processBoletoWebhook` from webhook, retry, regenerate, resume | lock, CV, portal, storage, window scheduler | fire-and-forget runs that interleave, decisions before the lock, failures in every phase, retries. One title per activation; retry only what is safe |
| Emission window (`scheduler/boletoWindowScheduler.js`, `lib/boletoJanela.js`) | `emissao_agendada_*` of a row, `processando` | compare-and-set, resume | emission, settings | rows lost between the flag and the run. Every queued row gets an outcome; the next opening is the first one |
| Payment check (`BoletoPaymentCheckService.js`, `boletoPaymentCheckScheduler.js`, `ecoCheckService.js`) | `payment_status` of a row | daily round, manual round, admin's mark | lock, portal | the bank may show a paid title as written off; read-then-write over awaits. The row says what the bank says, payments are found and kept |
| Cancellation (`services/reservaCancel/ReservaCancelService.js`, its controller, `baixarBoletoPorCancelamento`) | rows of `reserva_cancel_history`, the set of reservas in flight; `payment_status` | webhook, manual run, retry; brake on bursts, duplicates, gates, deletion, stage, unit | CV, Sienge, boleto rows, lock, portal | duplicates that a restart forgets; reads older than the deletion; failures between Sienge and the CV; a burst seen too late; cancelled while a run is emitting. Only the cancelled reserva's contract and unit are touched; a success means both sides are done; no emission after the gate opened |
| CV stage scheduler (`boletoSituacaoApplyScheduler.js`, `lib/cvLoteTiming.js`) | `situacao_pendente_*` of a row | schedule, list, POST, mark | CV | crash between POST and mark, overlapping ticks, batch arithmetic, rows that fill a tick. After the batch, at least once; back to an older activation's stage only by a repeated POST |
| Leads (`services/marketing`, `marketingDispatchScheduler.js`, `MetaLeadAdsService.js`) | a row of `inbound_leads`: status, attempts, next retry | webhook, capture, dispatch, cycle, inbox, cutover | CV, Meta | claim by a plain save, cycles without an overlap guard, duplicate deliveries, stubs, lost answers, stuck claims. One conversion per lead; every lead ends |
| Payments (`services/sienge/PaymentFlowPipelineService.js`, its controller and two schedulers) | a row of `payment_launches`: stage, status, numbers | the pipeline, single steps, polls, buttons | Sienge API, Sienge by browser, people | no lock of a launch; polls that overlap; browsers that die after Sienge took it. Nothing before its authorization, one title, paid means paid |
| All the others | | | | listed with the reason in `PROJECT.json` |

The hazards, each at its line, are in `PROJECT.json`; the properties of each component are in section 3.

## 2. Modules

    Lease <---- EcoLock <-- MCEcoLock, EcoLock_proofs
      ^
    BoletoDados <-- BoletoEmissao, BoletoVerificacao, BoletoCancelamento
                       \________________|________________/
                                   BoletoAto <-- MCBoletoAto <-------.
                                    ^     ^                           \
                        BoletoAto_tipos  BoletoHistoria <-- MCBoletoHistoria
                                    ^     ^
                               BoletoAto_proofs

    LoteTiming <-- SituacaoCv <-- MCSituacaoCv --> BoletoJanela
                       ^-- SituacaoCv_proofs --> BoletoJanela

    ReservaDados <-- ReservaCancel <-- MCReservaCancel
                          ^-- ReservaCancel_proofs

    LeadRegistro <-- LeadDispatch <-- MCLeadDispatch
                         ^-- LeadDispatch_proofs

    PagamentoDados <-- PagamentoEsteira <-- PaymentFlow <-- MCPaymentFlow
                                                ^
                                      PaymentFlow_passos <-- PaymentFlow_proofs

(an arrow points to the module that is extended or, for Lease, instantiated).

### The boleto

* **Lease** — what the lock promises with the clock abstracted away: a holder, and a lease that may lapse at any moment.
* **EcoLock** — the row with `NOW()`, and its clients: an emission and a cancellation that poll, a check that tries once,
  each with its own lease, working for as long as the portal makes it, or dying. `L!LeaseSpec` is the refinement: the
  boleto modules run on `Lease`, and `ImplementaLease` is what justifies it.
* **BoletoDados** — what the processes share, for one reserva: the rows, the titles at the bank, the owner of each title
  (a history variable), the CV's view of the reserva, the window, the switch of the module, the lease; and the actions of
  the environment. Queries are all by `idreserva`, except the count of the suffix, which is by the person
  (`BoletoGenerationService.js:947`): the model is of a person with one reserva. The rows of another one make the
  count larger, and its runs may compute the same number, as two runs of the one reserva do here. Otherwise reservas
  interact only through the lease, which here is shared with owners of the same reserva and lapses at any time.
* **BoletoEmissao** — a run per row. `pc[l]` is the next step of `processBoletoWebhook`; each step is the code from one
  await that other processes can observe to the next. `ex[l]` is what the run remembers across its awaits: the condition
  read from the CV (`foto`), `forcarAgora`, `manual`, the boleto to replace (`prev`), the counted suffix (`seq`), whether
  the write-off was confirmed (`baixou`). A `throw` is a step to `falha` or, when `ecoSeguroRepetir`, to `falhaSegura`.
* **BoletoVerificacao** — a round per verifier (daily, manual), with its list of rows, the reading of the title, the
  optional write-off, and `aplicarResultado` split at its read and its write; `markHistoryCancelled` likewise.
* **BoletoCancelamento** — `validarAto` and `baixarBoletoPorCancelamento`: the gate that the cancellation of a reserva asks.
* **BoletoAto** — the composition, the restart of the server, the fairness and the properties.
* **BoletoHistoria** — the same with one history variable, `emOrdem`: no run started while another was under way
  (`Sobrepoe`), no queued row was resumed behind a later activation (`Atrasa`), no run was lost after its emission
  (`Perde`). The code prevents none of the three, and they are all that two open titles can come from.

A (value, due date) pair is a member of `Conds`; members of `ForaDoPrazo` are refused by the due-date checks; `SemSerie`
and `Invalida` are reservas the validations stop. The nosso número is the count that makes its suffix, as in the code,
so two runs can compute the same one. The bank keeps one title per number. Messages, PDF contents, e-mail and WhatsApp
are left out; their failures only add warnings to the row.

### The stage of a reserva

* **LoteTiming** — `computeSituacaoTarget`: the CV sends its batch every five minutes; a stage waits until a minute after
  the first batch that is far enough away. Seconds are kept: `Minuto` is their number.
* **BoletoJanela** — `dentroDaJanela`, `proximaAbertura` and their adjustment, over hours.
* **SituacaoCv** — rows of several reservas, `Ticks` that list up to `LimitePorTick` pending rows and go through them,
  the POST and the mark as two steps, what the CV answers to each row (`Resposta`), failures, restarts, the clock.
  `etapa` is the row whose stage each reserva has in the CV; `tropecou` is a history variable: rows whose POST failed,
  or was cut by a restart.

### The cancellation of a reserva

* **ReservaDados** — reservas of the CV with their life and their stage, the holder of each unit, the contracts of Sienge
  with the ways each can be found (by the reserva, by the unit, by the number of the integration) and whether they are
  fit to be deleted (`bom`: the comparisons of situation, unit, enterprise, customer and payments, which read no state of
  the flow), the rows of `reserva_cancel_history`, and the run of each. `fora` is a history variable: reservas that left
  the automatic course, see below. Ages of rows are kept where the code looks at them: seconds for the brake, a quarter
  of an hour (`recente`) for the duplicates.
* **ReservaCancel** — `processReservaCancel`, one action for each await after which others may have acted: the two counts
  of the brake with the wait between, the duplicates, the reserva, the contracts by reserva and by unit, the number, the
  document, the gate (a free answer: BoletoCancelamento is its model), the DELETE, the two re-readings, the stage, the
  unit, the row. What a run read is in `corrida[c]`, and may be stale. A reserva is in flight while a run of it is
  anywhere but `parado`; a restart forgets that and leaves the row in processing. The CV's answer to the release of a
  unit does not say who had it: `Liberar` frees it whoever holds it, as the call does.

### Leads

* **LeadRegistro** — a row and the instance a process has of it. Sequelize's `save()` writes the fields that the instance
  changed, so `Salvo` merges field by field: two processes overwrite each other exactly as far as they do in the code.
* **LeadDispatch** — one action per step of the webhook, of `captureLead`, of `dispatchLead` (claim, POST, outcome), of
  the cycle (stubs, then the three queries, then each lead read by id), and of the people of the inbox. Time appears
  where the code looks at it: the age of the last save and of the last claim of a row, how long a POST has been going,
  and what is left of the back-off. `aceitos`, `incerto`, `manual` and `cruzes` are history variables: conversions the
  CV took, leads whose acceptance nobody heard of, leads that people took in hand, and how often a cycle took a lead up
  while another one had it in its list. Nothing keeps cycles from that (`marketingDispatchScheduler.js:109` fires every
  three minutes, a POST may take five), so nothing in the model does, but for a bound. `ligadas` counts how often shadow
  mode was on.

### Payments

* **PagamentoDados** — a row, what Sienge holds of it, and the processes. A patch writes the fields it names. A title
  remembers its measurement, a measurement whether the contract was authorized when it was made. `fora` is a history
  variable: what took the launch out of the automatic course.
* **PagamentoEsteira** — every step of `runFullPipeline`, with the patch before and the patch after the work in Sienge as
  steps of their own. A browser session takes effect or not (`falha`), may fail after Sienge took it (`incerta`), and may
  come back without the number it made (`semNumero`).
* **PaymentFlow** — the polls, split at their reads; the cycle of `contractApprovalScheduler` and "verificar agora";
  `creditorPollingScheduler`; the buttons; Sienge's people; restarts; the properties.

### What the instances switch

`Eventos` switches failures and external events on and off, so that each run is about one question and stays small; an
event that is off is a fact about the instance, not about the code, and the theorems hold for every value of `Eventos`.

| Boleto | What may happen |
|---|---|
| cv | the CV or the company's CNPJ does not answer |
| portal | login or company selection fails, safely or with invalid credentials |
| baixa | a write-off aborts, or goes through without a recognised confirmation |
| emissao, posEmissao | the portal refuses the boleto; registers it and the PDF never arrives |
| upload | the storage refuses the PDF |
| consulta | a reading fails, the title is not found, the batch ends early |
| leituraBaixado | a paid title is shown as "BAIXADO POR DEVOLUÇÃO" (`BoletoPaymentCheckService.js:386`) |
| paga, baixaExterna, cancela, serieInvalida | the customer, an admin, the CV |
| janela, fechada, desliga, expira, queda | the window opens or closes, starts closed; the module is switched; a lease lapses; the server restarts |

| Cancellation | What may happen |
|---|---|
| api, documento | a reading throws; the search by the holder's document fails or has no document |
| exclui, etapa, libera | the DELETE, the change of stage, the release is refused, has no effect, or is not answered |
| manual, contrato | contracts made by hand; emitted, paid, corrected or cancelled ones |
| regulariza | people move a pending reserva back to Cancelada |

| Leads | What may happen |
|---|---|
| graph | the data of a lead cannot be fetched from Meta |
| recusa, falha, perde | the CV refuses; fails; takes the lead and its answer is lost |
| banco | the row cannot be saved as delivered: that save is inside the `try` of the POST, so the lead is marked failed |
| sombra | shadow mode (`dry_run`): on or off at the start, and switched by people |
| rota, redisparo, spam, backlog | the actions of the inbox; the cutover |

| Payments | What may happen |
|---|---|
| falha, incerta, semNumero | the browser fails before, or after, Sienge took it; does not read the number |
| clique, cria, agora, boleto | single steps, creations by hand, "verificar agora", a boleto that fails or is replaced |
| aborto, cancela, paga, avanca | the buttons that write the row alone |

## 3. Runs

All runs but eco_lock set CHECK_DEADLOCK FALSE: a bound on rows, requests or the clock ends every behaviour, where the
system would go on. EcoLock never deadlocks.

| Run | Instance | Checks |
|---|---|---|
| eco_lock | 3 clients, leases of 1 to 3 minutes, 6 minutes | `TypeOK`; `ExclusaoNoPrazo`: never two clients in the portal with both leases running; `SoLiberaOSeu`: a late release frees nobody else's lock; `ImplementaLease` |
| boleto_serial (MCBoletoHistoria) | 3 rows, up to 2 concurrent runs, 1 retry; refused due dates, failures of the session, of a write-off and after the emission, payments, check | `UmAbertoEmOrdem`: two open titles only after the runs lost their order |
| boleto_falhas | 2 rows, 2 concurrent runs, 1 retry, every failure, window, restart | `FilaSemTitulo`, `UmTituloPorLinha`: a retry is safe; `EmitidaTemTitulo`: the number in the row is that of its own title; `RegistroFiel`: paid and cancelled agree with the bank; `PagoNaoRegride`; `PermaneceNaSituacao` |
| boleto_cancelamento | 2 rows, 2 concurrent runs, a window closed at first, the switch of the module, refusals, cancellation, check, admin's mark | `CanceladaNaoEmite`: after the gate opened only a run of an older row emits; `RegistroFiel` |
| boleto_vivo | 2 rows, fair, portal failures, window closed at first | `TodaLinhaTermina`, `PagamentoDetectado` |
| situacao_cv | 4 rows, two of one reserva, one refused and one failing for ever; 2 ticks of 2 rows; a failure and a restart | `PeloMenosUmaVez`: a mark means the CV changed the stage, or refused; `EtapaDepoisDoLote`; `OrdemDasEtapas`: a reserva goes back to the stage of an older activation only by a POST that is repeated; `TodaEtapaAplicada`. The module also evaluates `JanelaCerta`: the next opening against its definition, over every pair of hours and 60 hours |
| reserva_cancel | 2 reservas that have one unit after the other, 2 contracts, 2 cases, a limit of 1, a wait of 2 and a window of 3, 1 restart; every failure | `LiberacaoSegura`: a unit goes back to sale only from the cancelled reserva that has it and without a contract; `ExclusaoCerta`: only the one contract of a cancelled reserva is deleted; `RajadaRetida`: of a burst not even the first case runs; `SucessoDosDoisLados`: a success, after which webhooks are ignored, means both sides are done |
| lead_dispatch | 1 lead, two cycles that may overlap on it once, and two other processes; 2 attempts, 1 intervention, 1 restart; everything switched on | `EntregaUnica`: one conversion in the CV; `InboxFiel`: the inbox shows what the CV has; `TentativasLimitadas`; `DeadLetterEspera`: each of leads on which cycles did not overlap; `LeadTemDesfecho`: of every lead |
| payment_flow | 2 processes, 2 requests of people, 2 measurements and titles, 1 restart; everything switched on | `UmTitulo`, `MedicaoRegular`, `TituloAutorizado`, `PagoConfere`, `AditivoConfirmado`, `AutorizacaoAvanca` |

Why these bounds. Of the boleto, two rows are what the two-party hazards need (a run and the one it races with or
replaces), one retry is what separates "first attempt", "retried" and "exhausted". A tick of two rows out of four is
the smallest where a row that always fails takes a place and another still gets through, and the failing row cannot
fill the tick: with fifty rows that fail for ever the property would fail, which is why the limit is a constant. Reservas interact
through the unit, so two that have it in turn are needed, and two cases are a case and its duplicate, its retry or the
other of a burst; two contracts are an ambiguity, or a contract and one made meanwhile. Three cases would separate a
limit of two; the wait and the window are then related as below. The instance with units that have no internal code was
checked as well (540 thousand states). Leads
do not share state, so one is enough; four processes are two deliveries of a webhook, or one and a person, and two
cycles. One overlap is enough to leave the properties' scope, after which only `LeadTemDesfecho` looks at the lead. A launch does
not share state with others either; two processes are a run and a poll, or two polls, and two requests are a run and
whatever a person does to it. The invariant of the payment flow was also checked with three requests (3.2 million
states) while it was found, and it is proved for any number.

`boleto_serial` has a CONSTRAINT, `emOrdem`: `UmAbertoEmOrdem` says nothing of a state where the order was lost, nor of
the states after it, so the search ends there. A state is checked before it is cut off. boleto_falhas has the same steps
without that limit, for the properties that hold whatever overlaps.

**Fairness.** Only weak fairness is used, of what the code itself drives: each await settles or times out (browser and
HTTP calls have time-outs), crons fire, the clock goes on. The boleto's `Justica` has runs, rounds, the cancellation,
resumes and the start of rounds; `SituacaoCv` the clock and the ticks; `LeadDispatch` each process, the clock and the
start of a cycle; `PaymentFlow` each process and the cycle of the polls. Nothing is assumed of the customer, of people
at the screen, of Sienge, of the CV or of Meta. A boleto row lost in a restart, or resumed while the module is switched
off, stays as it is: the liveness run has neither event.

Runs that expect a violation, each the shortest behaviour TLC finds:

| Run | What it shows |
|---|---|
| substitui_pago | a boleto paid after the decision is "not found" among the open titles, and its replacement is emitted |
| gate_pago | the gate looks at the latest row that was not ignored, and lets a skipped one go on: a boleto is emitted, paid and recorded as paid; the next activation finds the reserva cancelled and is skipped without `ignorado` (`BoletoGenerationService.js:400`; an ato already paid does the same at 454); the gate then says go on. Nothing races, and the gate writes nothing off (`baixar_boleto_no_cancelamento` is off, the default) |
| reserva_pendencia | a second case of a reserva in Pendência moves it to Cancelada, fails to release the unit, and takes it for still being in Pendência, since it compares with the stage read at its start: the reserva stays in Cancelada with an error and its unit taken |

**Known not to hold**, and so stated with their limits:

* The portal is exclusive only inside the lease; a session longer than its lease (5 minutes for an emission) runs beside
  the next one.
* `UmTituloAberto` fails in three ways, which are the three that `UmAbertoEmOrdem` leaves out. Two webhooks of a reserva
  decide before either is emitted, and both emit, with no failure at all, although `ecocobrancaService.js:67` says the
  replacement never leaves two open titles. A run lost after its emission (a restart, a PDF or an upload that fails)
  leaves a title no row names. And a queued row is resumed behind a later activation, even one run at a time: row 1 waits
  for the window; row 2, forced, is emitted; row 3 has other conditions, writes the title of 2 off, and is refused by the
  portal, so that nothing records the write-off and row 2 stays pending with a dead title; row 1 is resumed, does not find
  that title, and emits its own; row 4 looks at the latest pending row, which is still the dead one, and emits another. A
  payment that no check has recorded yet, or an unconfirmed write-off, takes the part of the refusal as well.
* `CanceladaNaoEmite` leaves out the runs of older rows: the gate looks at the latest row only, and an older one may be
  emitting — a second run, one that waited for the window, or a retry.
* A manual regeneration that is queued by a safe failure comes back without `manual` and moves the CV stage.
* `PagoNaoRegride` needs each condition of its theorem once a paid title may be read as written off (`leituraBaixado`): a
  cancellation that read a pending row, and is shown its title as written off, overwrites the payment that a check recorded
  meanwhile; and the guard of `aplicarResultado`, read before an await, is too old when two rounds overlap.
* A stage may be posted twice by overlapping ticks or around a restart, and the second POST may put an older stage back:
  two ticks list row 2, one posts it and, in its next round, row 3 of the same reserva; the other then posts row 2, and
  the CV is left with it. `OrdemDasEtapas` says that only a repeated POST does so. The header of
  `boletoSituacaoApplyScheduler.js` (10-13) calls the mark a compare-and-set; line 33 is a plain update.
  A stage may come up to about eight minutes after its scheduling.
* Two overlapping cycles of the lead scheduler may post a lead twice: the second one lists a lead that is stuck, orphaned
  or failed and due, or a stub, while the first one has it in its list (a list of 50 is posted one by one, each for up to
  five minutes), since the claim is a plain save (`CvLeadDispatchService.js:238`) of an instance that may be in
  `dispatching` already (line 31). Its attempts may then exceed the maximum, and a dead letter may be revived.
  `EntregaUnica`, `InboxFiel`, `TentativasLimitadas` and `DeadLetterEspera` are about the leads on which none overlapped. A
  lead in `received` (without a stub) or `validated` when the server restarts is in no query of the cycle, so
  `LeadTemDesfecho` speaks of leads that were routed. An acceptance whose answer was lost, or which could not be saved, is
  posted again: `incerto`.
* The brake needs its wait to end while the burst is still in the window: `RajadaRetida` is proved for
  `2 * wait - 1 <= window`, and no smaller window will do (with a limit of 2, a wait of 2 and a window of 2, TLC has the
  second of three cases run: the first is out of the window when it looks again). The defaults (15 s, 300 s) satisfy it;
  the settings screen also takes a window of 10 s with a wait of 600 s. A burst slower than the
  wait has its first cases run before the limit is reached. A wait of 0 is read as 15.
* `LiberacaoSegura` and `ExclusaoCerta` leave out `fora`: reservas whose release was made and not recorded (its answer
  or the server lost), or that a person ran again after a success. If the unit was sold again by then, the retry puts it
  up for sale under its new holder: nothing compares the two.
* A contract that is emitted or paid between its checks and the DELETE is deleted all the same, unless Sienge refuses.
* A cancelled reserva that was reactivated and is cancelled again is ignored, because of its earlier success; held and
  skipped cases stay in Cancelada until a person runs them; a restart leaves its rows in processing for ever.
* With `baixar_boleto_no_cancelamento` the gate writes a boleto off although an earlier check already failed, against
  `ReservaCancelService.js:10` ("blocked": nothing is changed), since all checks are made before the sum is looked at.
* `UmTitulo` and the two authorizations need `UmaPorVez`: that runs and creations of a launch do not overlap, are asked for
  where it has stopped, and start over when no poll of it is under way. The API does not enforce this: two clicks on "run"
  make two contracts, and a poll that is under way across a run that starts over may act on an authorization that the
  new additive withdrew. `UmTitulo` also needs that no browser died after Sienge took it, since the retry makes another.
* A launch cancelled while its supplier was being registered is taken up again by `creditorPollingScheduler`, which does not
  look at the status, and goes on to a contract in Sienge.
* The title of a launch whose boleto failed for good is polled only by "verificar agora" (`contractApprovalScheduler.js:86`).

## 4. Proofs

Everything below is checked by TLAPS for every value of the constants that satisfies the named assumptions
(`OwnersAssumption`, `NinguemAssumption`, `DadosAssumption`, `MinutoAssumption`, `SituacaoAssumption`,
`ReservaAssumption`, `PagamentoAssumption`, `QuedasAssumption`, `LeadAssumption`, `LimitesAssumption`): bounds are
naturals, special values are distinct, every row, verifier and the canceller is a possible owner of the lease, and a lead is
stuck only after the longest POST (600 s against 300 s).

* **EcoLock_proofs.** `DonoNoPrazo` ("a client inside its lease owns the row with exactly that lease") is the
  strengthening: with `TypeOK` it is inductive, because the row changes hands only when free or lapsed and then the
  previous client is beyond its lease too. It gives `Exclusao` and `LiberaOSeu`; `Refinamento` maps every step to a
  step of `Lease` or a stutter (a tick is `Expire` when it passes `expiresAt`).
* **BoletoAto_tipos.** `TypeOK` is not inductive alone: indexing a title by a row's number needs the number to be there.
  `IInvTipo` adds `FotoLida` (after the validations the run holds a real condition), `NumeroRegistrado` (a row being
  replaced has a number), `RodadaComNumero` and `CancComNumero` (so do the rows a round or a cancellation works on).
* **BoletoAto_proofs.** `IInv` adds where titles come from: `TituloComDono` and `QuemEmitiu` (the owner of a title is an
  activation that left the session, and is past the point where a retry is possible), `UmTituloPorLinha`,
  `NumeroDaPropria` (a run past the emission owns the title with its number), `SemEtapa` (the stage of a row that may
  still be queued or skipped is untouched). `QuemEmitiu` is the heart: a run in `falhaSegura` owns no title, hence
  `FilaNaoEmitiu` and `UmTitulo`; they hold for any number of concurrent runs, restarts and lapsed leases.
  What rows say of the bank is a second layer, `Fiel`. Every process writes the payment of a row that it read earlier:
  a run the row it replaces, a round each of its items, a cancellation and a mark theirs. `Fiel` says what they remember:
  the row was emitted, under that number (`Numerada`), and what was read or done there (`Leu`, `Substitui`). It is
  inductive (`Fidelidade`) because of what no step undoes (`Estavel`): an emitted row keeps its number, and a title paid or
  written off stays so; no lock is needed for it. `RegistroDoBanco` follows.
  - `PagamentoFica` has a condition: paid titles are not read as written off, or there is one verifier and no
    cancellation. In the first case the bank itself forbids the second write; in the second the guard of
    `aplicarResultado` does, and is then fresh (`VistoFresco`). TLC finds a counterexample without it, section 3.
  - `SemEmissaoDepoisDoPortao` has none. Once the gate let a cancellation go (`Portao`), the reserva is cancelled, so no
    run gets past its reading of the reserva any more; and each run that is past it is of a row behind one the gate
    may look at (`Encoberta`), because the gate bars when it sees a row in processing and the latest row was what it saw
    (`GateSoVeUltima`). Later activations only add rows that cover more.
  - `UmTituloDeCadaVez` has none either: it is about `SpecH`, with any number of runs. While `emOrdem` holds, one run goes
    on at a time and it is of the latest row (`UmaPorVez`), and the open title is that of the latest emitted row
    (`AbertoDaUltima`); since the rows are true of the bank, that row is the pending one the re-trigger decision looks at
    (`DecisaoVeOAberto`), and the run closes it before it emits (`SabeDoAberto`). Retries of the latest row, write-offs that
    abort or go through unrecognised, refusals, restarts, payments, checks and cancellations keep all that.
* **SituacaoCv_proofs.** About the arithmetic: `AlvoDepoisDoLote` (the due time is at least a minute after a batch that
  keeps the safety margin) and `ProximaAberturaCerta` (the next opening is an opening, is not past, and no open hour lies
  before it). The margin is any number the settings take: `boletoController.js:98` bounds it in no way, and 0 is read as 2.
  The code skips one batch at most, so of a margin longer than five minutes five are kept (`Margem`). About the scheduler:
  `EtapaIndutiva`, an invariant that relates due times, the lists of the ticks and the effects, gives `TypeOK`,
  `PeloMenosUmaVez`, `EtapaDepoisDoLote` and `OrdemDasEtapas`. The order is the deep one: a tick lists by due time, so while
  it holds a newer row of a reserva no older one is pending outside of the ticks that got there first; a first POST of an
  older row therefore comes before, and only a repeated one after.
* **PaymentFlow_passos, _proofs.** First comes one lemma per step: what it does to the row, to its process and
  to Sienge, as far as the invariant looks. The invariant `IInv` has four layers, each under the part of the history it
  needs. Always: types, numbers that exist in Sienge (`Numeros`), `AditivoDito`. In the automatic course (`Seguro`): one
  run at a time (`UmCorredor`), none while the launch waits for an authorization (`CorreForaDaEspera`), who measures has
  the authorization (`Autorizado`), who makes a title has that of its measurement (`Liberado`), and — what makes the polls
  safe although nothing keeps them apart — a launch that may still start from before its measurement has no poll past its
  reading of the stage (`SemPollAtrasado`). Without a start over: a launch with a title is past every run (`ComTitulo`).
  Without any accident: nothing made yet, nothing made twice (`Unicos`). It is inductive (`Coerencia`), and `UmaVez`,
  `SoContratoAutorizado`, `SoMedicaoAutorizada`, `PagoDeVerdade` and `AditivoComAval` follow.

* **LeadDispatch_proofs.** For any number of cycles, which may overlap, with `TimeoutPost < Preso`: a claim is taken for
  stuck only after the longest POST. `TypeOK` is not inductive alone: `ProcTipo` adds that a POST is at least the first
  attempt. The invariant is per lead and holds until people step in or a cycle takes the lead up while another one had it
  (`Sozinhos`); what happens to one lead does not weaken it for the others. `UmSo`: one process has the lead in hand.
  `Conhece`: its instance agrees with the row, and no query of a cycle finds the row while it works, since the age of a
  claim is at most the age of its POST. This is what takes the place of a lock, and why the two times must be apart.
  `SoDoCiclo`: what is in the list of a cycle waits for that cycle alone. `Contada`: attempts beyond the retries are
  owed to restarts, and to shadow mode, which counts an attempt that it does not post (`ligadas`). `Conta` ties the
  row to what the CV took, for leads out of `incerto`. It is inductive (`Coerencia`); `UmaConversao`,
  `InboxDizVerdade`, `CustoLimitado` and `DeadLetterFica` follow, for any number of leads, deliveries, restarts and
  interventions.

* **ReservaCancel_proofs.** First what one step of a run may do to its row, to the runs of others and to the world
  (`Curso`, `Passa`, `Mundo`): a cancelled reserva stays cancelled, a contract made stays made, new contracts are of
  reservas that are alive. A reserva holds its unit (`Posse`) from its sale until its own release. The invariant `IInv`
  then has three parts. Who runs: one run of a reserva at a time (`UmaCorrida`), none that goes on after a success
  (`SemSucesso`). Who has the unit: its holder is the reserva in possession (`DonoDaUnidade`), nobody else was sold it
  meanwhile (`VendaUnica`), and one that gave it back has neither unit nor contract (`Entregue`). What a run still knows
  (`Sabe`): its readings are stale by the time it acts, and are safe to act on because what it read can only have
  become less, as its reserva is cancelled and no other reserva of the unit is alive. It is inductive (`Coerencia`), and gives
  `AmbosOsLados`, `SoltaOQueEDela` and `ExcluiOQueEDela`. The brake has an invariant of its own, `Freio`: ages and waits
  go together, and each case of a burst has more than the limit of neighbours, at most a wait older than itself; so when
  its wait is over it counts them all (`NenhumDaRajada`, with `2 * Espera - 1 <= Janela`).

Each invariant was first checked with TLC on the instances above.

Every invariant and action property that a passing run checks is proved. Only model-checked: all liveness
(`TodaLinhaTermina`, `PagamentoDetectado`, `TodaEtapaAplicada`, `LeadTemDesfecho`, `AutorizacaoAvanca`), which is beyond the
prover. (`JanelaCerta` is what `ProximaAberturaCerta` proves, evaluated.)

## 5. Not modelled

Within the flows:

* boleto: failures of the database itself (the catch of `retomarUm`), `forceRelease`, the CV stages paid and written off
  that a check applies at once, commission rules (they only choose the amount), the grouping by company;
* cancellation: messages to the reserva, the event log, listings; failures of the database; the comparisons that make a
  contract fit (any contract may be); a cancellation that is undone in the CV, and people who give the unit of a pending
  reserva back by hand; the switches change between behaviours and not within one;
* leads: the forms of the site (one create per submission), the reconciliation report, the resolution of a campaign's
  mapping (any lead may be mapped or not);
* payments: clicks inside a browser session, which is one step; its internal retries; attachments; listings and the
  editing of a launch's data; a failed poll is a poll that did not happen.

External, modelled from how the code uses them: Sienge resets the authorization of a contract when it gets an additive
(what `pollContractStatus` waits for), a launch has the code of its boleto, the CV answers a repeated stage like the first
one, Meta may deliver a webhook twice, `meta_leadgen_id` is unique in the table.

Outside the flows: the components that `PROJECT.json` lists as not modelled, each with its reason. Most are imports,
listings, formatting or delivery, where a state machine would restate the query; those that do have one (Eme Atende, event
plans, checklists, conditions and their signatures) are the next candidates.

## 6. What is left

1. Two payment runs of one launch that overlap (`UmaPorVez`): what still holds of a launch when two clicks run it twice.
2. Eme Atende's conversation and sweep on top of the leads, and the approval cycle of event plans.
