----------------------------- MODULE MailCircuit -----------------------------
(***************************************************************************)
(* Sending one mail after another through the circuit breaker of           *)
(* core/integrations/email_connector.py.                                   *)
(*                                                                         *)
(* The threads of the e-mail dispatcher walk the candidate addresses of    *)
(* their mail; every attempt passes the breaker, runs on a worker of its   *)
(* pool, and is given up after send_timeout seconds, while the worker it   *)
(* occupies cannot be interrupted.  The relay may hang at any time.        *)
(*                                                                         *)
(* A mail is taken up again (as another mail) once nothing of it is left.  *)
(***************************************************************************)
EXTENDS Integers, FiniteSets

CONSTANTS Mails,      \* the mails in flight
          Threads,    \* _dispatch_executor's max_workers
          Workers,    \* _SEND_WORKERS
          Threshold,  \* email.circuit_fail_threshold
          Addresses,  \* candidate addresses of a recipient
          Outlasts    \* email.circuit_cooldown_seconds > email.send_timeout_seconds

ASSUME MailAssumption ==
  /\ Threads \in Nat \ {0} /\ Workers \in Nat \ {0} /\ Threshold \in Nat \ {0}
  /\ Addresses \in Nat \ {0} /\ Outlasts \in BOOLEAN

VARIABLES
  mail,    \* each mail: how far its current attempt got
  circuit, \* the breaker: opened_at, _consecutive_timeouts, _probe_in_flight
  relay    \* whether the mail relay answers

mailVars == <<mail, circuit, relay>>

\* phase: where the attempt of a mail is; left, the addresses not yet tried.
\* probe: the breaker let it through as its probe.  stale: its pool has been
\* abandoned.  late: an attempt given up still occupies a worker, of the
\* current pool unless gone.  got: how often the mail was delivered; broken: how
\* often of these the backend raised all the same, after the relay had taken it.
Phase == {"done", "ready", "granted", "queued", "running", "hung", "answered", "raised", "cancelled"}

Mail == [phase : Phase, left : 0..Addresses, probe : BOOLEAN, stale : BOOLEAN,
         late : BOOLEAN, gone : BOOLEAN, got : Nat, broken : Nat]

NewMail == [phase |-> "done", left |-> 0, probe |-> FALSE, stale |-> FALSE,
            late |-> FALSE, gone |-> FALSE, got |-> 0, broken |-> 0]

Closed == [open |-> FALSE, cooled |-> FALSE, timeouts |-> 0, probe |-> FALSE]

MailInit == /\ mail = [m \in Mails |-> NewMail]
            /\ circuit = Closed
            /\ relay = "up"

InFlight == Phase \ {"done", "ready"}
Active   == {m \in Mails : mail[m].phase # "done"}

\* The workers of the current pool that are taken, by sends or by their rests.
Busy == Cardinality({m \in Mails : ~ mail[m].stale /\ mail[m].phase \in {"running", "hung"}})
        + Cardinality({m \in Mails : mail[m].late /\ ~ mail[m].gone})

-----------------------------------------------------------------------------
(***************************************************************************)
(* _SendCircuit *)
(***************************************************************************)

\* _trip_locked: a fresh cooldown and a fresh pool.
Tripped(c) == [c EXCEPT !.open = TRUE, !.cooled = FALSE, !.timeouts = 0, !.probe = FALSE]

\* Does recording a timeout trip the breaker?  At the threshold, or while open.
Trips(c) == c.open \/ c.timeouts + 1 >= Threshold

\* Mutant: only a trip forgets the probe.
RecordedProbing(c, timedOut, probe) ==
  IF timedOut THEN IF Trips(c) THEN Tripped(c) ELSE [c EXCEPT !.timeouts = @ + 1]
  ELSE [c EXCEPT !.timeouts = 0, !.open = FALSE, !.cooled = FALSE]

\* record: any prompt return closes the breaker.
Recorded(c, timedOut, probe) ==
  LET cleared == [c EXCEPT !.probe = @ /\ ~ probe]
  IN IF timedOut THEN IF Trips(c) THEN Tripped(cleared)
                                  ELSE [cleared EXCEPT !.timeouts = @ + 1]
     ELSE [cleared EXCEPT !.timeouts = 0, !.open = FALSE, !.cooled = FALSE]

\* Mutant: the pool with its stuck workers is kept.
PoolKept(m) == m

\* What a trip does to the others: old.shutdown(cancel_futures) cancels what is
\* queued; running sends drain in the abandoned pool.
Abandoned(m) ==
  [m EXCEPT !.phase = IF @ = "queued" THEN "cancelled" ELSE @,
            !.stale = @ \/ m.phase \in InFlight,
            !.gone  = @ \/ m.late]

\* The mail m goes on as m1, and the outcome of its attempt is recorded.
Report(m, m1, timedOut) ==
  /\ circuit' = Recorded(circuit, timedOut, mail[m].probe)
  /\ mail' = IF timedOut /\ Trips(circuit)
             THEN [n \in Mails |-> Abandoned(IF n = m THEN m1 ELSE mail[n])]
             ELSE [mail EXCEPT ![m] = m1]

-----------------------------------------------------------------------------
(***************************************************************************)
(* The dispatcher's threads *)
(***************************************************************************)

\* dispatch_issue_email: a thread takes up a mail.
TakeUp(m) ==
  /\ mail[m].phase = "done" /\ ~ mail[m].late
  /\ Cardinality(Active) < Threads
  /\ mail' = [mail EXCEPT ![m] = [NewMail EXCEPT !.phase = "ready", !.left = Addresses]]
  /\ UNCHANGED <<circuit, relay>>

\* acquire: refused, granted, or granted as the single half-open probe.  A
\* refusal is a SEND_TIMEOUT: the remaining addresses are not tried.
Acquire(m) ==
  /\ mail[m].phase = "ready"
  /\ LET probes == circuit.open /\ circuit.cooled /\ ~ circuit.probe
     IN IF ~ circuit.open \/ probes
        THEN /\ mail' = [mail EXCEPT ![m].phase = "granted", ![m].left = @ - 1,
                                     ![m].probe = probes, ![m].stale = FALSE]
             /\ circuit' = [circuit EXCEPT !.probe = @ \/ probes]
        ELSE /\ mail' = [mail EXCEPT ![m].phase = "done"]
             /\ UNCHANGED circuit
  /\ UNCHANGED relay

\* executor.submit: a pool that was shut down since the grant raises.
Submit(m) ==
  /\ mail[m].phase = "granted"
  /\ IF mail[m].stale
     THEN Report(m, [mail[m] EXCEPT !.phase = "done"], TRUE)
     ELSE /\ mail' = [mail EXCEPT ![m].phase = "queued"]
          /\ UNCHANGED circuit
  /\ UNCHANGED relay

\* A free worker starts the send; on a relay that hangs it hangs.
Start(m) ==
  /\ mail[m].phase = "queued" /\ Busy < Workers
  /\ mail' = [mail EXCEPT ![m].phase = IF relay = "up" THEN "running" ELSE "hung"]
  /\ UNCHANGED <<circuit, relay>>

\* The relay accepts the mail; or the backend raises: the relay has refused the
\* address, or it has taken the mail and the conversation broke off after that.
Accept(m) ==
  /\ mail[m].phase = "running"
  /\ mail' = [mail EXCEPT ![m].phase = "answered", ![m].got = @ + 1]
  /\ UNCHANGED <<circuit, relay>>

Raise(m) ==
  /\ mail[m].phase = "running"
  /\ \E taken \in {0, 1} :
       mail' = [mail EXCEPT ![m].phase = "raised", ![m].got = @ + taken, ![m].broken = @ + taken]
  /\ UNCHANGED <<circuit, relay>>

\* Mutant: after a timeout the next address is tried.
AfterTimeoutNext(m) ==
  [m EXCEPT !.phase = IF m.left > 0 THEN "ready" ELSE "done", !.probe = FALSE,
            !.late = m.phase = "hung", !.gone = m.stale]

\* The mail after SEND_TIMEOUT: no further address; a hung send keeps its worker.
AfterTimeout(m) ==
  [m EXCEPT !.phase = "done", !.probe = FALSE,
            !.late = m.phase = "hung", !.gone = m.stale]

\* After SEND_OK nothing is left to do; after SEND_REJECTED the next address.
Settled(m, ok) ==
  [m EXCEPT !.phase = IF ok \/ m.left = 0 THEN "done" ELSE "ready", !.probe = FALSE]

\* future.result returns or raises.  Whatever was raised, the cancellation by a
\* trip too, is handled as a rejection.
Return(m) ==
  /\ mail[m].phase \in {"answered", "raised", "cancelled"}
  /\ Report(m, Settled(mail[m], mail[m].phase = "answered"), FALSE)
  /\ UNCHANGED relay

\* future.result times out: the relay hangs, or no worker gets free.
TimeOut(m) ==
  /\ \/ mail[m].phase = "hung"
     \/ mail[m].phase = "queued" /\ Busy >= Workers
  /\ Report(m, AfterTimeout(mail[m]), TRUE)
  /\ UNCHANGED relay

Thread(m) == Acquire(m) \/ Submit(m) \/ Start(m) \/ Accept(m) \/ Raise(m) \/ Return(m) \/ TimeOut(m)

-----------------------------------------------------------------------------
(***************************************************************************)
(* Time and the relay *)
(***************************************************************************)

\* cooldown_seconds have passed since opened_at.  If the cooldown outlasts a
\* send, the attempts made before the trip are over by then.
Cool ==
  /\ circuit.open /\ ~ circuit.cooled
  /\ Outlasts => \A m \in Mails : mail[m].phase \notin InFlight
  /\ circuit' = [circuit EXCEPT !.cooled = TRUE]
  /\ UNCHANGED <<mail, relay>>

\* The relay hangs, with the sends it is serving, or answers again.
RelayChanges ==
  /\ relay' = IF relay = "up" THEN "hangs" ELSE "up"
  /\ mail' = [m \in Mails |->
                IF relay = "up" /\ mail[m].phase = "running"
                THEN [mail[m] EXCEPT !.phase = "hung"] ELSE mail[m]]
  /\ UNCHANGED circuit

\* A worker gets rid of a send that was given up: delivered after all, or not.
Drain(m) ==
  /\ mail[m].late
  /\ \E ok \in BOOLEAN :
       mail' = [mail EXCEPT ![m].late = FALSE, ![m].gone = FALSE,
                            ![m].got = IF ok THEN @ + 1 ELSE @]
  /\ UNCHANGED <<circuit, relay>>

MailNext == \/ \E m \in Mails : TakeUp(m) \/ Thread(m) \/ Drain(m)
            \/ Cool \/ RelayChanges

\* Threads go on, the clock too.  Mails need not come, workers need not drain.
MailSpec == MailInit /\ [][MailNext]_mailVars /\ WF_mailVars(Cool) /\ \A m \in Mails : WF_mailVars(Thread(m))

-----------------------------------------------------------------------------
(***************************************************************************)
(* Properties *)
(***************************************************************************)

Probes == {m \in Mails : mail[m].probe /\ mail[m].phase \in InFlight}

\* The breaker waits for a probe only while one is in flight - if its outcome
\* got lost, no mail would ever be sent again - and there is one at most.
ProbeAccounted == /\ circuit.probe <=> Probes # {}
                  /\ Cardinality(Probes) <= 1

\* Nobody gets a mail again but for a conversation that broke off after the relay
\* had taken it, although an attempt that was given up may still be delivered, and
\* although several addresses of one person are tried.
RepeatsAreBroken == \A m \in Mails : mail[m].got <= 1 + mail[m].broken

\* The dispatcher heals by itself: once the relay stays up, and mails keep
\* coming, some are accepted or refused - whatever the workers that hang do.
SelfHeals ==
  (<>[](relay = "up") /\ []<>(\E m \in Mails : mail[m].phase = "ready")) =>
    []<>(\E m \in Mails : mail[m].phase \in {"answered", "raised"})

\* email_on_duty_about_issue "tries each resolved address in turn ... and stops at
\* the first one the transport accepts": nobody gets a mail twice.
DeliveredOnce == \A m \in Mails : mail[m].got <= 1

\* "OPEN - for ``cooldown_seconds`` every send short-circuits instantly": before
\* the cooldown is over, only an answer of the relay closes the breaker.
OpenUntilAnswer ==
  [][circuit.open /\ ~ circuit.cooled /\ ~ circuit'.open =>
       \E m \in Mails : /\ mail[m].phase \in {"answered", "raised"}
                        /\ mail'[m].phase \notin {"answered", "raised"}]_mailVars
=============================================================================
