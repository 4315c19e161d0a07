-------------------------- MODULE NotificationRetry --------------------------
(***************************************************************************)
(* jobs/retry-notifications.ts as the body of its job: one pass over the   *)
(* e-mail deliveries that failed, run by an invocation that holds the      *)
(* job's claim in JobLedger.  The pass reads the failed rows, closes those *)
(* whose notification is no longer worth a mail, claims each other row by  *)
(* raising its attempts, hands the mail to the provider and writes the     *)
(* outcome.  The closing and the outcome are keyed on the id alone.        *)
(*                                                                         *)
(* The platform may kill the invocation between any two statements; what   *)
(* the provider has accepted by then stays accepted.                       *)
(***************************************************************************)
EXTENDS JobLedger

CONSTANTS
    LastMail,      \* deliveries 1..LastMail, in the order of createdAt
    MAX_ATTEMPTS,  \* MAX_DELIVERY_ATTEMPTS
    BATCH          \* RETRY_BATCH_LIMIT

ASSUME RetryAssumption ==
    /\ LastMail \in Nat \ {0} /\ BATCH \in Nat \ {0} /\ MAX_ATTEMPTS \in Nat \ {0, 1}

Mails == 1..LastMail

VARIABLES
    mail,      \* the NotificationDelivery rows: [status, attempts]
    open,      \* the deliveries whose notification is still worth a mail
    pass,      \* what each invocation's pass holds in memory
    accepted,  \* history: mails the provider accepted, per delivery
    unknown    \* history: those whose acceptance was never written down

mailVars == <<mail, open, pass, accepted, unknown>>
vars == <<ledgerVars, mailVars>>

Outcomes == {"sent", "skipped", "error"}
NoPass == [step |-> "off", todo |-> {}, seen |-> [m \in Mails |-> 0],
           closing |-> {}, at |-> 1, outcome |-> "error"]

MailTypeOK ==
    /\ mail \in [Mails -> [status : Outcomes, attempts : 1..MAX_ATTEMPTS]]
    /\ open \in SUBSET Mails
    /\ pass \in [Workers -> [step : {"off", "loop", "send", "record"},
                             todo : SUBSET Mails, seen : [Mails -> 0..MAX_ATTEMPTS],
                             closing : SUBSET Mails, at : Mails, outcome : Outcomes]]
    /\ accepted \in [Mails -> Nat]
    /\ unknown \in [Mails -> Nat]

TypeOK == LedgerTypeOK /\ MailTypeOK

\* Deliveries whose creation-time attempt failed.
Init ==
    /\ LedgerInit
    /\ mail = [m \in Mails |-> [status |-> "error", attempts |-> 1]]
    /\ open = Mails
    /\ pass = [w \in Workers |-> NoPass]
    /\ accepted = [m \in Mails |-> 0]
    /\ unknown = [m \in Mails |-> 0]

-----------------------------------------------------------------------------
(* The pass *)

\* Mutant: one attempt too many.
RetryableAtCap(m) == mail[m].status = "error" /\ mail[m].attempts <= MAX_ATTEMPTS

\* Mutant: the query forgets the status.
RetryableWhateverItsStatus(m) == mail[m].attempts < MAX_ATTEMPTS

Retryable(m) == mail[m].status = "error" /\ mail[m].attempts < MAX_ATTEMPTS

\* The oldest rows of the retry set, at most BATCH.
Oldest(S) == {m \in S : Cardinality({n \in S : n < m}) < BATCH}

PassAt(w, step) == At(w, "body") /\ pass[w].step = step

ReadErrors(w) ==
    /\ PassAt(w, "off")
    /\ LET batch == Oldest({m \in Mails : Retryable(m)})
       IN  pass' = [pass EXCEPT
             ![w] = [NoPass EXCEPT !.step = "loop", !.todo = batch,
                        !.seen = [m \in Mails |-> IF m \in batch THEN mail[m].attempts ELSE 0],
                        !.closing = batch \ open]]
    /\ UNCHANGED <<ledgerVars, mail, open, accepted, unknown>>

\* The next row of the loop.
Current(w, m) == m \in pass[w].todo /\ \A n \in pass[w].todo : m <= n

NextRow(w, m) == [pass[w] EXCEPT !.step = "loop", !.todo = @ \ {m}, !.seen[m] = 0,
                                 !.closing = @ \ {m}, !.outcome = "error"]

CloseObsolete(w, m) ==
    /\ PassAt(w, "loop") /\ Current(w, m)
    /\ m \in pass[w].closing
    /\ mail' = [mail EXCEPT ![m].status = "skipped"]
    /\ pass' = [pass EXCEPT ![w] = NextRow(w, m)]
    /\ UNCHANGED <<ledgerVars, open, accepted, unknown>>

\* updateMany where the row is still failed and nobody has claimed it since
\* it was read.
ClaimMatches(w, m) == mail[m].status = "error" /\ mail[m].attempts = pass[w].seen[m]

\* Mutant: the claim leaves the attempts to the outcome write.
ClaimMailUncounted(w, m) ==
    /\ PassAt(w, "loop") /\ Current(w, m)
    /\ m \notin pass[w].closing
    /\ ClaimMatches(w, m)
    /\ pass' = [pass EXCEPT ![w].step = "send", ![w].at = m, ![w].seen[m] = 0]
    /\ UNCHANGED <<ledgerVars, mail, open, accepted, unknown>>

\* The row is claimed, or passed over because somebody else was first.
ClaimMail(w, m) ==
    /\ PassAt(w, "loop") /\ Current(w, m)
    /\ m \notin pass[w].closing
    /\ IF ClaimMatches(w, m)
       THEN /\ mail' = [mail EXCEPT ![m].attempts = @ + 1]
            /\ pass' = [pass EXCEPT ![w].step = "send", ![w].at = m, ![w].seen[m] = 0]
       ELSE /\ pass' = [pass EXCEPT ![w] = NextRow(w, m)]
            /\ UNCHANGED mail
    /\ UNCHANGED <<ledgerVars, open, accepted, unknown>>

\* The adapter never throws: it answers sent, skipped (captured, withheld) or
\* error; an error may hide a mail that was accepted all the same.
Deliver(w) ==
    /\ PassAt(w, "send")
    /\ \E outcome \in Outcomes :
        /\ pass' = [pass EXCEPT ![w].step = "record", ![w].outcome = outcome]
        /\ \/ /\ accepted' = [accepted EXCEPT ![pass[w].at] =
                                 IF outcome = "sent" THEN @ + 1 ELSE @]
              /\ UNCHANGED <<ledgerVars, unknown>>
           \/ /\ outcome = "error"
              /\ BodyErrs(w)
              /\ accepted' = [accepted EXCEPT ![pass[w].at] = @ + 1]
              /\ unknown' = [unknown EXCEPT ![pass[w].at] = @ + 1]
    /\ UNCHANGED <<mail, open>>

\* The outcome write.
Outcome(w) == [mail EXCEPT ![pass[w].at].status = pass[w].outcome]

RecordOutcome(w) ==
    /\ PassAt(w, "record")
    /\ mail' = Outcome(w)
    /\ pass' = [pass EXCEPT ![w] = NextRow(w, pass[w].at)]
    /\ UNCHANGED <<ledgerVars, open, accepted, unknown>>

\* What the provider accepted from w and w has not written down.
Forget(w) ==
    IF pass[w].step = "record" /\ pass[w].outcome = "sent"
    THEN [unknown EXCEPT ![pass[w].at] = @ + 1] ELSE unknown

\* The pass is through.
PassEnds(w) ==
    /\ PassAt(w, "loop") /\ pass[w].todo = {}
    /\ BodyEnds(w)
    /\ pass' = [pass EXCEPT ![w] = NoPass]
    /\ UNCHANGED <<mail, open, accepted, unknown>>

\* A statement of the pass throws, the rendering of a row already claimed
\* included, and the exception ends the body.
PassThrows(w) ==
    /\ BodyThrows(w)
    /\ unknown' = Forget(w)
    /\ pass' = [pass EXCEPT ![w] = NoPass]
    /\ UNCHANGED <<mail, open, accepted>>

InvocationKilled(w) ==
    /\ Kill(w)
    /\ unknown' = Forget(w)
    /\ pass' = [pass EXCEPT ![w] = NoPass]
    /\ UNCHANGED <<mail, open, accepted>>

\* The user reads or archives the notification, or it expires.
Obsolete(m) ==
    /\ m \in open
    /\ open' = open \ {m}
    /\ UNCHANGED <<ledgerVars, mail, pass, accepted, unknown>>

PassStep(w) ==
    \/ ReadErrors(w) \/ Deliver(w) \/ RecordOutcome(w) \/ PassEnds(w)
    \/ \E m \in Mails : CloseObsolete(w, m) \/ ClaimMail(w, m)

LedgerOnly(A) == A /\ UNCHANGED mailVars

Next ==
    \/ LedgerOnly(Tick)
    \/ \E w \in Workers : \/ LedgerOnly(LedgerStep(w))
                          \/ PassStep(w) \/ PassThrows(w) \/ InvocationKilled(w)
    \/ \E m \in Mails : Obsolete(m)

Spec == Init /\ [][Next]_vars

\* The cron keeps waking the dispatcher, an invocation under way goes on, and
\* time passes.  Kills and failures are bounded.
Fairness ==
    /\ WF_vars(LedgerOnly(Tick))
    /\ \A w \in Workers : /\ WF_vars(LedgerOnly(Wake(w)))
                          /\ WF_vars(LedgerOnly(Proceeds(w)))
                          /\ WF_vars(PassStep(w))

FairSpec == Spec /\ Fairness

-----------------------------------------------------------------------------
(* Properties *)

\* A mail is handed over again only if an earlier acceptance was never
\* written down (the pass was cut short between the two, or the provider's
\* answer was lost): overlapping wakes, stale snapshots and retried passes
\* never mail anyone twice (retry-notifications.ts:30-43).
MailedOnce == \A m \in Mails : accepted[m] <= unknown[m] + 1

\* A delivery that is sent or closed stays so, although both writes are keyed
\* on the id alone and decided from rows read earlier.
SettledStands ==
    [][\A m \in Mails : mail[m].status # "error" => mail'[m].status = mail[m].status]_mail

\* Every failed delivery is sent, closed or given up at the cap, whatever is
\* killed on the way: no row is left in the retry set for good.
MailSettles == \A m \in Mails : []<>~Retryable(m)

=============================================================================
