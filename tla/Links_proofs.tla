---------------------------- MODULE Links_proofs -----------------------------
(***************************************************************************)
(* Both ends of the websockets, for any number of items, sockets, browsers *)
(* and faults: the connector processes, which take items in and send texts *)
(* out (Connectors), and what the panel tells its browsers of its own link *)
(* (PanelLink).                                                            *)
(***************************************************************************)
EXTENDS Connectors, PanelLink, FiniteSetTheorems, SequenceTheorems, TLAPS

-----------------------------------------------------------------------------
(* The panel.  A browser that is told of changes was subscribed before it  *)
(* was told the status, and a broadcast says what the flag says.           *)
Told ==
    /\ \A b \in Browser : page[b] \in {"subscribed", "open"} => b \in subscribed
    /\ panel = "tell_up" => connected
    /\ panel = "tell_down" => ~connected

PanelInv == PanelTypeOK /\ Told /\ BrowserKnows

LEMMA PanelInvInit == PanelInit => PanelInv
BY DEF PanelInit, PanelInv, PanelTypeOK, Told, BrowserKnows

LEMMA PanelInvStep == PanelInv /\ [PanelNext]_webVars => PanelInv'
<1> SUFFICES ASSUME PanelInv, [PanelNext]_webVars PROVE PanelInv'
  OBVIOUS
<1> USE DEF PanelInv, PanelTypeOK, Told, BrowserKnows
<1>1. CASE HubMoves \/ UNCHANGED webVars
  BY <1>1 DEF HubMoves, webVars, panelVars
<1>2. ASSUME NEW s \in Socket, PanelOpens(s) PROVE PanelInv'
  BY <1>2 DEF PanelOpens
<1>3. CASE Ready \/ ConnectionLost
  BY <1>3 DEF Ready, ConnectionLost
<1>4. CASE Forgets
  BY <1>4 DEF Forgets, AfterLoss
<1>5. CASE Broadcasts
  BY <1>5 DEF Broadcasts
<1>6. ASSUME NEW b \in Browser, PageOpens(b) \/ PageStep(b) \/ PageGoes(b)
      PROVE  PanelInv'
  <2>1. CASE PageOpens(b) \/ PageGoes(b)
    BY <2>1 DEF PageOpens, PageGoes
  <2>2. CASE Subscribes(b)
    BY <2>2 DEF Subscribes
  <2>3. CASE SendsStatus(b)
    BY <2>3 DEF SendsStatus
  <2>4. CASE Unsubscribes(b)
    BY <2>4 DEF Unsubscribes
  <2> QED  BY <1>6, <2>1, <2>2, <2>3, <2>4 DEF PageStep
<1> QED  BY <1>1, <1>2, <1>3, <1>4, <1>5, <1>6 DEF PanelNext, PanelStep

(* What a browser was told of the gateway is so, or is being corrected,    *)
(* whenever it opened and however the link came and went.                  *)
THEOREM BrowsersKnow == PanelSpec => []BrowserKnows
<1>1. PanelInv => BrowserKnows
  BY DEF PanelInv
<1> QED  BY PanelInvInit, PanelInvStep, <1>1, PTL DEF PanelSpec

-----------------------------------------------------------------------------
(* The sender.  Each attempt of a chunk costs so many calls; what is made  *)
(* while the breaker is open and what may still be made add up to what the *)
(* chunks after the one that opened it come to.                            *)
PerAttempt == IF connector = "bot" THEN 1 ELSE 2

JobOK ==
    IF job = NoJob THEN TRUE
    ELSE /\ job.what # "none" /\ job.chunks \in 1..MaxChunks
         /\ job.what # "text" => job.attempt = 0
Remaining == Retries * job.chunks - job.attempt
Quiet ==
    breaker = "open" =>
        calls + PerAttempt * Remaining <= PerAttempt * (Retries * (MaxChunks - 1))

SendInv == SendTypeOK /\ JobOK /\ Quiet

LEMMA SendNumbers ==
    /\ Threshold \in Nat \ {0} /\ Cooldown \in Nat \ {0} /\ MaxChunks \in Nat /\ Retries = 3
    /\ PerAttempt \in {1, 2}
BY SendAssumption DEF Retries, PerAttempt

LEMMA NoJobType == NoJob \in [what : {"none", "text", "attachment", "confirm"},
                              chunks : 0..(MaxChunks + 1), attempt : 0..(Retries - 1)]
BY SendNumbers DEF NoJob

LEMMA SendInvInit == SendInit => SendInv
<1> SUFFICES ASSUME SendInit PROVE SendInv
  OBVIOUS
<1>1. job = NoJob /\ breaker = "closed"
  BY DEF SendInit
<1>2. SendTypeOK
  <2>1. 0 \in 0..Cooldown /\ 0 \in Nat
    BY SendNumbers
  <2> QED  BY <1>1, <2>1, NoJobType DEF SendInit, SendTypeOK
<1> QED  BY <1>1, <1>2 DEF SendInv, JobOK, Quiet

(* What is left after a chunk is done with.                                *)
LEMMA NextChunkFacts ==
    ASSUME SendTypeOK, JobOK, job # NoJob
    PROVE  /\ NextChunk \in [what : {"none", "text", "attachment", "confirm"},
                             chunks : 0..(MaxChunks + 1), attempt : 0..(Retries - 1)]
           /\ NextChunk = NoJob \/
                  /\ NextChunk.what = job.what /\ NextChunk.attempt = 0
                  /\ NextChunk.chunks \in 1..MaxChunks
           /\ Retries * NextChunk.chunks - NextChunk.attempt = Retries * (job.chunks - 1)
<1> DEFINE J == [what : {"none", "text", "attachment", "confirm"},
                 chunks : 0..(MaxChunks + 1), attempt : 0..(Retries - 1)]
<1>1. job \in J /\ job.chunks \in 1..MaxChunks
  BY DEF SendTypeOK, JobOK
<1>2. CASE job.chunks > 1
  <2> DEFINE n == [job EXCEPT !.chunks = @ - 1, !.attempt = 0]
  <2>1. job.chunks - 1 \in 0..(MaxChunks + 1) /\ 0 \in 0..(Retries - 1)
    BY <1>1, <1>2, SendNumbers
  <2>4. n \in J
    BY <1>1, <2>1
  <2>5. n.what = job.what /\ n.attempt = 0 /\ n.chunks = job.chunks - 1
    BY <1>1
  <2>2. NextChunk = n
    BY <1>2 DEF NextChunk
  <2> QED  BY <1>1, <1>2, <2>4, <2>5, <2>2, SendNumbers
<1>3. CASE job.chunks = 1
  <2>1. NextChunk = NoJob
    BY <1>3 DEF NextChunk
  <2> QED  BY <1>3, <2>1, NoJobType, SendNumbers DEF NoJob
<1> QED  BY <1>1, <1>2, <1>3, SendNumbers

(* A call that costs no more than the attempt it is made for.              *)
LEMMA FailureKeeps ==
    ASSUME SendInv, job # NoJob, NEW made \in 1..2, Failure(made), job' = NextChunk,
           UNCHANGED <<connector, outage>>,
           made = 2 => connector = "user" \/ job.attempt = 0
    PROVE  SendInv'
<1> USE DEF SendInv
<1>1. JobOK' /\ SendTypeOK'
  <2>1. JobOK'
    BY NextChunkFacts DEF JobOK
  <2>2. job' \in [what : {"none", "text", "attachment", "confirm"},
                  chunks : 0..(MaxChunks + 1), attempt : 0..(Retries - 1)]
    BY NextChunkFacts
  <2>3. /\ failures' \in Nat /\ age' \in 0..Cooldown /\ calls' \in Nat
        /\ breaker' \in {"closed", "open", "half_open"}
    BY SendNumbers DEF SendTypeOK, Failure
  <2> QED  BY <2>1, <2>2, <2>3 DEF SendTypeOK
<1>2. ASSUME breaker' = "open" PROVE Quiet'
  <2>1. Remaining' = Retries * (job.chunks - 1) /\ PerAttempt' = PerAttempt
    BY NextChunkFacts DEF Remaining, PerAttempt
  <2>2. job.chunks \in 1..MaxChunks /\ job.attempt \in 0..2
    BY SendNumbers DEF SendTypeOK, JobOK
  <2>3. CASE breaker = "open"
    <3>1. calls' = calls + made /\ calls \in Nat
      BY <2>3 DEF Failure, SendTypeOK
    <3>2. calls + PerAttempt * Remaining <= PerAttempt * (Retries * (MaxChunks - 1))
      BY <2>3 DEF Quiet
    <3>3. CASE PerAttempt = 1
      <4>1. connector = "bot"
        BY <3>3 DEF PerAttempt
      <4>2. made <= 3 - job.attempt
        BY <4>1, <2>2
      <4> QED  BY <3>1, <3>2, <3>3, <4>2, <2>1, <2>2, SendNumbers DEF Quiet, Remaining
    <3>4. CASE PerAttempt = 2
      BY <3>1, <3>2, <3>4, <2>1, <2>2, SendNumbers DEF Quiet, Remaining
    <3> QED  BY <3>3, <3>4, SendNumbers
  <2>4. CASE breaker # "open"
    <3>1. calls' = 0
      BY <2>4 DEF Failure
    <3>2. CASE PerAttempt = 1
      BY <3>1, <3>2, <2>1, <2>2, SendNumbers DEF Quiet
    <3>3. CASE PerAttempt = 2
      BY <3>1, <3>3, <2>1, <2>2, SendNumbers DEF Quiet
    <3> QED  BY <3>2, <3>3, SendNumbers
  <2> QED  BY <2>3, <2>4
<1> QED  BY <1>1, <1>2 DEF Quiet

LEMMA UnreportedKeeps ==
    ASSUME SendInv, job # NoJob, NEW made \in 1..2, Unreported(made),
           UNCHANGED <<connector, outage>>,
           made = 2 => connector = "user",
           \/ job' = NextChunk
           \/ /\ job.what = "text" /\ job.attempt + 1 < Retries
              /\ job' = [job EXCEPT !.attempt = @ + 1]
    PROVE  SendInv'
<1> USE DEF SendInv
<1>1. SendTypeOK' /\ JobOK'
  <2> DEFINE J == [what : {"none", "text", "attachment", "confirm"},
                   chunks : 0..(MaxChunks + 1), attempt : 0..(Retries - 1)]
  <2>1. job' \in J /\ JobOK'
    <3>1. CASE job' = NextChunk
      BY <3>1, NextChunkFacts DEF JobOK
    <3>2. CASE job.what = "text" /\ job' = [job EXCEPT !.attempt = @ + 1]
                    /\ job.attempt + 1 < Retries
      <4>1. job \in J /\ job.attempt + 1 \in 0..(Retries - 1)
        BY <3>2, SendNumbers DEF SendTypeOK
      <4>2. job' \in J /\ job'.what = job.what /\ job'.chunks = job.chunks
        BY <3>2, <4>1
      <4> QED  BY <3>2, <4>2 DEF JobOK
    <3> QED  BY <3>1, <3>2
  <2>2. /\ failures' \in Nat /\ age' \in 0..Cooldown /\ calls' \in Nat
        /\ breaker' \in {"closed", "open", "half_open"}
    BY DEF SendTypeOK, Unreported
  <2> QED  BY <2>1, <2>2 DEF SendTypeOK
<1>2. ASSUME breaker' = "open" PROVE Quiet'
  <2>1. Remaining' <= Remaining - 1 /\ Remaining' \in Int /\ Remaining \in Int
        /\ PerAttempt' = PerAttempt
    <3>1. CASE job' = NextChunk
      BY <3>1, NextChunkFacts, SendNumbers DEF Remaining, PerAttempt, SendTypeOK, JobOK
    <3>2. CASE job.what = "text" /\ job' = [job EXCEPT !.attempt = @ + 1]
      BY <3>2, SendNumbers DEF Remaining, PerAttempt, SendTypeOK, JobOK
    <3> QED  BY <3>1, <3>2
  <2>2. breaker = "open" /\ calls' = calls + made /\ calls \in Nat
    BY <1>2 DEF Unreported, SendTypeOK
  <2>3. calls + PerAttempt * Remaining <= PerAttempt * (Retries * (MaxChunks - 1))
    BY <2>2 DEF Quiet
  <2>4. made <= PerAttempt
    BY DEF PerAttempt
  <2>5. CASE PerAttempt = 1
    BY <2>5, <2>1, <2>2, <2>3, <2>4, SendNumbers DEF Quiet
  <2>6. CASE PerAttempt = 2
    BY <2>6, <2>1, <2>2, <2>3, <2>4, SendNumbers DEF Quiet
  <2> QED  BY <2>5, <2>6, SendNumbers
<1> QED  BY <1>1, <1>2 DEF Quiet

LEMMA SendInvStep == SendInv /\ [SendStep]_sendVars => SendInv'
<1> SUFFICES ASSUME SendInv, [SendStep]_sendVars PROVE SendInv'
  OBVIOUS
<1> USE DEF SendInv
<1>1. CASE Tick \/ OutageTurns \/ UNCHANGED sendVars
  <2>1. /\ UNCHANGED <<connector, breaker, failures, job, calls>>
        /\ outage' \in BOOLEAN /\ age' \in 0..Cooldown
    <3>1. outage \in BOOLEAN /\ age \in 0..Cooldown /\ Cooldown \in Nat
      BY SendNumbers DEF SendTypeOK
    <3>2. CASE Tick
      BY <3>1, <3>2 DEF Tick
    <3>3. CASE OutageTurns
      BY <3>1, <3>3 DEF OutageTurns
    <3>4. CASE UNCHANGED sendVars
      BY <3>1, <3>4 DEF sendVars
    <3> QED  BY <1>1, <3>2, <3>3, <3>4
  <2>2. SendTypeOK'
    BY <2>1 DEF SendTypeOK
  <2>3. JobOK' /\ Quiet'
    BY <2>1 DEF JobOK, Quiet, Remaining, PerAttempt
  <2> QED  BY <2>2, <2>3
<1>2. CASE CallSucceeds
  <2>1. job # NoJob /\ job' = NextChunk /\ breaker' = "closed" /\ failures' = 0
        /\ calls' = 0 /\ UNCHANGED <<connector, age, outage>>
    BY <1>2 DEF CallSucceeds, Success
  <2>2. SendTypeOK'
    BY <2>1, NextChunkFacts DEF SendTypeOK
  <2>3. JobOK' /\ Quiet'
    BY <2>1, NextChunkFacts DEF JobOK, Quiet
  <2> QED  BY <2>2, <2>3
<1>3. ASSUME NEW made \in 1..2, ToldToWait(made) PROVE SendInv'
  BY <1>3, FailureKeeps, UnreportedKeeps DEF ToldToWait
<1>4. ASSUME NEW made \in 1..2, CallFails(made) PROVE SendInv'
  BY <1>4, FailureKeeps DEF CallFails, SendTypeOK
<1>5. CASE RequestFails
  <2>1. job # NoJob /\ job.attempt = 0 /\ job.what = "confirm"
    BY <1>5 DEF RequestFails, NoJob, JobOK
  <2>2. job.chunks \in 1..MaxChunks
    BY <2>1 DEF JobOK
  <2>3. CASE breaker' = "open"
    <3>1. job' = NoJob /\ Failure(1) /\ UNCHANGED <<connector, outage>>
      BY <1>5, <2>3 DEF RequestFails
    <3>2. SendTypeOK' /\ JobOK'
      BY <3>1, NoJobType, SendNumbers DEF Failure, Opens, SendTypeOK, JobOK
    <3>3. Remaining' = 0 /\ PerAttempt' = PerAttempt
      BY <3>1, SendNumbers DEF Remaining, NoJob, PerAttempt
    <3>4. CASE breaker = "open"
      <4>1. calls' = calls + 1 /\ calls \in Nat
        BY <3>1, <3>4 DEF Failure, SendTypeOK
      <4>2. calls + PerAttempt * Remaining <= PerAttempt * (Retries * (MaxChunks - 1))
        BY <3>4 DEF Quiet
      <4>3. Remaining >= 3 /\ Remaining \in Int
        BY <2>1, <2>2, SendNumbers DEF Remaining
      <4> QED  BY <3>2, <3>3, <4>1, <4>2, <4>3, <2>3, SendNumbers DEF Quiet
    <3>5. CASE breaker # "open"
      BY <3>1, <3>2, <3>3, <3>5, <2>2, SendNumbers DEF Quiet, Failure
    <3> QED  BY <3>4, <3>5
  <2>4. CASE breaker' # "open"
    <3>1. job' = [job EXCEPT !.what = "text"] /\ Failure(1) /\ UNCHANGED <<connector, outage>>
      BY <1>5, <2>4 DEF RequestFails
    <3> QED  BY <3>1, <2>1, <2>2, <2>4, SendNumbers
         DEF Failure, Opens, SendTypeOK, JobOK, Quiet, NoJob
  <2> QED  BY <2>3, <2>4
<1>6. ASSUME NEW what \in {"text", "attachment", "confirm"}, NEW n \in 0..MaxChunks,
             Begin(what, n)
      PROVE  SendInv'
  <2>1. CASE Admits /\ n # 0
    <3> DEFINE j == [what |-> what, chunks |-> n, attempt |-> 0]
    <3>1. job' = j /\ breaker' = Probing /\ UNCHANGED <<connector, failures, age, outage, calls>>
      BY <1>6, <2>1 DEF Begin
    <3>2. breaker' # "open" /\ breaker' \in {"closed", "open", "half_open"}
      BY <2>1, <3>1 DEF Admits, Probing, SendTypeOK
    <3>3. j \in [what : {"none", "text", "attachment", "confirm"},
                 chunks : 0..(MaxChunks + 1), attempt : 0..(Retries - 1)]
      BY SendNumbers
    <3>4. SendTypeOK'
      BY <3>1, <3>2, <3>3 DEF SendTypeOK
    <3>5. JobOK'
      BY <3>1, <2>1, SendNumbers DEF JobOK, NoJob
    <3> QED  BY <3>2, <3>4, <3>5 DEF Quiet
  <2>2. CASE Admits /\ n = 0
    BY <1>6, <2>2, NoJobType DEF Begin, Admits, Probing, SendTypeOK, JobOK, Quiet
  <2>3. CASE ~Admits
    BY <1>6, <2>3 DEF Begin, SendTypeOK, JobOK, Quiet, Remaining, PerAttempt
  <2> QED  BY <2>1, <2>2, <2>3, SendNumbers
<1> QED  BY <1>1, <1>2, <1>3, <1>4, <1>5, <1>6 DEF SendStep, Works

(* While the breaker is open the chat gets no more calls than the chunks   *)
(* after the one that opened it account for, whatever fails.               *)
THEOREM OpenBreakerIsQuiet == Spec => []OpenIsQuiet
<1>1. Init => SendInv
  BY SendInvInit DEF Init
<1>2. SendInv /\ [Next]_vars => SendInv'
  <2>1. [Next]_vars => [SendStep]_sendVars
    BY DEF Next, vars, sendVars, ItemComes, LinkMoves, Bot, Gmail, User, Sender
  <2> QED  BY <2>1, SendInvStep
<1>3. SendInv => OpenIsQuiet
  <2> SUFFICES ASSUME SendInv, breaker = "open"
               PROVE  calls <= (MaxChunks - 1) * (IF connector = "bot" THEN 1 ELSE 2) * Retries
    BY DEF OpenIsQuiet
  <2>1. calls \in Nat /\ Remaining \in Nat
        /\ calls + PerAttempt * Remaining <= PerAttempt * (Retries * (MaxChunks - 1))
    <3>1. job = NoJob => Remaining = 0
      BY SendNumbers DEF Remaining, NoJob
    <3>2. job # NoJob => Remaining \in Nat
      BY SendNumbers DEF Remaining, JobOK, SendInv, SendTypeOK
    <3> QED  BY <3>1, <3>2 DEF SendInv, Quiet, SendTypeOK
  <2>2. CASE connector = "bot"
    BY <2>1, <2>2, SendNumbers DEF PerAttempt
  <2>3. CASE connector # "bot"
    BY <2>1, <2>3, SendNumbers DEF PerAttempt
  <2> QED  BY <2>2, <2>3
<1> QED  BY <1>1, <1>2, <1>3, PTL DEF Spec

-----------------------------------------------------------------------------
(* The intakes.  Each connector's cursor says what it will not bring again. *)
(* Two facts go together: what is behind it is accounted for, and how often *)
(* an item was read, or will be, is paid for by the cursor having passed it *)
(* and by the faults that took the cursor back.                             *)

(* How often an item has been read or will be, if nothing breaks.          *)
Places(s, i) == {k \in DOMAIN s : s[k] = i}
Occurs(s, i) == Cardinality(Places(s, i))
Held(i) == got[i] + Occurs(wire, i)
One(holds) == IF holds THEN 1 ELSE 0

(* The bot.  The cursor is the last update that no later poll will bring;  *)
(* what is left of an answer lies right behind it.                         *)
Cursor == IF offset > acked THEN offset - 1 ELSE acked

BotShape ==
    /\ \A k \in DOMAIN batch : batch[k] = Cursor + k
    /\ hand # 0 <=> poll \in {"button", "send"}
BotBudget ==
    \A i \in Item : Held(i) + One(hand = i) <= restarts + One(i <= Cursor)

BotInv == BotTypeOK /\ BotShape /\ BotAccounts /\ BotBudget

(* Gmail.  Its cursor is what the batch at hand will store.                *)
Reached == IF imap = "each" THEN high ELSE stored

GmailShape ==
    /\ stored <= posted /\ stored <= Reached /\ high <= posted
    /\ imap # "each" => todo = <<>>
    /\ \A k \in DOMAIN todo : todo[k] = high - Len(todo) + k
(* A second snapshot is only taken after a fault, and if the first found   *)
(* nothing.                                                                *)
SnapshotShape ==
    /\ looked /\ stored = 0 => skipped = {}
    /\ looked /\ imap \in {"off", "login"} => breaks > 0
    /\ late # {} => looked /\ skipped = {} /\ breaks > 0
MailAccounted ==
    \A i \in Upto(Reached) :
        \/ got[i] > 0 \/ i \in ToSet(wire) \cup lost \cup skipped \cup late
        \/ i > stored /\ i \in ToSet(todo)
GmailBudget ==
    \A i \in Item : Held(i) + One(i \in ToSet(todo)) <= breaks + One(i <= Reached)

GmailInv == GmailTypeOK /\ GmailShape /\ SnapshotShape /\ MailAccounted /\ GmailBudget

(* The user.  No event is raised before its message came, nor twice.       *)
UserBudget ==
    \A i \in Item : Held(i) + One(i \in handlers) <= One(i <= posted)

UserInv == UserTypeOK /\ UserAccounts /\ UserBudget

IntakeInv ==
    /\ LinkTypeOK
    /\ which = "bot" => BotInv
    /\ which = "gmail" => GmailInv
    /\ which \notin {"bot", "gmail"} => UserInv

-----------------------------------------------------------------------------
(* Lemmas on sequences, and on what the gateway, a fault and a connector    *)
(* do to the wire.                                                          *)

LEMMA OccursType ==
  ASSUME NEW s \in Seq(Item), NEW i
  PROVE  Occurs(s, i) \in Nat /\ IsFiniteSet(Places(s, i))
<1>1. DOMAIN s = 1..Len(s) /\ Len(s) \in Nat
  OBVIOUS
<1>2. IsFiniteSet(1..Len(s))
  BY <1>1, FS_Interval
<1>3. IsFiniteSet(Places(s, i))
  BY <1>1, <1>2, FS_Subset DEF Places
<1> QED  BY <1>3, FS_CardinalityType DEF Occurs

LEMMA OccursEmpty == \A i : Occurs(<<>>, i) = 0 /\ ToSet(<<>>) = {}
<1>1. \A i : Places(<<>>, i) = {} /\ ToSet(<<>>) = {}
  BY DEF Places, ToSet
<1> QED  BY <1>1, FS_EmptySet DEF Occurs

(* Appending an element adds one place, for it alone.                      *)
LEMMA OccursAppend ==
    ASSUME NEW s \in Seq(Item), NEW x \in Item, NEW i \in Item
    PROVE  /\ Occurs(Append(s, x), i) = Occurs(s, i) + One(i = x)
           /\ ToSet(Append(s, x)) = ToSet(s) \cup {x}
<1> DEFINE t == Append(s, x)
           n == Len(s) + 1
<1>1. /\ Len(s) \in Nat /\ DOMAIN s = 1..Len(s) /\ DOMAIN t = 1..n
      /\ \A k \in 1..Len(s) : t[k] = s[k]
      /\ t[n] = x
  OBVIOUS
<1>2. Places(t, i) = IF i = x THEN Places(s, i) \cup {n} ELSE Places(s, i)
  BY <1>1 DEF Places
<1>3. n \notin Places(s, i)
  BY <1>1 DEF Places
<1>4. Occurs(t, i) = Occurs(s, i) + One(i = x)
  <2>1. IsFiniteSet(Places(s, i)) /\ Occurs(s, i) \in Nat
    BY OccursType
  <2>2. CASE i = x
    <3>1. Cardinality(Places(s, i) \cup {n}) = Cardinality(Places(s, i)) + 1
      BY <1>3, <2>1, FS_AddElement
    <3> QED  BY <1>2, <2>2, <3>1 DEF Occurs, One
  <2>3. CASE i # x
    <3>1. Occurs(t, i) = Occurs(s, i)
      BY <1>2, <2>3 DEF Occurs
    <3> QED  BY <2>1, <2>3, <3>1 DEF One
  <2> QED  BY <2>2, <2>3
<1>5. ToSet(t) = ToSet(s) \cup {x}
  BY <1>1 DEF ToSet
<1> QED  BY <1>4, <1>5

(* Taking the head off removes one place, of the head alone.               *)
LEMMA OccursTail ==
    ASSUME NEW s \in Seq(Item), s # <<>>, NEW i \in Item
    PROVE  /\ Head(s) \in Item /\ Tail(s) \in Seq(Item)
           /\ Occurs(s, i) = Occurs(Tail(s), i) + One(i = Head(s))
           /\ ToSet(s) = ToSet(Tail(s)) \cup {Head(s)}
<1> DEFINE t == Tail(s)
           S == Places(s, i) \ {1}
           f == [k \in Places(t, i) |-> k + 1]
<1>1. /\ Len(s) \in Nat \ {0} /\ DOMAIN s = 1..Len(s) /\ DOMAIN t = 1..(Len(s) - 1)
      /\ \A k \in 1..(Len(s) - 1) : t[k] = s[k + 1]
      /\ Head(s) = s[1] /\ s[1] \in Item /\ t \in Seq(Item)
  OBVIOUS
<1>2. f \in Bijection(Places(t, i), S)
  <2>1. \A k \in Places(t, i) : k \in 1..(Len(s) - 1) /\ k + 1 \in S
    BY <1>1 DEF Places
  <2>2. f \in [Places(t, i) -> S]
    BY <2>1
  <2>3. ASSUME NEW a \in Places(t, i), NEW b \in Places(t, i), f[a] = f[b] PROVE a = b
    BY <2>1, <2>3
  <2>4. ASSUME NEW b \in S PROVE \E a \in Places(t, i) : f[a] = b
    <3>1. b \in 2..Len(s) /\ s[b] = i
      BY <1>1 DEF Places
    <3>2. b - 1 \in Places(t, i) /\ (b - 1) + 1 = b
      BY <1>1, <3>1 DEF Places
    <3> QED  BY <3>2
  <2> QED  BY <2>2, <2>3, <2>4 DEF Bijection, Injection, Surjection, IsInjective
<1>3. Occurs(t, i) = Cardinality(S)
  <2>1. IsFiniteSet(Places(t, i))
    BY <1>1, OccursType
  <2>2. ExistsBijection(Places(t, i), S)
    BY <1>2 DEF ExistsBijection
  <2>3. Cardinality(S) = Cardinality(Places(t, i))
    BY <2>1, <2>2, FS_Bijection
  <2> QED  BY <2>3 DEF Occurs
<1>4. Occurs(s, i) = Cardinality(S) + One(i = Head(s))
  <2>1. 1 \in Places(s, i) <=> i = Head(s)
    BY <1>1 DEF Places
  <2>2. IsFiniteSet(Places(s, i)) /\ Cardinality(Places(s, i)) \in Nat
    BY OccursType DEF Occurs
  <2>3. CASE i = Head(s)
    <3>1. Cardinality(S) = Cardinality(Places(s, i)) - 1
      BY <2>1, <2>2, <2>3, FS_RemoveElement
    <3>2. Occurs(s, i) = Cardinality(S) + 1
      BY <2>2, <3>1 DEF Occurs
    <3> QED  BY <2>3, <3>2 DEF One
  <2>4. CASE i # Head(s)
    <3>1. S = Places(s, i)
      BY <2>1, <2>4
    <3>2. Occurs(s, i) = Cardinality(S) /\ Occurs(s, i) \in Nat
      BY <2>2, <3>1 DEF Occurs
    <3> QED  BY <2>4, <3>2 DEF One
  <2> QED  BY <2>3, <2>4
<1>5. ToSet(s) = ToSet(t) \cup {Head(s)}
  <2>1. ASSUME NEW x \in ToSet(s) PROVE x \in ToSet(t) \cup {Head(s)}
    <3>1. PICK k \in 1..Len(s) : x = s[k]
      BY <1>1 DEF ToSet
    <3>2. CASE k # 1
      <4>1. k - 1 \in 1..(Len(s) - 1) /\ t[k - 1] = x
        BY <1>1, <3>1, <3>2
      <4> QED  BY <1>1, <4>1 DEF ToSet
    <3> QED  BY <1>1, <3>1, <3>2
  <2>2. ToSet(t) \subseteq ToSet(s) /\ Head(s) \in ToSet(s)
    BY <1>1 DEF ToSet
  <2> QED  BY <2>1, <2>2
<1> QED  BY <1>1, <1>3, <1>4, <1>5

LEMMA HeldType == ASSUME LinkTypeOK, NEW i \in Item PROVE Held(i) \in Nat /\ got[i] <= Held(i)
<1>1. got[i] \in Nat /\ Occurs(wire, i) \in Nat
  BY OccursType DEF LinkTypeOK
<1> QED  BY <1>1 DEF Held

LEMMA HeldSame == ASSUME wire' = wire, got' = got, NEW i \in Item PROVE Held(i)' = Held(i)
BY DEF Held

(* What the gateway does to the wire, and a fault, and the connector.      *)
LEMMA ReadingKeeps ==
    ASSUME LinkTypeOK, GatewayReads
    PROVE  /\ LinkTypeOK'
           /\ \A i \in Item : Held(i)' = Held(i)
           /\ \A i \in Item : got[i] > 0 \/ i \in ToSet(wire) =>
                                  got'[i] > 0 \/ i \in ToSet(wire')
<1> DEFINE h == Head(wire)
<1>1. wire \in Seq(Item) /\ wire # <<>> /\ wire' = Tail(wire) /\ got \in [Item -> Nat]
      /\ got' = [got EXCEPT ![h] = @ + 1]
  BY DEF LinkTypeOK, GatewayReads
<1>2. h \in Item /\ Tail(wire) \in Seq(Item)
  BY <1>1
<1>3. got' \in [Item -> Nat] /\ \A i \in Item : got'[i] = got[i] + One(i = h)
  BY <1>1, <1>2 DEF One
<1>4. LinkTypeOK'
  BY <1>1, <1>2, <1>3 DEF LinkTypeOK, GatewayReads
<1>5. ASSUME NEW i \in Item PROVE Held(i)' = Held(i)
  <2>1. Occurs(wire, i) = Occurs(wire', i) + One(i = h)
    BY <1>1, OccursTail
  <2>2. Occurs(wire, i) \in Nat /\ Occurs(wire', i) \in Nat /\ got[i] \in Nat
          /\ One(i = h) \in Nat
    BY <1>1, <1>2, OccursType DEF One
  <2> QED  BY <1>3, <2>1, <2>2 DEF Held
<1>6. ASSUME NEW i \in Item, got[i] > 0 \/ i \in ToSet(wire)
      PROVE  got'[i] > 0 \/ i \in ToSet(wire')
  <2>1. ToSet(wire) = ToSet(wire') \cup {h}
    BY <1>1, OccursTail
  <2>2. got[i] \in Nat
    BY <1>1
  <2> QED  BY <1>3, <1>6, <2>1, <2>2 DEF One
<1> QED  BY <1>4, <1>5, <1>6

LEMMA CutKeeps ==
    ASSUME LinkTypeOK, wire' = <<>>, got' = got, NEW i \in Item
    PROVE  Held(i)' \in Nat /\ Held(i)' <= Held(i)
<1>1. Occurs(wire', i) = 0 /\ Occurs(wire, i) \in Nat /\ got[i] \in Nat
  BY OccursEmpty, OccursType DEF LinkTypeOK
<1> QED  BY <1>1 DEF Held

LEMMA WritingKeeps ==
    ASSUME LinkTypeOK, NEW x \in Item, Writes(x), got' = got
    PROVE  /\ wire' \in Seq(Item) /\ lost' \subseteq Item
           /\ ToSet(wire') \cup lost' = ToSet(wire) \cup lost \cup {x}
           /\ \A i \in Item : Held(i)' <= Held(i) + One(i = x)
<1>1. wire \in Seq(Item) /\ lost \subseteq Item /\ got \in [Item -> Nat]
  BY DEF LinkTypeOK
<1>2. CASE link = "up"
  <2>1. wire' = Append(wire, x) /\ lost' = lost
    BY <1>2 DEF Writes
  <2>2. wire' \in Seq(Item)
    BY <1>1, <2>1
  <2>3. ToSet(wire') = ToSet(wire) \cup {x}
    BY <1>1, <2>1, OccursAppend
  <2>4. ASSUME NEW i \in Item PROVE Held(i)' <= Held(i) + One(i = x)
    <3>1. Occurs(wire', i) = Occurs(wire, i) + One(i = x)
      BY <1>1, <2>1, OccursAppend
    <3>2. Occurs(wire, i) \in Nat /\ got[i] \in Nat /\ One(i = x) \in Nat
      BY <1>1, OccursType DEF One
    <3> QED  BY <3>1, <3>2 DEF Held
  <2> QED  BY <1>1, <2>1, <2>2, <2>3, <2>4
<1>3. CASE link # "up"
  <2>1. wire' = wire /\ lost' = lost \cup {x}
    BY <1>3 DEF Writes
  <2>2. ASSUME NEW i \in Item PROVE Held(i)' <= Held(i) + One(i = x)
    BY <2>1, HeldSame, HeldType DEF One
  <2> QED  BY <1>1, <2>1, <2>2
<1> QED  BY <1>2, <1>3

LEMMA IntakeNumbers ==
  MaxItems \in Nat /\ MaxBreaks \in Nat /\ 0 \notin Item /\ Item \subseteq Nat
BY LinkAssumption DEF Item

(* A fault is counted, and a restart with it.                              *)
LEMMA Counted ==
    ASSUME LinkTypeOK,
           \/ breaks' = breaks /\ restarts' = restarts
           \/ breaks < MaxBreaks /\ breaks' = breaks + 1 /\ restarts' \in {restarts, restarts + 1}
    PROVE  breaks' \in 0..MaxBreaks /\ restarts' \in 0..breaks' /\ breaks \in Nat /\ restarts \in Nat
<1>1. breaks \in 0..MaxBreaks /\ restarts \in 0..breaks
  BY DEF LinkTypeOK
<1> QED  BY <1>1, IntakeNumbers

LEMMA BetweenFacts ==
    ASSUME NEW m \in 0..MaxItems, NEW p \in 0..MaxItems
    PROVE  /\ Between(m, p) \in Seq(Item)
           /\ Len(Between(m, p)) = IF p > m THEN p - m ELSE 0
           /\ \A k \in DOMAIN Between(m, p) : Between(m, p)[k] = m + k
           /\ ToSet(Between(m, p)) = {i \in Item : m < i /\ i <= p}
<1> DEFINE n == IF p > m THEN p - m ELSE 0
<1>1. n \in Nat /\ (n = 0 \/ m + n = p) /\ (p <= m => n = 0)
  BY IntakeNumbers
<1>2. Between(m, p) = [k \in 1..n |-> m + k]
  BY DEF Between
<1>3. \A k \in 1..n : m + k \in Item /\ m < m + k /\ m + k <= p
  BY <1>1, IntakeNumbers DEF Item
<1>4. ASSUME NEW i \in Item, m < i, i <= p PROVE i - m \in 1..n /\ m + (i - m) = i
  BY <1>1, <1>4, IntakeNumbers
<1> HIDE DEF n
<1>5. Between(m, p) \in Seq(Item) /\ Len(Between(m, p)) = n /\ DOMAIN Between(m, p) = 1..n
  BY <1>1, <1>2, <1>3
<1>6. ToSet(Between(m, p)) = {i \in Item : m < i /\ i <= p}
  <2>1. \A k \in 1..n : Between(m, p)[k] = m + k
    BY <1>2
  <2> QED  BY <1>3, <1>4, <1>5, <2>1 DEF ToSet
<1> QED  BY <1>2, <1>5, <1>6 DEF n

(* The bot.  Actions of the link and of the environment first.             *)
LEMMA CursorType == ASSUME BotTypeOK PROVE Cursor \in 0..MaxItems
BY IntakeNumbers DEF BotTypeOK, Cursor

LEMMA BotLink ==
    ASSUME LinkTypeOK, BotInv, UNCHANGED botVars, Posts \/ GatewayReads \/ LinkBreaks
    PROVE  LinkTypeOK' /\ BotInv'
<1> USE DEF BotInv
<1>1. BotTypeOK' /\ BotShape' /\ Cursor' = Cursor
  BY DEF botVars, BotTypeOK, BotShape, Cursor
<1>2. CASE Posts
  <2>1. LinkTypeOK' /\ wire' = wire /\ got' = got /\ lost' = lost /\ restarts' = restarts
    BY <1>2, IntakeNumbers DEF Posts, LinkTypeOK
  <2>2. BotAccounts'
    BY <2>1 DEF BotAccounts, botVars, Upto
  <2>3. BotBudget'
    BY <2>1, <1>1, HeldSame DEF BotBudget, botVars
  <2> QED  BY <1>1, <2>1, <2>2, <2>3
<1>3. CASE GatewayReads
  <2>1. LinkTypeOK' /\ lost' = lost /\ restarts' = restarts
    BY <1>3, ReadingKeeps DEF GatewayReads
  <2>2. BotAccounts'
    BY <1>3, <2>1, ReadingKeeps DEF BotAccounts, botVars, Upto
  <2>3. BotBudget'
    BY <1>1, <1>3, <2>1, ReadingKeeps DEF BotBudget, botVars
  <2> QED  BY <1>1, <2>1, <2>2, <2>3
<1>4. CASE LinkBreaks
  <2>1. /\ wire' = <<>> /\ got' = got /\ lost' = lost \cup ToSet(wire) /\ restarts' = restarts
        /\ breaks' = breaks + 1 /\ breaks < MaxBreaks /\ posted' = posted /\ link' = "dead"
    BY <1>4 DEF LinkBreaks, Fault
  <2>2. wire \in Seq(Item) /\ ToSet(wire) \subseteq Item
    BY DEF LinkTypeOK, ToSet
  <2>3. LinkTypeOK'
    BY <2>1, <2>2, Counted DEF LinkTypeOK
  <2>4. BotAccounts'
    BY <2>1 DEF BotAccounts, botVars, Upto
  <2>5. BotBudget'
    <3> SUFFICES ASSUME NEW i \in Item
                 PROVE  Held(i)' + One(hand' = i) <= restarts' + One(i <= Cursor')
      BY DEF BotBudget
    <3>1. Held(i)' <= Held(i) /\ Held(i)' \in Nat /\ Held(i) \in Nat
      BY <2>1, CutKeeps, HeldType
    <3>2. Held(i) + One(hand = i) <= restarts + One(i <= Cursor) /\ restarts \in Nat
      BY DEF BotBudget, LinkTypeOK
    <3>3. hand' = hand /\ One(hand = i) \in Nat /\ One(i <= Cursor) \in Nat
      BY DEF botVars, One
    <3> QED  BY <3>1, <3>2, <3>3, <1>1, <2>1
  <2> QED  BY <1>1, <2>3, <2>4, <2>5
<1> QED  BY <1>2, <1>3, <1>4

(* Steps that leave what is in hand, on the wire and behind the cursor.    *)
LEMMA BotPolls ==
    ASSUME LinkTypeOK, BotInv,
           BotConnects \/ GetUpdates(TRUE) \/ GetUpdates(FALSE) \/ BatchDone \/ AnswerButton
    PROVE  LinkTypeOK' /\ BotInv'
<1> USE DEF BotInv
<1>1. wire' = wire /\ got' = got /\ lost' = lost /\ restarts' = restarts /\ hand' = hand
  BY DEF BotConnects, GetUpdates, BatchDone, AnswerButton, linkVars
<1>2. LinkTypeOK'
  <2>1. /\ posted' = posted /\ link' \in {link, "up"}
        /\ breaks' = breaks \/ (breaks < MaxBreaks /\ breaks' = breaks + 1)
    BY DEF BotConnects, GetUpdates, BatchDone, AnswerButton, linkVars, Fault
  <2> QED  BY <1>1, <2>1, Counted DEF LinkTypeOK
<1>3. Cursor' = Cursor /\ acked' \in 0..MaxItems /\ offset' = offset
  <2>1. CASE acked' = acked /\ offset' = offset
    BY <2>1 DEF Cursor, BotTypeOK
  <2>2. CASE \E a \in BOOLEAN : GetUpdates(a)
    <3>1. acked' = (IF offset > acked + 1 THEN offset - 1 ELSE acked) /\ offset' = offset
      BY <2>2 DEF GetUpdates
    <3> QED  BY <3>1, IntakeNumbers DEF Cursor, BotTypeOK
  <2> QED  BY <2>1, <2>2 DEF BotConnects, BatchDone, AnswerButton
<1>4. CASE GetUpdates(TRUE)
  <2>1. batch' = Between(acked', posted) /\ poll' = "each" /\ poll = "ask"
    BY <1>4 DEF GetUpdates
  <2>2. posted \in 0..MaxItems
    BY DEF LinkTypeOK
  <2>3. batch' \in Seq(Item) /\ \A k \in DOMAIN batch' : batch'[k] = acked' + k
    BY <2>1, <2>2, <1>3, BetweenFacts
  <2>4. Cursor' = acked'
    BY <1>4, IntakeNumbers DEF Cursor, GetUpdates, BotTypeOK
  <2>5. BotTypeOK' /\ BotShape'
    BY <1>1, <1>3, <2>1, <2>3, <2>4 DEF BotTypeOK, BotShape
  <2> QED  BY <1>1, <1>2, <1>3, <2>5, HeldSame DEF BotAccounts, BotBudget, Upto, Cursor
<1>5. CASE BotConnects \/ GetUpdates(FALSE) \/ BatchDone \/ AnswerButton
  <2>1. batch' = batch /\ poll' \in {"off", "ask", "each", "button", "send"}
        /\ (poll' \in {"button", "send"} <=> poll \in {"button", "send"})
    BY <1>5 DEF BotConnects, GetUpdates, BatchDone, AnswerButton, AfterError
  <2>2. BotTypeOK' /\ BotShape'
    BY <1>1, <1>3, <2>1 DEF BotTypeOK, BotShape
  <2> QED  BY <1>1, <1>2, <1>3, <2>2, HeldSame DEF BotAccounts, BotBudget, Upto, Cursor
<1> QED  BY <1>4, <1>5

LEMMA BotTakes == ASSUME LinkTypeOK, BotInv, Take PROVE LinkTypeOK' /\ BotInv'
<1> USE DEF BotInv
<1> DEFINE h == Head(batch)
<1>1. /\ wire' = wire /\ got' = got /\ lost' = lost /\ restarts' = restarts
      /\ acked' = acked /\ batch # <<>> /\ batch' = Tail(batch) /\ poll = "each"
      /\ offset' = h + 1 /\ LinkTypeOK'
  BY DEF Take, linkVars, OffsetAfter, LinkTypeOK
<1>2. batch \in Seq(Item) /\ Cursor \in 0..MaxItems
  BY CursorType DEF BotTypeOK
<1>3. /\ h \in Item /\ Tail(batch) \in Seq(Item) /\ h = batch[1] /\ 1 \in DOMAIN batch
      /\ \A k \in DOMAIN Tail(batch) : k + 1 \in DOMAIN batch
           /\ Tail(batch)[k] = batch[k + 1] /\ k \in Nat
  BY <1>1, <1>2
<1>4. h = Cursor + 1
  BY <1>3 DEF BotShape
<1>5. Cursor' = Cursor + 1
  BY <1>1, <1>2, <1>3, <1>4, IntakeNumbers DEF Cursor, BotTypeOK
<1>6. hand = 0
  BY <1>1 DEF BotShape
<1>7. \/ h \in Silent /\ hand' = 0 /\ poll' = "each"
      \/ hand' = h /\ poll' \in {"button", "send"}
  BY <1>1, <1>6 DEF Take
<1>8. BotTypeOK'
  BY <1>1, <1>3, <1>7, IntakeNumbers DEF BotTypeOK, Item
<1>9. BotShape'
  <2>1. \A k \in DOMAIN batch' : batch'[k] = Cursor' + k
    BY <1>1, <1>2, <1>3, <1>5 DEF BotShape
  <2> QED  BY <2>1, <1>3, <1>7, IntakeNumbers DEF BotShape
<1>10. BotAccounts'
  <2> SUFFICES ASSUME NEW i \in Item, i <= Cursor'
               PROVE  got'[i] > 0 \/ i \in ToSet(wire') \cup {hand'} \cup lost' \cup Silent
    BY DEF BotAccounts, Upto, Cursor
  <2>1. CASE i = h
    BY <2>1, <1>7
  <2>2. CASE i # h
    <3>1. i <= Cursor
      BY <2>2, <1>2, <1>4, <1>5, IntakeNumbers
    <3>2. got[i] > 0 \/ i \in ToSet(wire) \cup {hand} \cup lost \cup Silent
      BY <3>1 DEF BotAccounts, Upto, Cursor
    <3> QED  BY <3>2, <1>1, <1>6, IntakeNumbers
  <2> QED  BY <2>1, <2>2
<1>11. BotBudget'
  <2> SUFFICES ASSUME NEW i \in Item
               PROVE  Held(i)' + One(hand' = i) <= restarts' + One(i <= Cursor')
    BY DEF BotBudget
  <2>1. Held(i)' = Held(i) /\ Held(i) \in Nat /\ restarts \in Nat
    BY <1>1, HeldSame, HeldType DEF LinkTypeOK
  <2>2. Held(i) + One(hand = i) <= restarts + One(i <= Cursor)
    BY DEF BotBudget
  <2>3. One(hand = i) = 0
    BY <1>6, IntakeNumbers DEF One
  <2>4. One(hand' = i) + One(i <= Cursor) <= One(i <= Cursor')
        /\ One(hand' = i) \in Nat /\ One(i <= Cursor) \in Nat /\ One(i <= Cursor') \in Nat
    BY <1>2, <1>4, <1>5, <1>7, IntakeNumbers DEF One
  <2> QED  BY <2>1, <2>2, <2>3, <2>4, <1>1
<1> QED  BY <1>1, <1>8, <1>9, <1>10, <1>11

LEMMA BotForwards ==
    ASSUME LinkTypeOK, BotInv, NEW raises \in BOOLEAN, Forward(raises)
    PROVE  LinkTypeOK' /\ BotInv'
<1> USE DEF BotInv
<1>1. hand \in Item
  BY DEF Forward, BotShape, BotTypeOK
<1>2. /\ Writes(hand) /\ got' = got /\ posted' = posted /\ breaks' = breaks
           /\ restarts' = restarts
      /\ link' \in {"none", link} /\ hand' = 0 /\ offset' = offset /\ acked' = acked
      /\ poll' \in {"off", "each"} /\ batch' \in {batch, <<>>}
  BY DEF Forward
<1>3. /\ wire' \in Seq(Item) /\ lost' \subseteq Item
      /\ ToSet(wire') \cup lost' = ToSet(wire) \cup lost \cup {hand}
      /\ \A i \in Item : Held(i)' <= Held(i) + One(i = hand)
  BY <1>1, <1>2, WritingKeeps
<1>4. LinkTypeOK'
  BY <1>2, <1>3 DEF LinkTypeOK
<1>5. Cursor' = Cursor
  BY <1>2 DEF Cursor
<1>6. BotTypeOK' /\ BotShape'
  <2>1. \A k \in DOMAIN batch' : batch'[k] = Cursor' + k
    BY <1>2, <1>5 DEF BotShape
  <2>2. batch' \in Seq(Item)
    <3>1. batch \in Seq(Item) /\ <<>> \in Seq(Item)
      BY DEF BotTypeOK
    <3> QED  BY <1>2, <3>1
  <2> QED  BY <1>2, <2>1, <2>2 DEF BotTypeOK, BotShape
<1>7. BotAccounts'
  BY <1>2, <1>3 DEF BotAccounts, Upto
<1>8. BotBudget'
  <2> SUFFICES ASSUME NEW i \in Item
               PROVE  Held(i)' + One(hand' = i) <= restarts' + One(i <= Cursor')
    BY DEF BotBudget
  <2>1. Held(i)' <= Held(i) + One(i = hand) /\ Held(i) \in Nat /\ Held(i)' \in Nat
          /\ restarts \in Nat
    <3>1. Occurs(wire', i) \in Nat /\ got'[i] \in Nat /\ restarts \in Nat
      BY <1>3, <1>2, OccursType, Counted DEF LinkTypeOK
    <3> QED  BY <1>3, <3>1, HeldType DEF Held
  <2>2. Held(i) + One(hand = i) <= restarts + One(i <= Cursor)
    BY DEF BotBudget
  <2>3. One(hand' = i) = 0 /\ One(i = hand) = One(hand = i) /\ One(hand = i) \in Nat
          /\ One(i <= Cursor) \in Nat
    BY <1>2, IntakeNumbers DEF One
  <2> QED  BY <2>1, <2>2, <2>3, <1>2, <1>5
<1> QED  BY <1>4, <1>6, <1>7, <1>8

(* The socket is given up, or the process ends: what is in hand is lost.   *)
LEMMA BotLetsGo ==
    ASSUME LinkTypeOK, BotInv, RecvEnds \/ RecvRaises \/ BotRestarts
    PROVE  LinkTypeOK' /\ BotInv'
<1> USE DEF BotInv
<1>1. /\ got' = got /\ posted' = posted /\ link' = "none" /\ hand' = 0 /\ batch' = <<>>
      /\ poll' = "off" /\ acked' = acked
  BY DEF RecvEnds, RecvRaises, BotRestarts, StackEnds
<1>2. \/ offset' = offset /\ restarts' = restarts /\ breaks' = breaks /\ wire' = wire
      \/ /\ offset' = offset /\ restarts' = restarts /\ wire' = wire
         /\ breaks' = breaks + 1 /\ breaks < MaxBreaks
      \/ /\ offset' = 0 /\ restarts' = restarts + 1 /\ breaks' = breaks + 1 /\ breaks < MaxBreaks
         /\ wire' = <<>>
  BY DEF RecvEnds, RecvRaises, BotRestarts, StackEnds, Fault
<1>3. wire \in Seq(Item) /\ ToSet(wire) \subseteq Item /\ hand \in {0} \cup Item
  BY DEF LinkTypeOK, ToSet, BotTypeOK
<1>4. lost' \subseteq Item /\ lost \cup (IF hand = 0 THEN {} ELSE {hand}) \subseteq lost'
      /\ ToSet(wire) \subseteq ToSet(wire') \cup lost'
  BY <1>3 DEF RecvEnds, RecvRaises, BotRestarts, StackEnds, LinkTypeOK
<1>5. LinkTypeOK'
  <2>1. breaks' \in 0..MaxBreaks /\ restarts' \in 0..breaks'
    BY <1>2, Counted
  <2>2. wire' \in Seq(Item)
    <3>1. <<>> \in Seq(Item)
      OBVIOUS
    <3> QED  BY <1>2, <1>3, <3>1
  <2> QED  BY <1>1, <1>4, <2>1, <2>2 DEF LinkTypeOK
<1>6. Cursor' <= Cursor /\ Cursor' \in Nat /\ Cursor \in Nat
        /\ (offset' = offset => Cursor' = Cursor)
  BY <1>1, <1>2, IntakeNumbers DEF Cursor, BotTypeOK
<1>7. BotTypeOK' /\ BotShape'
  BY <1>1, <1>2, IntakeNumbers DEF BotTypeOK, BotShape
<1>8. BotAccounts'
  <2> SUFFICES ASSUME NEW i \in Item, i <= Cursor'
               PROVE  got'[i] > 0 \/ i \in ToSet(wire') \cup {hand'} \cup lost' \cup Silent
    BY DEF BotAccounts, Upto, Cursor
  <2>1. i <= Cursor
    BY <1>6, IntakeNumbers
  <2>2. got[i] > 0 \/ i \in ToSet(wire) \cup {hand} \cup lost \cup Silent
    BY <2>1 DEF BotAccounts, Upto, Cursor
  <2> QED  BY <1>1, <1>4, <2>2, IntakeNumbers
<1>9. BotBudget'
  <2> SUFFICES ASSUME NEW i \in Item
               PROVE  Held(i)' + One(hand' = i) <= restarts' + One(i <= Cursor')
    BY DEF BotBudget
  <2>1. Held(i)' <= Held(i) /\ Held(i)' \in Nat /\ Held(i) \in Nat /\ restarts \in Nat
    BY <1>1, <1>2, CutKeeps, HeldSame, HeldType DEF LinkTypeOK
  <2>2. Held(i) + One(hand = i) <= restarts + One(i <= Cursor)
    BY DEF BotBudget
  <2>3. One(hand' = i) = 0 /\ One(hand = i) \in Nat /\ One(i <= Cursor) \in 0..1
          /\ One(i <= Cursor') \in 0..1
    BY <1>1, IntakeNumbers DEF One
  <2>4. restarts' = restarts + 1 \/ (restarts' = restarts /\ Cursor' = Cursor)
    BY <1>2, <1>6
  <2> QED  BY <2>1, <2>2, <2>3, <2>4
<1> QED  BY <1>5, <1>7, <1>8, <1>9

LEMMA BotKeeps ==
    ASSUME LinkTypeOK, BotInv, BotStep \/ BotFault
    PROVE  LinkTypeOK' /\ BotInv'
BY BotPolls, BotTakes, BotForwards, BotLetsGo DEF BotStep, BotFault

(* Gmail.  Only the search and the snapshot move the cursor on.            *)
LEMMA GmailLink ==
    ASSUME LinkTypeOK, GmailInv, UNCHANGED gmailVars, Posts \/ GatewayReads \/ LinkBreaks
    PROVE  LinkTypeOK' /\ GmailInv'
<1> USE DEF GmailInv
<1>1. GmailTypeOK' /\ Reached' = Reached
  BY DEF gmailVars, passed, GmailTypeOK, Reached
<1>2. posted \in 0..MaxItems /\ stored \in Nat /\ high \in Nat /\ Reached \in Nat
  BY IntakeNumbers DEF LinkTypeOK, GmailTypeOK, Reached
<1>3. posted' \in Nat /\ posted <= posted'
  BY <1>2 DEF Posts, GatewayReads, LinkBreaks
<1>4. GmailShape' /\ SnapshotShape'
  <2>1. breaks' = breaks \/ breaks' = breaks + 1
    BY DEF Posts, GatewayReads, LinkBreaks, Fault
  <2>2. breaks \in Nat
    BY Counted DEF LinkTypeOK
  <2>3. SnapshotShape'
    BY <2>1, <2>2 DEF SnapshotShape, gmailVars, passed
  <2> QED  BY <2>3, <1>1, <1>2, <1>3 DEF GmailShape, gmailVars
<1>5. CASE Posts
  <2>1. LinkTypeOK' /\ wire' = wire /\ got' = got /\ lost' = lost /\ breaks' = breaks
    BY <1>5, IntakeNumbers DEF Posts, LinkTypeOK
  <2> QED  BY <2>1, <1>1, <1>4, HeldSame DEF MailAccounted, GmailBudget, gmailVars, passed, Upto
<1>6. CASE GatewayReads
  <2>1. LinkTypeOK' /\ lost' = lost /\ breaks' = breaks
    BY <1>6, ReadingKeeps DEF GatewayReads
  <2>2. MailAccounted'
    BY <1>1, <1>6, <2>1, ReadingKeeps DEF MailAccounted, gmailVars, passed, Upto
  <2>3. GmailBudget'
    BY <1>1, <1>6, <2>1, ReadingKeeps DEF GmailBudget, gmailVars
  <2> QED  BY <1>1, <1>4, <2>1, <2>2, <2>3
<1>7. CASE LinkBreaks
  <2>1. /\ wire' = <<>> /\ got' = got /\ lost' = lost \cup ToSet(wire) /\ restarts' = restarts
        /\ breaks' = breaks + 1 /\ breaks < MaxBreaks /\ posted' = posted /\ link' = "dead"
    BY <1>7 DEF LinkBreaks, Fault
  <2>2. wire \in Seq(Item) /\ ToSet(wire) \subseteq Item
    BY DEF LinkTypeOK, ToSet
  <2>3. LinkTypeOK'
    BY <2>1, <2>2, Counted DEF LinkTypeOK
  <2>4. MailAccounted'
    BY <1>1, <2>1 DEF MailAccounted, gmailVars, passed, Upto
  <2>5. GmailBudget'
    <3> SUFFICES ASSUME NEW i \in Item
                 PROVE  Held(i)' + One(i \in ToSet(todo')) <= breaks' + One(i <= Reached')
      BY DEF GmailBudget
    <3>1. Held(i)' <= Held(i) /\ Held(i)' \in Nat /\ Held(i) \in Nat
      BY <2>1, CutKeeps, HeldType
    <3>2. Held(i) + One(i \in ToSet(todo)) <= breaks + One(i <= Reached) /\ breaks \in Nat
      BY <2>1, Counted DEF GmailBudget
    <3>3. todo' = todo /\ One(i \in ToSet(todo)) \in Nat /\ One(i <= Reached) \in Nat
      BY DEF gmailVars, One
    <3> QED  BY <3>1, <3>2, <3>3, <1>1, <2>1
  <2> QED  BY <1>1, <1>4, <2>3, <2>4, <2>5
<1> QED  BY <1>5, <1>6, <1>7

(* Steps outside the batch that find nothing, Store at its end, and the    *)
(* end of the loop: the cursor stays, or falls back with a fault.          *)
LEMMA GmailWaits ==
    ASSUME LinkTypeOK, GmailInv,
           \/ GmailConnects \/ SnapshotFails \/ Wake \/ SearchFails \/ Store \/ ImapEnds
           \/ GmailRestarts
    PROVE  LinkTypeOK' /\ GmailInv'
<1> USE DEF GmailInv
<1>1. /\ got' = got /\ posted' = posted /\ UNCHANGED passed /\ todo' = <<>>
      /\ imap' \in {"off", "login", "idle", "search"} /\ high' \in {high, 0}
      /\ link' \in {link, "up", "none"}
  BY DEF GmailConnects, SnapshotFails, Wake, SearchFails, Store, ImapEnds, GmailRestarts,
         StackEnds, GmailShape, linkVars
<1>2. \/ wire' = wire /\ lost' = lost
      \/ wire' = <<>> /\ lost' = lost \cup ToSet(wire)
  BY DEF GmailConnects, SnapshotFails, Wake, SearchFails, Store, ImapEnds, GmailRestarts,
         StackEnds, linkVars
<1>3. \/ stored' = Reached /\ breaks' = breaks /\ restarts' = restarts
      \/ /\ stored' = stored /\ breaks < MaxBreaks /\ breaks' = breaks + 1
         /\ restarts' \in {restarts, restarts + 1}
  BY DEF GmailConnects, SnapshotFails, Wake, SearchFails, Store, ImapEnds, GmailRestarts,
         StackEnds, linkVars, Fault, Reached, Seen
<1>4. wire \in Seq(Item) /\ <<>> \in Seq(Item) /\ ToSet(wire) \subseteq Item /\ ToSet(<<>>) = {}
  BY OccursEmpty DEF LinkTypeOK, ToSet
<1>5. wire' \in Seq(Item) /\ lost' \subseteq Item
      /\ ToSet(wire) \cup lost \subseteq ToSet(wire') \cup lost'
  BY <1>2, <1>4 DEF LinkTypeOK
<1>6. breaks' \in 0..MaxBreaks /\ restarts' \in 0..breaks' /\ breaks \in Nat
  BY <1>3, Counted
<1>7. LinkTypeOK'
  BY <1>1, <1>5, <1>6 DEF LinkTypeOK
<1>8. posted \in Nat /\ stored \in 0..MaxItems /\ high \in 0..MaxItems
  BY IntakeNumbers DEF LinkTypeOK, GmailTypeOK
<1>9. Reached \in 0..MaxItems /\ Reached <= posted /\ stored <= Reached
  BY <1>8 DEF Reached, GmailShape
<1>10. Reached' = stored' /\ stored' \in 0..MaxItems /\ stored' <= Reached
  BY <1>1, <1>3, <1>8, <1>9 DEF Reached
<1>11. GmailTypeOK'
  <2>1. looked' = looked /\ skipped' = skipped /\ late' = late
    BY <1>1 DEF passed
  <2> QED  BY <1>1, <1>4, <1>8, <1>10, <2>1, IntakeNumbers DEF GmailTypeOK
<1>15. SnapshotShape'
  <2>1. looked' = looked /\ skipped' = skipped /\ late' = late
    BY <1>1 DEF passed
  <2>2. stored' = 0 => stored = 0
    BY <1>3, <1>8, <1>9
  <2>3. looked' /\ imap' \in {"off", "login"} => breaks' > 0
    <3>1. CASE breaks' = breaks + 1
      BY <3>1, <1>6
    <3>2. CASE breaks' = breaks
      <4>1. GmailConnects \/ Wake \/ Store
        BY <3>2, <1>6 DEF SnapshotFails, SearchFails, ImapEnds, GmailRestarts, StackEnds,
           Fault
      <4>2. imap' \in {"off", "login"} => imap = "off"
        BY <4>1 DEF GmailConnects, Wake, Store
      <4> QED  BY <4>2, <3>2, <2>1 DEF SnapshotShape
    <3> QED  BY <3>1, <3>2, <1>3
  <2>4. breaks > 0 => breaks' > 0
    BY <1>3, <1>6
  <2> QED  BY <2>1, <2>2, <2>3, <2>4 DEF SnapshotShape
<1>12. GmailShape'
  <2>1. stored' <= posted /\ high' <= posted
    BY <1>1, <1>8, <1>9, <1>10 DEF GmailShape
  <2>2. stored' <= Reached' /\ DOMAIN todo' = {}
    BY <1>1, <1>8, <1>10
  <2> QED  BY <1>1, <2>1, <2>2 DEF GmailShape
<1>13. MailAccounted'
  <2> SUFFICES ASSUME NEW i \in Item, i <= Reached'
               PROVE  got'[i] > 0 \/ i \in ToSet(wire') \cup lost' \cup skipped' \cup late'
    BY DEF MailAccounted, Upto
  <2>1. i <= Reached
    BY <1>9, <1>10, IntakeNumbers
  <2>2. ~ (i > stored /\ i \in ToSet(todo))
    <3>1. CASE todo = <<>>
      BY <3>1, <1>4
    <3>2. CASE todo # <<>>
      <4>1. imap = "each" /\ stored' = stored
        BY <3>2 DEF GmailShape, GmailConnects, SnapshotFails, Wake, SearchFails, Store, ImapEnds,
              GmailRestarts, StackEnds, linkVars
      <4>2. i <= stored
        BY <4>1, <1>10
      <4> QED  BY <4>2, <1>8, IntakeNumbers
    <3> QED  BY <3>1, <3>2
  <2>3. got[i] > 0 \/ i \in ToSet(wire) \cup lost \cup skipped \cup late
    BY <2>1, <2>2 DEF MailAccounted, Upto
  <2>4. skipped' = skipped /\ late' = late /\ got' = got
    BY <1>1 DEF passed
  <2> QED  BY <2>3, <2>4, <1>5
<1>14. GmailBudget'
  <2> SUFFICES ASSUME NEW i \in Item
               PROVE  Held(i)' + One(i \in ToSet(todo')) <= breaks' + One(i <= Reached')
    BY DEF GmailBudget
  <2>1. Held(i)' <= Held(i) /\ Held(i)' \in Nat /\ Held(i) \in Nat
    <3>1. Held(i) \in Nat
      BY HeldType
    <3> QED  BY <1>1, <1>2, <3>1, CutKeeps, HeldSame
  <2>2. Held(i) + One(i \in ToSet(todo)) <= breaks + One(i <= Reached)
    BY DEF GmailBudget
  <2>3. One(i \in ToSet(todo')) = 0 /\ One(i \in ToSet(todo)) \in Nat
        /\ One(i <= Reached) \in 0..1 /\ One(i <= Reached') \in 0..1
    BY <1>1, <1>4 DEF One
  <2>4. (breaks' = breaks + 1) \/ (breaks' = breaks /\ Reached' = Reached)
    BY <1>3, <1>10
  <2> QED  BY <2>1, <2>2, <2>3, <2>4, <1>6
<1> QED  BY <1>7, <1>11, <1>12, <1>13, <1>14, <1>15

LEMMA GmailLogsIn == ASSUME LinkTypeOK, GmailInv, Login PROVE LinkTypeOK' /\ GmailInv'
<1> USE DEF GmailInv
<1>1. /\ LinkTypeOK' /\ got' = got /\ posted' = posted /\ wire' = wire /\ lost' = lost
           /\ breaks' = breaks
      /\ todo' = todo /\ high' = high /\ imap = "login" /\ imap' = "idle"
  BY DEF Login, linkVars, LinkTypeOK
<1>2. posted \in 0..MaxItems /\ stored \in 0..MaxItems /\ high \in 0..MaxItems /\ breaks \in Nat
  BY Counted, <1>1 DEF LinkTypeOK, GmailTypeOK
<1>3. \/ stored' = stored /\ UNCHANGED <<looked, skipped, late>>
      \/ /\ stored = 0 /\ stored' = posted /\ looked' = TRUE
         /\ \/ looked /\ late' = late \cup Upto(posted) /\ skipped' = skipped
            \/ ~looked /\ skipped' = Upto(posted) /\ late' = late
  BY DEF Login, Snapshot, passed
<1>4. Reached = stored /\ Reached' = stored' /\ todo = <<>>
  BY <1>1 DEF Reached, GmailShape
<1>5. ToSet(todo) = {} /\ DOMAIN todo = {} /\ ToSet(todo') = {}
  BY <1>1, <1>4, OccursEmpty
<1>6. GmailTypeOK' /\ GmailShape'
  <2>1. /\ stored' \in 0..MaxItems /\ stored' <= posted /\ high <= posted
        /\ looked' \in BOOLEAN /\ skipped' \subseteq Item /\ late' \subseteq Item
    <3>1. stored <= posted /\ high <= posted /\ skipped \subseteq Item /\ late \subseteq Item
            /\ looked \in BOOLEAN /\ Upto(posted) \subseteq Item
      BY DEF GmailTypeOK, GmailShape, Upto
    <3>2. posted <= posted
      BY <1>2
    <3> QED  BY <1>2, <1>3, <3>1, <3>2
  <2>2. GmailTypeOK'
    BY <1>1, <1>2, <2>1 DEF GmailTypeOK
  <2>3. \A k \in DOMAIN todo' : todo'[k] = high' - Len(todo') + k
    BY <1>1, <1>5
  <2> QED  BY <1>1, <1>4, <2>1, <2>2, <2>3 DEF GmailShape
<1>7. MailAccounted'
  <2> SUFFICES ASSUME NEW i \in Item, i <= stored'
               PROVE  got[i] > 0 \/ i \in ToSet(wire) \cup lost \cup skipped' \cup late'
    BY <1>1, <1>4 DEF MailAccounted, Upto
  <2>1. CASE stored' = stored /\ UNCHANGED <<looked, skipped, late>>
    BY <2>1, <1>4, <1>5 DEF MailAccounted, Upto
  <2>2. CASE stored' = posted /\ Upto(posted) \subseteq skipped' \cup late'
    BY <2>2 DEF Upto
  <2> QED  BY <2>1, <2>2, <1>3
<1>9. SnapshotShape'
  <2>2. stored' = 0 /\ stored' = posted => Upto(posted) = {}
    BY IntakeNumbers DEF Upto, Item
  <2>3. CASE stored' = stored /\ UNCHANGED <<looked, skipped, late>>
    BY <2>3, <1>1 DEF SnapshotShape
  <2>4. CASE stored = 0 /\ stored' = posted /\ looked /\ skipped' = skipped
    <3>1. skipped' = {} /\ breaks > 0
      BY <2>4, <1>1 DEF SnapshotShape
    <3> QED  BY <3>1, <1>1, <1>3, <2>4 DEF SnapshotShape
  <2>5. CASE stored' = posted /\ ~looked /\ skipped' = Upto(posted) /\ late' = late
    <3>1. late' = {}
      BY <2>5 DEF SnapshotShape
    <3> QED  BY <3>1, <2>2, <2>5, <1>1 DEF SnapshotShape
  <2> QED  BY <2>3, <2>4, <2>5, <1>3
<1>8. GmailBudget'
  <2> SUFFICES ASSUME NEW i \in Item
               PROVE  Held(i)' + One(i \in ToSet(todo')) <= breaks' + One(i <= Reached')
    BY DEF GmailBudget
  <2>1. Held(i)' = Held(i) /\ Held(i) \in Nat
    BY <1>1, HeldSame, HeldType
  <2>2. Held(i) + One(i \in ToSet(todo)) <= breaks + One(i <= Reached)
    BY DEF GmailBudget
  <2>3. One(i <= Reached) <= One(i <= Reached') /\ One(i <= Reached) \in Nat
          /\ One(i <= Reached') \in Nat
    BY <1>2, <1>3, <1>4, IntakeNumbers DEF One
  <2>4. One(i \in ToSet(todo')) = 0 /\ One(i \in ToSet(todo)) = 0
    BY <1>5 DEF One
  <2> QED  BY <1>1, <1>2, <2>1, <2>2, <2>3, <2>4
<1> QED  BY <1>1, <1>6, <1>7, <1>8, <1>9

LEMMA GmailSearches == ASSUME LinkTypeOK, GmailInv, Search PROVE LinkTypeOK' /\ GmailInv'
<1> USE DEF GmailInv
<1>1. /\ LinkTypeOK' /\ got' = got /\ posted' = posted /\ wire' = wire /\ lost' = lost
           /\ breaks' = breaks
      /\ stored' = stored /\ UNCHANGED <<looked, skipped, late>>
      /\ todo' = Between(stored, posted)
      /\ high' = posted /\ imap = "search" /\ imap' = "each"
  BY DEF Search, linkVars, LinkTypeOK, passed
<1>2. posted \in 0..MaxItems /\ stored \in 0..MaxItems /\ stored <= posted /\ breaks \in Nat
  BY Counted, <1>1 DEF LinkTypeOK, GmailTypeOK, GmailShape
<1>3. /\ todo' \in Seq(Item) /\ Len(todo') = posted - stored
      /\ \A k \in DOMAIN todo' : todo'[k] = stored + k
      /\ ToSet(todo') = {i \in Item : stored < i /\ i <= posted}
  <2>1. /\ todo' \in Seq(Item) /\ Len(todo') = IF posted > stored THEN posted - stored ELSE 0
        /\ \A k \in DOMAIN todo' : todo'[k] = stored + k
        /\ ToSet(todo') = {i \in Item : stored < i /\ i <= posted}
    BY <1>1, <1>2, BetweenFacts
  <2> QED  BY <2>1, <1>2
<1>4. Reached = stored /\ Reached' = posted /\ todo = <<>>
  BY <1>1 DEF Reached, GmailShape
<1>5. GmailTypeOK'
  BY <1>1, <1>2, <1>3 DEF GmailTypeOK
<1>6. GmailShape'
  <2>1. ASSUME NEW k \in DOMAIN todo' PROVE todo'[k] = high' - Len(todo') + k
    <3>1. todo'[k] = stored + k /\ high' - Len(todo') = stored
      BY <1>1, <1>2, <1>3
    <3> QED  BY <3>1
  <2> QED  BY <1>1, <1>2, <1>4, <2>1 DEF GmailShape
<1>7. MailAccounted'
  <2> SUFFICES ASSUME NEW i \in Item, i <= posted
               PROVE  \/ got[i] > 0 \/ i \in ToSet(wire) \cup lost \cup skipped \cup late
                      \/ i > stored /\ i \in ToSet(todo')
    BY <1>1, <1>4 DEF MailAccounted, Upto
  <2>1. CASE i <= stored
    BY <2>1, <1>2, <1>4, IntakeNumbers DEF MailAccounted, Upto
  <2>2. CASE i > stored
    BY <2>2, <1>2, <1>3, IntakeNumbers
  <2> QED  BY <2>1, <2>2, <1>2, IntakeNumbers
<1>8. GmailBudget'
  <2> SUFFICES ASSUME NEW i \in Item
               PROVE  Held(i)' + One(i \in ToSet(todo')) <= breaks' + One(i <= Reached')
    BY DEF GmailBudget
  <2>1. Held(i)' = Held(i) /\ Held(i) \in Nat
    BY <1>1, HeldSame, HeldType
  <2>2. Held(i) + One(i \in ToSet(todo)) <= breaks + One(i <= stored)
    BY <1>4 DEF GmailBudget
  <2>3. One(i \in ToSet(todo')) + One(i <= stored) = One(i <= Reached')
        /\ One(i \in ToSet(todo')) \in Nat /\ One(i <= stored) \in Nat
             /\ One(i <= Reached') \in Nat
    BY <1>2, <1>3, <1>4, IntakeNumbers DEF One
  <2>4. One(i \in ToSet(todo)) = 0
    BY <1>4, OccursEmpty DEF One
  <2> QED  BY <1>1, <1>2, <2>1, <2>2, <2>3, <2>4
<1>9. SnapshotShape'
  BY <1>1 DEF SnapshotShape
<1> QED  BY <1>1, <1>5, <1>6, <1>7, <1>8, <1>9

LEMMA GmailNotifies == ASSUME LinkTypeOK, GmailInv, Notify PROVE LinkTypeOK' /\ GmailInv'
<1> USE DEF GmailInv
<1> DEFINE h == Head(todo)
<1>1. /\ Writes(h) /\ got' = got /\ posted' = posted /\ breaks' = breaks /\ restarts' = restarts
      /\ link' = link /\ stored' = stored /\ UNCHANGED <<looked, skipped, late>>
      /\ high' = high
      /\ todo # <<>> /\ todo' = Tail(todo) /\ imap = "each" /\ imap' = imap
  BY DEF Notify, passed
<1>2. todo \in Seq(Item) /\ high \in Nat /\ stored \in Nat /\ breaks \in Nat
  BY <1>1, Counted, IntakeNumbers DEF GmailTypeOK
<1>3. h \in Item /\ todo' \in Seq(Item) /\ ToSet(todo) = ToSet(todo') \cup {h}
  BY <1>1, <1>2, OccursTail
<1>4. /\ wire' \in Seq(Item) /\ lost' \subseteq Item
      /\ ToSet(wire') \cup lost' = ToSet(wire) \cup lost \cup {h}
      /\ \A i \in Item : Held(i)' <= Held(i) + One(i = h)
  BY <1>1, <1>3, WritingKeeps
<1>5. LinkTypeOK'
  BY <1>1, <1>4 DEF LinkTypeOK
<1>6. Reached' = Reached /\ Reached = high
  BY <1>1 DEF Reached
<1>7. /\ Len(todo) \in Nat \ {0} /\ Len(todo') = Len(todo) - 1 /\ h = todo[1] /\ 1 \in DOMAIN todo
      /\ \A k \in DOMAIN todo' : k \in Nat \ {0} /\ k + 1 \in DOMAIN todo
           /\ todo'[k] = todo[k + 1]
  BY <1>1, <1>2
<1>8. GmailTypeOK' /\ GmailShape'
  <2>1. ASSUME NEW k \in DOMAIN todo' PROVE todo'[k] = high' - Len(todo') + k
    <3>1. todo[k + 1] = high - Len(todo) + (k + 1)
      BY <1>7 DEF GmailShape
    <3> QED  BY <3>1, <1>1, <1>2, <1>7
  <2> QED  BY <1>1, <1>3, <1>6, <2>1 DEF GmailTypeOK, GmailShape
<1>9. h \notin ToSet(todo')
  <2>1. ASSUME NEW k \in DOMAIN todo' PROVE todo'[k] # h
    <3>1. todo[k + 1] = high - Len(todo) + (k + 1) /\ h = high - Len(todo) + 1
      BY <1>7 DEF GmailShape
    <3> QED  BY <3>1, <1>2, <1>7
  <2> QED  BY <2>1 DEF ToSet
<1>10. MailAccounted'
  <2> SUFFICES ASSUME NEW i \in Item, i <= Reached
               PROVE  \/ got[i] > 0 \/ i \in ToSet(wire') \cup lost' \cup skipped \cup late
                      \/ i > stored /\ i \in ToSet(todo')
    BY <1>1, <1>6 DEF MailAccounted, Upto
  <2>1. \/ got[i] > 0 \/ i \in ToSet(wire) \cup lost \cup skipped \cup late
        \/ i > stored /\ i \in ToSet(todo)
    BY DEF MailAccounted, Upto
  <2> QED  BY <2>1, <1>3, <1>4
<1>11. GmailBudget'
  <2> SUFFICES ASSUME NEW i \in Item
               PROVE  Held(i)' + One(i \in ToSet(todo')) <= breaks' + One(i <= Reached')
    BY DEF GmailBudget
  <2>1. Held(i)' <= Held(i) + One(i = h) /\ Held(i) \in Nat /\ Held(i)' \in Nat
    <3>1. Occurs(wire', i) \in Nat /\ got'[i] \in Nat
      BY <1>4, <1>1, OccursType DEF LinkTypeOK
    <3> QED  BY <1>4, <3>1, HeldType DEF Held
  <2>2. Held(i) + One(i \in ToSet(todo)) <= breaks + One(i <= Reached)
    BY DEF GmailBudget
  <2>3. One(i \in ToSet(todo')) + One(i = h) = One(i \in ToSet(todo))
        /\ One(i \in ToSet(todo')) \in Nat /\ One(i = h) \in Nat /\ One(i <= Reached) \in Nat
    BY <1>3, <1>9 DEF One
  <2> QED  BY <1>1, <1>2, <1>6, <2>1, <2>2, <2>3
<1>12. SnapshotShape'
  BY <1>1 DEF SnapshotShape
<1> QED  BY <1>5, <1>8, <1>10, <1>11, <1>12

LEMMA GmailKeeps ==
    ASSUME LinkTypeOK, GmailInv, GmailStep \/ GmailFault
    PROVE  LinkTypeOK' /\ GmailInv'
BY GmailWaits, GmailLogsIn, GmailSearches, GmailNotifies DEF GmailStep, GmailFault

(* The user.  A message is in one place from when it came.                 *)
LEMMA UserLink ==
    ASSUME LinkTypeOK, UserInv, UNCHANGED userVars, GatewayReads \/ LinkBreaks
    PROVE  LinkTypeOK' /\ UserInv'
<1> USE DEF UserInv
<1>1. UserTypeOK' /\ posted' = posted /\ handlers' = handlers
  BY DEF userVars, UserTypeOK, GatewayReads, LinkBreaks
<1>2. CASE GatewayReads
  <2>1. LinkTypeOK' /\ lost' = lost
    BY <1>2, ReadingKeeps DEF GatewayReads
  <2>2. UserAccounts'
    BY <1>1, <1>2, <2>1, ReadingKeeps DEF UserAccounts, Upto
  <2>3. UserBudget'
    BY <1>1, <1>2, ReadingKeeps DEF UserBudget
  <2> QED  BY <1>1, <2>1, <2>2, <2>3
<1>3. CASE LinkBreaks
  <2>1. /\ wire' = <<>> /\ got' = got /\ lost' = lost \cup ToSet(wire) /\ restarts' = restarts
        /\ breaks' = breaks + 1 /\ breaks < MaxBreaks /\ posted' = posted /\ link' = "dead"
    BY <1>3 DEF LinkBreaks, Fault
  <2>2. wire \in Seq(Item) /\ ToSet(wire) \subseteq Item
    BY DEF LinkTypeOK, ToSet
  <2>3. LinkTypeOK'
    BY <2>1, <2>2, Counted DEF LinkTypeOK
  <2>4. UserAccounts'
    BY <1>1, <2>1 DEF UserAccounts, Upto
  <2>5. UserBudget'
    <3> SUFFICES ASSUME NEW i \in Item
                 PROVE  Held(i)' + One(i \in handlers') <= One(i <= posted')
      BY DEF UserBudget
    <3>1. Held(i)' <= Held(i) /\ Held(i)' \in Nat /\ Held(i) \in Nat
      BY <2>1, CutKeeps, HeldType
    <3>2. Held(i) + One(i \in handlers) <= One(i <= posted)
      BY DEF UserBudget
    <3>3. One(i \in handlers) \in Nat /\ One(i <= posted) \in Nat
      BY DEF One
    <3> QED  BY <1>1, <3>1, <3>2, <3>3
  <2> QED  BY <1>1, <2>3, <2>4, <2>5
<1> QED  BY <1>2, <1>3

LEMMA UserReceives == ASSUME LinkTypeOK, UserInv, UserPosts PROVE LinkTypeOK' /\ UserInv'
<1> USE DEF UserInv
<1>1. /\ posted \in Nat /\ posted < MaxItems /\ posted' = posted + 1
      /\ got' = got /\ wire' = wire /\ client' = client
      /\ link' = link /\ breaks' = breaks /\ restarts' = restarts
  BY DEF UserPosts, LinkTypeOK
<1>2. posted' \in Item /\ posted' \in 0..MaxItems
  BY <1>1, IntakeNumbers DEF Item
<1>3. \/ handlers' = handlers \cup {posted'} /\ lost' = lost
      \/ handlers' = handlers /\ lost' = lost \cup {posted'}
  BY DEF UserPosts
<1>4. LinkTypeOK' /\ UserTypeOK'
  BY <1>1, <1>2, <1>3 DEF LinkTypeOK, UserTypeOK
<1>5. UserAccounts'
  <2> SUFFICES ASSUME NEW i \in Item, i <= posted'
               PROVE  got[i] > 0 \/ i \in ToSet(wire) \cup lost' \cup handlers'
    BY <1>1 DEF UserAccounts, Upto
  <2>1. i = posted' \/ i <= posted
    BY <1>1, IntakeNumbers
  <2> QED  BY <2>1, <1>3 DEF UserAccounts, Upto
<1>6. UserBudget'
  <2> SUFFICES ASSUME NEW i \in Item
               PROVE  Held(i)' + One(i \in handlers') <= One(i <= posted')
    BY DEF UserBudget
  <2>1. Held(i)' = Held(i) /\ Held(i) \in Nat
    BY <1>1, HeldSame, HeldType
  <2>2. Held(i) + One(i \in handlers) <= One(i <= posted)
    BY DEF UserBudget
  <2>3. CASE i = posted'
    <3>1. One(i <= posted) = 0 /\ One(i <= posted') = 1 /\ One(i \in handlers) \in Nat
          /\ One(i \in handlers') \in 0..1
      BY <2>3, <1>1 DEF One
    <3> QED  BY <2>1, <2>2, <3>1
  <2>4. CASE i # posted'
    <3>1. One(i <= posted') = One(i <= posted) /\ One(i \in handlers') = One(i \in handlers)
      BY <2>4, <1>1, <1>3, IntakeNumbers DEF One
    <3> QED  BY <2>1, <2>2, <3>1
  <2> QED  BY <2>3, <2>4
<1> QED  BY <1>4, <1>5, <1>6

LEMMA UserWrites ==
    ASSUME LinkTypeOK, UserInv, NEW x \in Item, OnNewMessage(x)
    PROVE  LinkTypeOK' /\ UserInv'
<1> USE DEF UserInv
<1>1. /\ Writes(x) /\ got' = got /\ posted' = posted /\ breaks' = breaks /\ restarts' = restarts
      /\ link' = link /\ x \in handlers /\ handlers' = handlers \ {x} /\ client' = client
  BY DEF OnNewMessage
<1>2. /\ wire' \in Seq(Item) /\ lost' \subseteq Item
      /\ ToSet(wire') \cup lost' = ToSet(wire) \cup lost \cup {x}
      /\ \A i \in Item : Held(i)' <= Held(i) + One(i = x)
  BY <1>1, WritingKeeps
<1>3. LinkTypeOK' /\ UserTypeOK'
  BY <1>1, <1>2 DEF LinkTypeOK, UserTypeOK
<1>4. UserAccounts'
  BY <1>1, <1>2 DEF UserAccounts, Upto
<1>5. UserBudget'
  <2> SUFFICES ASSUME NEW i \in Item
               PROVE  Held(i)' + One(i \in handlers') <= One(i <= posted')
    BY DEF UserBudget
  <2>1. Held(i)' <= Held(i) + One(i = x) /\ Held(i) \in Nat /\ Held(i)' \in Nat
    <3>1. Occurs(wire', i) \in Nat /\ got'[i] \in Nat
      BY <1>2, <1>1, OccursType DEF LinkTypeOK
    <3> QED  BY <1>2, <3>1, HeldType DEF Held
  <2>2. Held(i) + One(i \in handlers) <= One(i <= posted)
    BY DEF UserBudget
  <2>3. One(i \in handlers') + One(i = x) = One(i \in handlers)
        /\ One(i \in handlers') \in Nat /\ One(i = x) \in Nat /\ One(i <= posted) \in Nat
    BY <1>1 DEF One
  <2> QED  BY <1>1, <2>1, <2>2, <2>3
<1> QED  BY <1>3, <1>4, <1>5

LEMMA UserKeeps ==
    ASSUME LinkTypeOK, UserInv, UserStep \/ UserFault
    PROVE  LinkTypeOK' /\ UserInv'
<1> USE DEF UserInv
<1>1. CASE UserConnects
  <2>1. /\ posted' = posted /\ wire' = wire /\ got' = got /\ lost' = lost
        /\ handlers' = handlers /\ LinkTypeOK' /\ UserTypeOK'
    BY <1>1 DEF UserConnects, LinkTypeOK, UserTypeOK
  <2> QED  BY <2>1, HeldSame DEF UserAccounts, UserBudget, Upto
<1>2. ASSUME NEW x \in Item, OnNewMessage(x) PROVE LinkTypeOK' /\ UserInv'
  BY <1>2, UserWrites
<1>3. CASE ClientEnds
  <2>1. /\ posted' = posted /\ wire' = wire /\ got' = got /\ lost' = lost
        /\ handlers' = handlers /\ link' = "none" /\ client' = FALSE
        /\ breaks < MaxBreaks /\ breaks' = breaks + 1 /\ restarts' = restarts
    BY <1>3 DEF ClientEnds, Fault
  <2>2. LinkTypeOK' /\ UserTypeOK'
    BY <2>1, Counted DEF LinkTypeOK, UserTypeOK
  <2> QED  BY <2>1, <2>2, HeldSame DEF UserAccounts, UserBudget, Upto
<1>4. CASE UserRestarts
  <2>1. /\ posted' = posted /\ wire' = <<>> /\ got' = got /\ handlers' = {}
        /\ lost' = lost \cup ToSet(wire) \cup handlers /\ link' = "none" /\ client' = FALSE
        /\ breaks < MaxBreaks /\ breaks' = breaks + 1 /\ restarts' = restarts + 1
    BY <1>4 DEF UserRestarts, StackEnds, Fault
  <2>2. lost' \subseteq Item /\ wire' \in Seq(Item)
    BY <2>1 DEF LinkTypeOK, UserTypeOK, ToSet
  <2>3. LinkTypeOK' /\ UserTypeOK'
    BY <2>1, <2>2, Counted DEF LinkTypeOK, UserTypeOK
  <2>4. UserAccounts'
    BY <2>1 DEF UserAccounts, Upto
  <2>5. UserBudget'
    <3> SUFFICES ASSUME NEW i \in Item
                 PROVE  Held(i)' + One(i \in handlers') <= One(i <= posted')
      BY DEF UserBudget
    <3>1. Held(i)' <= Held(i) /\ Held(i)' \in Nat /\ Held(i) \in Nat
      BY <2>1, CutKeeps, HeldType
    <3>2. Held(i) + One(i \in handlers) <= One(i <= posted)
      BY DEF UserBudget
    <3>3. One(i \in handlers) \in Nat /\ One(i <= posted) \in Nat /\ One(i \in handlers') = 0
      BY <2>1 DEF One
    <3> QED  BY <2>1, <3>1, <3>2, <3>3
  <2> QED  BY <2>3, <2>4, <2>5
<1> QED  BY <1>1, <1>2, <1>3, <1>4 DEF UserStep, UserFault

(* The processes together: a behaviour is about one of them.               *)
LEMMA IntakeInvInit == Init => IntakeInv
<1> SUFFICES ASSUME Init PROVE IntakeInv
  OBVIOUS
<1>1. /\ posted = 0 /\ wire = <<>> /\ got = [i \in Item |-> 0] /\ LinkTypeOK
  BY IntakeNumbers DEF Init, LinkInit, LinkTypeOK
<1>2. \A i \in Item : Held(i) = 0 /\ One(i <= 0) = 0 /\ ~(i <= 0)
  BY <1>1, OccursEmpty, IntakeNumbers DEF Held, One, Item
<1>3. BotInv
  <2>1. Cursor = 0 /\ batch = <<>> /\ hand = 0 /\ poll = "off" /\ restarts = 0
    BY DEF Init, LinkInit, BotInit, Cursor
  <2>2. BotTypeOK /\ BotShape
    BY <2>1, IntakeNumbers DEF Init, BotInit, BotTypeOK, BotShape
  <2>3. BotAccounts /\ BotBudget
    BY <1>2, <2>1, IntakeNumbers DEF BotAccounts, BotBudget, Upto, Cursor, One
  <2> QED  BY <2>2, <2>3 DEF BotInv
<1>4. GmailInv
  <2>1. stored = 0 /\ high = 0 /\ todo = <<>> /\ imap = "off"
        /\ looked = FALSE /\ skipped = {} /\ late = {} /\ Reached = 0 /\ breaks = 0
    BY DEF Init, LinkInit, GmailInit, Reached
  <2>2. GmailTypeOK /\ GmailShape /\ SnapshotShape
    <3>1. DOMAIN todo = {} /\ todo \in Seq(Item)
      BY <2>1
    <3>2. GmailTypeOK
      <4>1. looked \in BOOLEAN /\ skipped \subseteq Item /\ late \subseteq Item
        BY <2>1
      <4>2. {stored, high} \subseteq 0..MaxItems
        BY <2>1, IntakeNumbers
      <4> QED  BY <2>1, <3>1, <4>1, <4>2 DEF GmailTypeOK
    <3>3. GmailShape
      BY <1>1, <2>1, <3>1 DEF GmailShape, LinkTypeOK
    <3>4. SnapshotShape
      BY <2>1 DEF SnapshotShape
    <3> QED  BY <3>2, <3>3, <3>4
  <2>3. MailAccounted /\ GmailBudget
    BY <1>2, <2>1, OccursEmpty DEF MailAccounted, GmailBudget, Upto, One
  <2> QED  BY <2>2, <2>3 DEF GmailInv
<1>5. UserInv
  <2>1. client = FALSE /\ handlers = {} /\ posted = 0
    BY DEF Init, UserInit, LinkInit
  <2>2. UserTypeOK
    BY <2>1 DEF UserTypeOK
  <2>3. UserAccounts
    BY <1>2, <2>1 DEF UserAccounts, Upto
  <2>4. UserBudget
    <3> SUFFICES ASSUME NEW i \in Item PROVE Held(i) + One(i \in handlers) <= One(i <= posted)
      BY DEF UserBudget
    <3>1. Held(i) = 0 /\ One(i \in handlers) = 0 /\ One(i <= posted) = 0
      BY <1>2, <2>1 DEF One
    <3> QED  BY <3>1
  <2> QED  BY <2>2, <2>3, <2>4 DEF UserInv
<1> QED  BY <1>1, <1>3, <1>4, <1>5 DEF IntakeInv

LEMMA IntakeInvStep == IntakeInv /\ [Next]_vars => IntakeInv'
<1> SUFFICES ASSUME IntakeInv, [Next]_vars PROVE IntakeInv'
  OBVIOUS
<1>1. which' = which /\ LinkTypeOK
  BY DEF Next, vars, ItemComes, LinkMoves, Bot, Gmail, User, Sender, IntakeInv
<1>2. CASE UNCHANGED linkVars /\ UNCHANGED botVars /\ UNCHANGED gmailVars /\ UNCHANGED userVars
  <2>1. \A i \in Item : Held(i)' = Held(i)
    BY <1>2, HeldSame DEF linkVars
  <2>2. LinkTypeOK'
    BY <1>1, <1>2 DEF linkVars, LinkTypeOK
  <2>3. BotInv => BotInv'
    BY <1>2, <2>1 DEF linkVars, botVars, BotInv, BotTypeOK, BotShape, BotAccounts, BotBudget, Cursor
  <2>4. GmailInv => GmailInv'
    BY <1>2, <2>1 DEF linkVars, gmailVars, passed, GmailInv, GmailTypeOK, GmailShape,
                      SnapshotShape, MailAccounted, GmailBudget, Reached, Upto
  <2>5. UserInv => UserInv'
    BY <1>2, <2>1 DEF linkVars, userVars, UserInv, UserTypeOK, UserAccounts, UserBudget
  <2> QED  BY <1>1, <2>2, <2>3, <2>4, <2>5 DEF IntakeInv
<1>3. CASE which = "bot"
  <2>1. BotInv
    BY <1>3 DEF IntakeInv
  <2>2. \/ UNCHANGED linkVars /\ UNCHANGED botVars /\ UNCHANGED gmailVars /\ UNCHANGED userVars
        \/ BotStep \/ BotFault
        \/ UNCHANGED botVars /\ (Posts \/ GatewayReads \/ LinkBreaks)
    BY <1>3 DEF Next, vars, ItemComes, LinkMoves, Bot, Gmail, User, Sender
  <2> QED  BY <1>1, <1>2, <1>3, <2>1, <2>2, BotKeeps, BotLink DEF IntakeInv
<1>4. CASE which = "gmail"
  <2>1. GmailInv
    BY <1>4 DEF IntakeInv
  <2>2. \/ UNCHANGED linkVars /\ UNCHANGED botVars /\ UNCHANGED gmailVars /\ UNCHANGED userVars
        \/ GmailStep \/ GmailFault
        \/ UNCHANGED gmailVars /\ (Posts \/ GatewayReads \/ LinkBreaks)
    BY <1>4 DEF Next, vars, ItemComes, LinkMoves, Bot, Gmail, User, Sender
  <2> QED  BY <1>1, <1>2, <1>4, <2>1, <2>2, GmailKeeps, GmailLink DEF IntakeInv
<1>5. CASE which = "user"
  <2>1. UserInv
    BY <1>5 DEF IntakeInv
  <2>2. \/ UNCHANGED linkVars /\ UNCHANGED botVars /\ UNCHANGED gmailVars /\ UNCHANGED userVars
        \/ UserStep \/ UserFault \/ UserPosts
        \/ UNCHANGED userVars /\ (GatewayReads \/ LinkBreaks)
    BY <1>5 DEF Next, vars, ItemComes, LinkMoves, Bot, Gmail, User, Sender
  <2> QED  BY <1>1, <1>2, <1>5, <2>1, <2>2, UserKeeps, UserLink, UserReceives DEF IntakeInv
<1>6. CASE which \notin Intakes
  <2>1. UNCHANGED linkVars /\ UNCHANGED botVars /\ UNCHANGED gmailVars /\ UNCHANGED userVars
    BY <1>6 DEF Next, vars, ItemComes, LinkMoves, Bot, Gmail, User, Sender, Intakes
  <2> QED  BY <1>2, <2>1
<1> QED  BY <1>3, <1>4, <1>5, <1>6 DEF Intakes

(* Whatever breaks, and however often, an item behind the cursor of its    *)
(* connector was read by the gateway, is on its way, or is known to have   *)
(* fallen to a fault; a mail was there at the first snapshot, or fell to a *)
(* later one of a mailbox that was empty at the first.                     *)
THEOREM ItemsAreAccounted == Spec => []Accounted
<1>1. IntakeInv => Accounted
  <2> SUFFICES ASSUME IntakeInv PROVE Accounted
    OBVIOUS
  <2>1. ASSUME GmailInv PROVE GmailAccounts
    <3> SUFFICES ASSUME NEW i \in Item, i <= stored
                 PROVE  \/ got[i] > 0 \/ i \in ToSet(wire) \cup lost \cup skipped
                        \/ i \in late /\ skipped = {} /\ breaks > 0
      BY DEF GmailAccounts, Upto
    <3>1. i <= Reached /\ ~(i > stored)
      BY <2>1, IntakeNumbers DEF GmailInv, GmailShape, GmailTypeOK, Reached
    <3> QED  BY <2>1, <3>1 DEF GmailInv, MailAccounted, SnapshotShape, Upto
  <2> QED  BY <2>1 DEF IntakeInv, Accounted, BotInv, UserInv
<1> QED  BY IntakeInvInit, IntakeInvStep, <1>1, PTL DEF Spec

(* The gateway reads an item once, and once more for each fault of the     *)
(* kind that its connector's cursor does not outlive.                      *)
THEOREM RepeatsAreBounded == Spec => []RepeatsBounded
<1>1. IntakeInv => RepeatsBounded
  <2> SUFFICES ASSUME IntakeInv, NEW i \in Item
               PROVE  got[i] <= 1 + CASE which = "bot" -> restarts
                                      [] which = "gmail" -> breaks
                                      [] OTHER -> 0
    BY DEF RepeatsBounded
  <2>1. got[i] \in Nat /\ got[i] <= Held(i) /\ Held(i) \in Nat /\ restarts \in Nat
          /\ breaks \in Nat
    BY HeldType, IntakeNumbers DEF IntakeInv, LinkTypeOK
  <2>2. One(hand = i) \in Nat /\ One(i \in ToSet(todo)) \in Nat /\ One(i \in handlers) \in Nat
        /\ One(i <= Cursor) <= 1 /\ One(i <= Reached) <= 1 /\ One(i <= posted) <= 1
        /\ One(i <= Cursor) \in Nat /\ One(i <= Reached) \in Nat /\ One(i <= posted) \in Nat
    BY DEF One
  <2>3. CASE which = "bot"
    <3>1. Held(i) + One(hand = i) <= restarts + One(i <= Cursor)
      BY <2>3 DEF IntakeInv, BotInv, BotBudget
    <3>2. got[i] <= 1 + restarts
      BY <2>1, <2>2, <3>1
    <3> QED  BY <2>3, <3>2
  <2>4. CASE which = "gmail"
    <3>1. Held(i) + One(i \in ToSet(todo)) <= breaks + One(i <= Reached)
      BY <2>4 DEF IntakeInv, GmailInv, GmailBudget
    <3>2. got[i] <= 1 + breaks
      BY <2>1, <2>2, <3>1
    <3> QED  BY <2>4, <3>2
  <2>5. CASE which \notin {"bot", "gmail"}
    <3>1. Held(i) + One(i \in handlers) <= One(i <= posted)
      BY <2>5 DEF IntakeInv, UserInv, UserBudget
    <3>2. got[i] <= 1 + 0
      BY <2>1, <2>2, <3>1
    <3> QED  BY <2>5, <3>2
  <2> QED  BY <2>3, <2>4, <2>5
<1> QED  BY IntakeInvInit, IntakeInvStep, <1>1, PTL DEF Spec
=============================================================================
