---------------------------- MODULE GmailWatch ----------------------------
(***************************************************************************)
(* umabot/connectors/gmail_connector.py: one IMAP session inside one       *)
(* websocket.  It sleeps in IDLE until a push or 25 minutes, searches for  *)
(* UIDs above last_uid, forwards each mail and stores the highest.  The    *)
(* websocket is written to and never read: that it is dead is not noticed, *)
(* and a mail that could not be sent counts as seen.                       *)
(***************************************************************************)
EXTENDS ConnectorLink

VARIABLES
    stored,      \* gmail_imap_state.last_uid, 0 without a row; the loop's
                 \* own last_uid is read from it and written with it
    todo,        \* UIDs found and not yet forwarded
    high,        \* the highest UID found
    looked,      \* history: has a snapshot been taken?
    skipped,     \* history: mail that the first snapshot has passed over
    late,        \* history: mail that a later snapshot has passed over
    imap         \* where _imap_idle_loop is

passed == <<looked, skipped, late>>
gmailVars == <<stored, todo, high, passed, imap>>

GmailTypeOK ==
    /\ {stored, high} \subseteq 0..MaxItems
    /\ todo \in Seq(Item)
    /\ looked \in BOOLEAN /\ skipped \subseteq Item /\ late \subseteq Item
    /\ imap \in {"off", "login", "idle", "search", "each"}

GmailInit ==
    /\ stored = 0 /\ high = 0
    /\ todo = <<>> /\ imap = "off"
    /\ looked = FALSE /\ skipped = {} /\ late = {}

(* run: the websocket is up; a failure backs off and leaves nothing.       *)
GmailConnects ==
    /\ imap = "off" /\ link = "none"
    /\ link' = "up"
    /\ imap' = "login"
    /\ UNCHANGED <<posted, wire, got, lost, breaks, restarts, stored,
                   todo, high, passed>>

(* Without a last_uid the mail that is there now is passed over.  What was *)
(* there at the first snapshot is meant to be; a mailbox empty at that     *)
(* time leaves last_uid 0, and the next login takes a snapshot again.      *)
Snapshot ==
    /\ stored' = posted
    /\ looked' = TRUE
    /\ IF looked THEN late' = late \cup Upto(posted) /\ UNCHANGED skipped
       ELSE skipped' = Upto(posted) /\ UNCHANGED late

(* Logged in and selected.                                                 *)
Login ==
    /\ imap = "login"
    /\ imap' = "idle"
    /\ IF stored = 0 THEN Snapshot ELSE UNCHANGED <<stored, passed>>
    /\ UNCHANGED <<linkVars, todo, high>>

SnapshotFails ==
    /\ imap = "login" /\ stored = 0 /\ Fault
    /\ imap' = "idle"
    /\ UNCHANGED <<posted, link, wire, got, lost, restarts, stored, todo,
                   high, passed>>

(* A push, or the timeout of 25 minutes.                                   *)
Wake ==
    /\ imap = "idle"
    /\ imap' = "search"
    /\ UNCHANGED <<linkVars, stored, todo, high, passed>>

(* uid_search for last_uid + 1 and above.                                  *)
Search ==
    /\ imap = "search"
    /\ todo' = Between(stored, posted)
    /\ high' = posted
    /\ imap' = "each"
    /\ UNCHANGED <<linkVars, stored, passed>>

SearchFails ==
    /\ imap = "search" /\ Fault
    /\ imap' = "idle"
    /\ UNCHANGED <<posted, link, wire, got, lost, restarts, stored,
                   todo, high, passed>>

(* One mail is fetched and sent; that sending failed is logged.            *)
Notify ==
    /\ imap = "each" /\ todo # <<>>
    /\ Writes(Head(todo))
    /\ todo' = Tail(todo)
    /\ UNCHANGED <<posted, link, got, breaks, restarts, stored, high,
                   passed, imap>>

Seen == high

(* After the batch its highest UID is the last one, here and in the db.    *)
Store ==
    /\ imap = "each" /\ todo = <<>>
    /\ stored' = Seen
    /\ imap' = "idle"
    /\ UNCHANGED <<linkVars, todo, high, passed>>

(* The loop ends (no credentials, no login, an error of the server) at any *)
(* point, and run closes the websocket: what was written is still read.    *)
ImapEnds ==
    /\ imap # "off" /\ Fault
    /\ imap' = "off"
    /\ link' = "none"
    /\ todo' = <<>>
    /\ UNCHANGED <<posted, wire, got, lost, restarts, stored, high,
                   passed>>

GmailRestarts ==
    /\ StackEnds({})
    /\ high' = 0 /\ todo' = <<>> /\ imap' = "off"
    /\ UNCHANGED <<stored, passed>>

GmailStep ==
    \/ GmailConnects \/ Login \/ Wake
    \/ Search \/ Notify \/ Store

GmailFault == SnapshotFails \/ SearchFails \/ ImapEnds \/ GmailRestarts

(* Mail behind the stored UID was read, is on the wire, was there at the   *)
(* first snapshot or was written to a socket that was dead.  To a later    *)
(* snapshot it fell only if the first one had found the mailbox empty and  *)
(* a fault ended that session before anything was stored.                  *)
GmailAccounts ==
    \A i \in Upto(stored) :
        \/ got[i] > 0 \/ i \in ToSet(wire) \cup lost \cup skipped
        \/ i \in late /\ skipped = {} /\ breaks > 0
=============================================================================
