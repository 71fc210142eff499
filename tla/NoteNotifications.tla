-------------------------- MODULE NoteNotifications --------------------------
(***************************************************************************)
(* Payment links together with their push notifications.  pushNotifier.ts  *)
(* listens to the note index once the API has started: for every note a    *)
(* load has handled it writes a row per message to the database, where a   *)
(* row written before says the message was sent, and then sends what is    *)
(* new.  The rows of a call are written concurrently.  A message is known  *)
(* by its addressee and its key; texts and other listeners are left out.   *)
(***************************************************************************)
EXTENDS EphemeralNotes

CONSTANT Phones    \* the accounts that have the app

ASSUME PhonesAssumption == Phones \subseteq Accounts

VARIABLES
    notifier,      \* whether the listeners are added and the tokens loaded
    tokens,        \* pushTokens: accounts with a token in memory
    savedTokens,   \* accounts with a token in the database
    queue,         \* queue[m]: how many writes of m are under way
    rows,          \* push_notification: messages written
    told           \* told[m]: how often m was sent

pushVars == <<notifier, tokens, savedTokens, queue, rows, told>>
allVars == <<vars, pushVars>>

Message == [to : Accounts, kind : {"confirmed", "claimed", "cancelled"}, owner : Owners]
             \cup [to : Accounts, kind : {"welcome"}]

PushTypeOK ==
    /\ notifier \in {"off", "listening", "ready"}
    /\ tokens \subseteq Phones /\ savedTokens \subseteq Phones
    /\ queue \in [Message -> Nat] /\ \A m \in Message : queue[m] > 0 => m.to \in Phones
    /\ rows \subseteq Message
    /\ told \in [Message -> Nat]

AllTypeOK == TypeOK /\ PushTypeOK

PushInit ==
    /\ notifier = "ready" /\ tokens = {} /\ savedTokens = {}
    /\ queue = [m \in Message |-> 0] /\ rows = {}
    /\ told = [m \in Message |-> 0]

\* Slip: an account is told whether or not it has the app.
PushToAny(a, kind, o) == {[to |-> a, kind |-> kind, owner |-> o]}
\* getPushNotifs: an account without a token gets no message.
PushTo(a, kind, o) ==
    IF a \in tokens THEN {[to |-> a, kind |-> kind, owner |-> o]} ELSE {}

\* getPushNotifsFromNoteOps for note i.
PushesOf(i) ==
    LET o == chain[i].owner
        sender == PushTo(chain[i].from, status[i], o)
    IN  IF status[i] = "claimed" THEN sender \cup PushTo(claimer[i], status[i], o) ELSE sender

\* Its assertions on the claimer of a note.
Asserts(i) ==
    /\ status[i] = "claimed" => claimer[i] \notin {Nobody, chain[i].from}
    /\ status[i] = "cancelled" => claimer[i] = chain[i].from

\* How often the notes handled by l bring message m.
Pushes(l, m) == Cardinality({k \in 1..Len(l.done) : m \in PushesOf(l.done[k])})

\* The index tells its listeners what it has handled, as it now stands.
EndAndNotify(l) ==
    /\ EndLoad(l)
    /\ notifier # "off" => \A k \in 1..Len(l.done) : Asserts(l.done[k])
    /\ queue' = IF notifier = "off" THEN queue
                ELSE [m \in Message |-> queue[m] + Pushes(l, m)]
    /\ UNCHANGED <<notifier, tokens, savedTokens, rows, told>>

Forget ==
    /\ notifier' = "off" /\ tokens' = {} /\ queue' = [m \in Message |-> 0]
    /\ UNCHANGED <<savedTokens, rows, told>>

\* An assertion of handleNoteOps fails: nobody awaits it, and the process ends.
EndAndCrash(l) ==
    /\ l.at > l.last /\ notifier # "off" /\ \E k \in 1..Len(l.done) : ~Asserts(l.done[k])
    /\ Reset /\ UNCHANGED restarts
    /\ Forget

\* init: the listeners are added once the index has caught up with the tip read at boot ...
Listen ==
    /\ notifier = "off" /\ taken >= boot /\ \A l \in loads : l.last > boot
    /\ notifier' = "listening"
    /\ UNCHANGED <<vars, tokens, savedTokens, queue, rows, told>>

\* ... and the tokens are loaded.
LoadTokens ==
    /\ notifier = "listening"
    /\ notifier' = "ready" /\ tokens' = tokens \cup savedTokens
    /\ UNCHANGED <<vars, savedTokens, queue, rows, told>>

\* register: the token is cached, saved, and a message sent, all at once (a phone asks
\* again, but not while its token is cached) ...
Register(a) ==
    /\ a \notin tokens
    /\ tokens' = tokens \cup {a}
    /\ queue' = [queue EXCEPT ![[to |-> a, kind |-> "welcome"]] = @ + 1]
    /\ UNCHANGED <<vars, notifier, savedTokens, rows, told>>

\* ... or, as the row shows, in any order.
SaveToken(a) ==
    /\ a \in tokens \ savedTokens
    /\ savedTokens' = savedTokens \cup {a}
    /\ UNCHANGED <<vars, notifier, tokens, queue, rows, told>>

\* Slip: a message is sent whether or not its row was there.
Resent(m) == TRUE
\* An insert that changes no row means that the message was sent before.
Unsent(m) == m \notin rows

\* maybeSendNotifications: tryInsertPushNotification, then _sendExpoNotifications, which
\* may fail, or never happen because the API stops.
Push(m) ==
    /\ queue[m] > 0
    /\ queue' = [queue EXCEPT ![m] = @ - 1]
    /\ rows' = rows \cup {m}
    /\ \/ Unsent(m) /\ told' = [told EXCEPT ![m] = @ + 1]
       \/ UNCHANGED told
    /\ UNCHANGED <<vars, notifier, tokens, savedTokens>>

AllInit == Init /\ PushInit

AllNext ==
    \/ /\ \/ Outside
          \/ \E n \in Index : BeginLoad(n)
          \/ \E l \in loads : Handle(l)
       /\ UNCHANGED pushVars
    \/ \E l \in loads : EndAndNotify(l) \/ EndAndCrash(l)
    \/ Restart /\ Forget
    \/ Listen \/ LoadTokens
    \/ \E m \in Message : Push(m)
    \/ \E a \in Phones : Register(a) \/ SaveToken(a)

AllSpec == AllInit /\ [][AllNext]_allVars

\* The watcher keeps loading, and the lookup of a name answers, with or without a name.
AllFairSpec ==
    /\ AllSpec
    /\ WF_allVars((\E n \in Index : BeginLoad(n)) /\ UNCHANGED pushVars)
    /\ WF_allVars(\E l \in loads : \/ Handle(l) /\ UNCHANGED pushVars
                                   \/ EndAndNotify(l) \/ EndAndCrash(l))

------------------------------------------------------------------------------
(* Properties *)

\* Nobody is told the same thing twice, though every restart handles every log again, one
\* load may handle a note twice, and a message is written and sent in separate steps.
NotifiedOnce == \A m \in Message : told[m] <= 1

\* What is told has happened: a message about a new note goes to an account that made one
\* for its owner, and one about a redemption says how a note of that owner was redeemed and
\* goes to the account that did it or to one that made a note.
ToldWhatHappened ==
    \A m \in Message : told[m] > 0 /\ m.kind # "welcome" =>
        LET logs == {chain[i] : i \in OwnerLogs(m.owner, Len(chain))}
            redeemed == {c \in logs : c.redeemer # Nobody}
            sender == \E c \in logs : c.from = m.to
        IN  CASE m.kind = "confirmed" -> sender
              [] m.kind = "claimed"   -> \E c \in redeemed : /\ c.redeemer # c.from
                                                             /\ sender \/ c.redeemer = m.to
              [] m.kind = "cancelled" -> \E c \in redeemed : c.redeemer = c.from

\* Messages are true, and none is sent again.
NotifiedRightly == NotifiedOnce /\ ToldWhatHappened

=============================================================================
