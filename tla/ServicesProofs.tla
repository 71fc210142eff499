--------------------------- MODULE ServicesProofs ---------------------------
(***************************************************************************)
(* Proofs about the parts that wait for a service outside the repository:  *)
(* LandlineTransfers, for any transfers and any number of overlapping      *)
(* syncs, TxSender, for any calls, attempts and restarts, and FastCCTP,    *)
(* for any accounts, transfers and amounts.  They share no state.  A phone *)
(* shows one row for each transaction of a bank transfer; no call that has *)
(* returned is executed again, and the sender implements what ChainCalls   *)
(* promises; no claim of a transfer takes the money of another.            *)
(***************************************************************************)
EXTENDS LandlineTransfers, TxSender, FastCCTP, FiniteSetTheorems, SequenceTheorems, TLAPS

-----------------------------------------------------------------------------
(* LandlineTransfers: the inductive invariant *)

\* A deposit is mined after Landline has begun it; a withdrawal is known to Landline, with
\* its transaction, once that is mined.
BankTrue ==
    /\ \A x \in Bank : bank[x].status = "none" => bank[x] = Unknown
    /\ \A d \in Deposits : minedAt[d] # 0 => bank[d].created \in 1..minedAt[d] - 1
    /\ \A w \in Withdrawals : bank[w] # Unknown =>
          bank[w].hash /\ minedAt[w] \in 1..bank[w].created
    /\ \A d \in depositing : bank[d] # Unknown

\* The transfer logs between the block a sync starts from and its last block.
InRange(s, x) == minedAt[x] \in sync[s].since..sync[s].lastBlock /\ minedAt[x] # 0
LogsOf(s) == {LogClog(x) : x \in {y \in Bank : InRange(s, y)}}

\* What Landline told of x is what it knows of x now, or something earlier; what it did not
\* know then was created no earlier than the sync's first block.
Earlier(r, x, since) ==
    IF r = Unknown THEN bank[x] = Unknown \/ bank[x].created >= since
    ELSE /\ bank[x] # Unknown /\ r.created = bank[x].created /\ r.status # "none"
         /\ x \in Withdrawals => r.hash

Told(s, told) ==
    /\ sync[s].logs = Join(LogsOf(s), told)
    /\ \A x \in Bank : Earlier(told[x], x, sync[s].since)

SyncTrue(s) ==
    /\ sync[s].pc # "idle" => sync[s].since <= final /\ (~behind => sync[s].since <= lastFinalized)
    /\ sync[s].pc \in {"read", "answered"} =>
          /\ sync[s].lastBlock <= indexed /\ sync[s].fin <= sync[s].lastBlock
          /\ sync[s].fin <= final
    /\ sync[s].pc = "read" => sync[s].logs = LogsOf(s)
    /\ sync[s].pc = "answered" => \E told \in [Bank -> Record] : Told(s, told)

SyncsTrue == lastFinalized <= lastBlock /\ \A s \in Syncs : SyncTrue(s)

\* Rows of bank transfers have the time Landline gives them; a withdrawal's is there only
\* before its log is, unless an answer came late.
RowsTrue ==
    /\ \A c \in recent : c.kind = "log" => c.mark # "pending"
    /\ \A c \in recent : c.kind = "bank" =>
          /\ bank[c.of] # Unknown /\ c.time = bank[c.of].created
          /\ c.of \in Withdrawals => c.hash /\ (~behind => minedAt[c.of] > lastBlock)
    /\ \A c, d \in recent : c.kind = "log" /\ d.kind = "log" /\ c.of = d.of => c = d

\* EveryTxIsOneRow, without a count.
OneRow ==
    ~behind =>
        \A x \in Bank : minedAt[x] \in 1..lastBlock =>
            \E c : {d \in Shown(x) : d.hash} = {c}

LandlineInv == BankTrue /\ SyncsTrue /\ RowsTrue /\ OneRow

-----------------------------------------------------------------------------
(* Rows and what an answer brings *)

LEMMA MaxOfTwo ==
  ASSUME NEW S, NEW a \in Int, NEW b \in Int, S # {}, \A o \in S : o.time \in {a, b}
  PROVE  \E o \in S : \A p \in S : p.time <= o.time
<1>1. PICK o \in S : TRUE
  OBVIOUS
<1>2. CASE \A p \in S : p.time <= o.time
  BY <1>1, <1>2
<1>3. CASE \E p \in S : ~(p.time <= o.time)
  <2>1. PICK p \in S : ~(p.time <= o.time)
    BY <1>3
  <2>2. \A q \in S : q.time <= p.time
    BY <2>1
  <2> QED
    BY <2>2
<1> QED
  BY <1>2, <1>3

\* Bank transfers that Landline knows were created while there was a block.
LEMMA Created ==
  ASSUME LandlineTypeOK, NEW x \in Bank, bank[x] # Unknown
  PROVE  bank[x].created \in 1..tip /\ bank[x].created \in 1..MaxBlock
BY LandlineAssumption DEF LandlineTypeOK, LandlineAssumption, Blocks, Record

\* The rows an answer has for x, when the bank's side of it is r.
New(s, x, r) ==
    IF InRange(s, x) /\ r # Unknown /\ r.hash THEN {[LogClog(x) EXCEPT !.offchain = r.status]}
    ELSE {n \in {LogClog(x)} : InRange(s, x)} \cup {n \in {BankClog(x, r)} : r # Unknown}

LEMMA LogFields ==
  ASSUME NEW x, NEW v
  PROVE  /\ LogClog(x).of = x /\ LogClog(x).kind = "log" /\ LogClog(x).hash
         /\ LogClog(x).time = minedAt[x] /\ LogClog(x).mark = "confirmed"
         /\ LogClog(x).offchain = "none"
         /\ [LogClog(x) EXCEPT !.offchain = v].of = x
         /\ [LogClog(x) EXCEPT !.offchain = v].kind = "log"
         /\ [LogClog(x) EXCEPT !.offchain = v].hash
         /\ [LogClog(x) EXCEPT !.offchain = v].time = minedAt[x]
         /\ [LogClog(x) EXCEPT !.offchain = v].mark = "confirmed"
         /\ [LogClog(x) EXCEPT !.offchain = v].offchain = v
BY DEF LogClog

LEMMA BankFields ==
  ASSUME NEW x, NEW r
  PROVE  /\ BankClog(x, r).of = x /\ BankClog(x, r).kind = "bank"
         /\ BankClog(x, r).hash = r.hash /\ BankClog(x, r).time = r.created
         /\ BankClog(x, r).mark = IF r.hash THEN "pending" ELSE "confirmed"
         /\ BankClog(x, r).offchain = r.status
BY DEF BankClog

LEMMA JoinIs ==
  ASSUME NEW s, NEW told \in [Bank -> Record]
  PROVE  Join(LogsOf(s), told) = UNION {New(s, x, told[x]) : x \in Bank}
<1> DEFINE L == LogsOf(s)
           matched(c) == told[c.of] # Unknown /\ told[c.of].hash
<1>1. \A x \in Bank : LogClog(x) \in L <=> InRange(s, x)
  BY LogFields DEF LogsOf
<1>2. \A c \in L : c.of \in Bank /\ c = LogClog(c.of) /\ InRange(s, c.of)
  BY LogFields DEF LogsOf
<1>3. \A y \in Bank : (\E c \in L : c.of = y /\ matched(c))
                       <=> InRange(s, y) /\ told[y] # Unknown /\ told[y].hash
  BY <1>1, <1>2, LogFields
<1> HIDE DEF L
<1>4. Join(L, told) = {IF matched(c) THEN [c EXCEPT !.offchain = told[c.of].status] ELSE c : c \in L}
          \cup {BankClog(x, told[x]) : x \in
                   {y \in Bank : told[y] # Unknown /\ ~\E c \in L : c.of = y /\ matched(c)}}
  BY DEF Join
<1>5. ASSUME NEW e \in Join(L, told) PROVE \E x \in Bank : e \in New(s, x, told[x])
  <2>1. CASE \E c \in L : e = IF matched(c) THEN [c EXCEPT !.offchain = told[c.of].status] ELSE c
    <3>1. PICK c \in L : e = IF matched(c) THEN [c EXCEPT !.offchain = told[c.of].status] ELSE c
      BY <2>1
    <3>2. e \in New(s, c.of, told[c.of])
      BY <1>2, <3>1 DEF New
    <3> QED
      BY <1>2, <3>2
  <2>2. CASE \E x \in Bank : /\ told[x] # Unknown /\ ~\E c \in L : c.of = x /\ matched(c)
                             /\ e = BankClog(x, told[x])
    <3>1. PICK x \in Bank : /\ told[x] # Unknown /\ ~\E c \in L : c.of = x /\ matched(c)
                            /\ e = BankClog(x, told[x])
      BY <2>2
    <3>2. e \in New(s, x, told[x])
      BY <1>3, <3>1 DEF New
    <3> QED
      BY <3>2
  <2> QED
    BY <1>4, <1>5, <2>1, <2>2
<1>6. ASSUME NEW x \in Bank, NEW e \in New(s, x, told[x]) PROVE e \in Join(L, told)
  <2>1. CASE InRange(s, x) /\ told[x] # Unknown /\ told[x].hash
    <3>1. matched(LogClog(x)) /\ e = [LogClog(x) EXCEPT !.offchain = told[LogClog(x).of].status]
      BY <1>6, <2>1, LogFields DEF New
    <3>2. LogClog(x) \in L
      BY <1>1, <2>1 DEF L
    <3> QED
      BY <1>4, <3>1, <3>2
  <2>2. CASE ~(InRange(s, x) /\ told[x] # Unknown /\ told[x].hash) /\ e = LogClog(x) /\ InRange(s, x)
    <3>1. ~matched(LogClog(x)) /\ LogClog(x) \in L
      BY <1>1, <2>2, LogFields DEF L
    <3> QED
      BY <1>4, <2>2, <3>1
  <2>3. CASE ~(InRange(s, x) /\ told[x] # Unknown /\ told[x].hash)
             /\ e = BankClog(x, told[x]) /\ told[x] # Unknown
    BY <1>3, <1>4, <2>3
  <2> QED
    BY <1>6, <2>1, <2>2, <2>3 DEF New
<1> QED
  BY <1>5, <1>6 DEF L

-----------------------------------------------------------------------------
(* What applySync makes of an answer *)

\* Sync s has its answer, from what Landline told.
Answered(s, told) ==
    /\ LandlineTypeOK /\ LandlineInv
    /\ sync[s].pc = "answered"
    /\ told \in [Bank -> Record] /\ Told(s, told)

\* A row of a transfer log.
IsLog(c) == c.kind = "log" /\ c.hash /\ c.time = minedAt[c.of] /\ c.mark # "pending"

\* A row of a bank transfer without its log.
IsBank(c) == /\ c.kind = "bank" /\ c.offchain # "none"
             /\ bank[c.of] # Unknown /\ c.time = bank[c.of].created
             /\ c.of \in Withdrawals => c.hash

LEMMA RowKinds ==
  ASSUME LandlineTypeOK, RowsTrue, NEW c \in recent
  PROVE  /\ c \in Clog /\ c.of \in Bank
         /\ \/ c.kind = "op" /\ c.mark = "pending"
            \/ IsLog(c)
            \/ IsBank(c)
BY DEF LandlineTypeOK, RowsTrue, Clog, IsLog, IsBank

LEMMA OldRow ==
  ASSUME LandlineTypeOK, RowsTrue, NEW s, NEW o \in Old(s)
  PROVE  /\ o \in recent /\ o \in Clog /\ o.of \in Bank
         /\ o.time < sync[s].since
         /\ IsLog(o) \/ IsBank(o)
BY RowKinds DEF Old

\* What Landline did not tell of was created too late for a row of the bank to be old.
LEMMA OldUntold ==
  ASSUME NEW s \in Syncs, NEW told, Answered(s, told), NEW o \in Old(s), told[o.of] = Unknown
  PROVE  IsLog(o) /\ ~InRange(s, o.of)
<1>1. LandlineTypeOK /\ RowsTrue
  BY DEF Answered, LandlineInv
<1>2. /\ o \in recent /\ o \in Clog /\ o.of \in Bank
      /\ o.time < sync[s].since
      /\ IsLog(o) \/ IsBank(o)
  BY <1>1, OldRow
<1>3. sync[s].since \in Nat
  BY <1>1 DEF LandlineTypeOK, Sync, Blocks
<1>4. ~IsBank(o)
  <2> SUFFICES ASSUME IsBank(o) PROVE FALSE
    OBVIOUS
  <2>1. bank[o.of] # Unknown /\ o.time = bank[o.of].created
    BY DEF IsBank
  <2>2. bank[o.of].created >= sync[s].since
    BY <1>2, <2>1 DEF Answered, Told, Earlier
  <2> QED
    BY <1>1, <1>2, <1>3, <2>1, <2>2, Created
<1>5. minedAt[o.of] \in Nat
  BY <1>1, <1>2 DEF LandlineTypeOK
<1> QED
  BY <1>2, <1>3, <1>4, <1>5 DEF IsLog, InRange

\* updateLandlineTransfer finds the last old row of the transaction.
LEMMA UpdatedOld ==
  ASSUME LandlineTypeOK, RowsTrue, NEW s, NEW n, NEW p \in Old(s), SameTx(n, p)
  PROVE  \E o \in Old(s) : /\ SameTx(n, o) /\ p.time <= o.time
                           /\ Updated(n, Old(s)) = [o EXCEPT !.offchain = n.offchain]
<1> DEFINE same == {o \in Old(s) : SameTx(n, o)}
<1>1. \A o \in same : o.of = n.of /\ o.time \in {minedAt[n.of], bank[n.of].created}
  BY OldRow DEF SameTx, IsLog, IsBank
<1>2. n.of \in Bank
  BY OldRow DEF SameTx
<1>3. minedAt[n.of] \in Int /\ bank[n.of].created \in Int
  BY <1>2 DEF LandlineTypeOK, Record, Blocks
<1>4. \E o \in same : \A q \in same : q.time <= o.time
  <2>1. same # {} /\ \A o \in same : o.time \in {minedAt[n.of], bank[n.of].created}
    BY <1>1
  <2> HIDE DEF same
  <2> QED
    BY <1>3, <2>1, MaxOfTwo
<1> DEFINE o == CHOOSE o \in same : \A q \in same : q.time <= o.time
<1>5. o \in same /\ \A q \in same : q.time <= o.time
  BY <1>4
<1>6. Updated(n, Old(s)) = [o EXCEPT !.offchain = n.offchain]
  BY <1>5 DEF Updated
<1>7. p \in same
  OBVIOUS
<1> HIDE DEF o
<1> QED
  BY <1>5, <1>6, <1>7

\* Without old rows of its transaction a new row stays as it is.
LEMMA UpdatedNew ==
  ASSUME NEW s, NEW n, \A p \in Old(s) : ~SameTx(n, p)
  PROVE  Updated(n, Old(s)) = n
BY DEF Updated

LEMMA UpdatedOf ==
  ASSUME LandlineTypeOK, RowsTrue, NEW s, NEW n
  PROVE  Updated(n, Old(s)).of = n.of
<1>1. CASE \A p \in Old(s) : ~SameTx(n, p)
  BY <1>1, UpdatedNew
<1>2. CASE \E p \in Old(s) : SameTx(n, p)
  <2>1. PICK o \in Old(s) : SameTx(n, o) /\ Updated(n, Old(s)) = [o EXCEPT !.offchain = n.offchain]
    BY <1>2, UpdatedOld
  <2>2. o \in Clog
    BY OldRow
  <2> QED
    BY <2>1, <2>2 DEF SameTx, Clog
<1> QED
  BY <1>1, <1>2

\* The rows applySync has before it marks them final and adds what is pending.
Merged(s) == Merge(Old(s), sync[s].logs)

\* The row of x in an answer whose bank transfer has a known transaction.
Joined(s, x, r) ==
    IF InRange(s, x) THEN [LogClog(x) EXCEPT !.offchain = r.status] ELSE BankClog(x, r)

LEMMA NewRows ==
  ASSUME NEW s \in Syncs, NEW told, Answered(s, told), NEW x \in Bank,
         NEW n \in New(s, x, told[x])
  PROVE  /\ n.of = x
         /\ \/ /\ n.offchain = "none" /\ n = LogClog(x) /\ InRange(s, x)
               /\ told[x] = Unknown \/ ~told[x].hash
            \/ /\ told[x] # Unknown /\ told[x].hash /\ n = Joined(s, x, told[x])
               /\ n.hash /\ n.offchain # "none"
            \/ /\ told[x] # Unknown /\ ~told[x].hash /\ n = BankClog(x, told[x])
               /\ ~n.hash /\ n.offchain # "none"
<1>1. told[x] # Unknown => told[x].status # "none"
  BY DEF Answered, Told, Earlier
<1>2. told[x] \in Record
  BY DEF Answered
<1>3. CASE InRange(s, x) /\ told[x] # Unknown /\ told[x].hash
  <2>1. n = [LogClog(x) EXCEPT !.offchain = told[x].status]
    BY <1>3 DEF New
  <2>2. n = Joined(s, x, told[x])
    BY <1>3, <2>1 DEF Joined
  <2>3. n.of = x /\ n.hash /\ n.offchain = told[x].status
    BY <2>1, LogFields
  <2> QED
    BY <1>1, <1>3, <2>2, <2>3
<1>4. CASE ~(InRange(s, x) /\ told[x] # Unknown /\ told[x].hash)
  <2>1. CASE n = LogClog(x) /\ InRange(s, x)
    BY <1>4, <2>1, LogFields
  <2>2. CASE n = BankClog(x, told[x]) /\ told[x] # Unknown
    <3>1. n.of = x /\ n.hash = told[x].hash /\ n.offchain # "none"
      BY <1>1, <2>2, BankFields
    <3> QED
      BY <1>2, <1>4, <2>2, <3>1 DEF Joined, Record
  <2> QED
    BY <1>4, <2>1, <2>2 DEF New
<1> QED
  BY <1>3, <1>4

LEMMA LogsNew ==
  ASSUME NEW s \in Syncs, NEW told, Answered(s, told)
  PROVE  sync[s].logs = UNION {New(s, x, told[x]) : x \in Bank}
BY JoinIs DEF Answered, Told

LEMMA LogsHave ==
  ASSUME NEW s \in Syncs, NEW told, Answered(s, told), NEW x \in Bank
  PROVE  /\ told[x] # Unknown /\ told[x].hash => Joined(s, x, told[x]) \in sync[s].logs
         /\ told[x] # Unknown /\ ~told[x].hash => BankClog(x, told[x]) \in sync[s].logs
         /\ InRange(s, x) /\ (told[x] = Unknown \/ ~told[x].hash) => LogClog(x) \in sync[s].logs
<1>1. New(s, x, told[x]) \subseteq sync[s].logs
  BY LogsNew
<1> QED
  BY <1>1 DEF New, Joined

\* Where a row comes from.
LEMMA MergedFrom ==
  ASSUME NEW s \in Syncs, NEW told, Answered(s, told), NEW c \in Merged(s)
  PROVE  /\ c.of \in Bank
         /\ \/ /\ told[c.of] = Unknown
               /\ c \in Old(s) \/ (InRange(s, c.of) /\ c = LogClog(c.of))
            \/ /\ told[c.of] # Unknown /\ told[c.of].hash
               /\ c = Updated(Joined(s, c.of, told[c.of]), Old(s))
            \/ /\ told[c.of] # Unknown /\ ~told[c.of].hash
               /\ \/ c \in Old(s) /\ c.offchain = "none"
                  \/ InRange(s, c.of) /\ c = LogClog(c.of)
                  \/ c = BankClog(c.of, told[c.of])
<1> DEFINE new == sync[s].logs
           news == {n \in new : n.offchain # "none"}
<1>1. LandlineTypeOK /\ RowsTrue
  BY DEF Answered, LandlineInv
<1>2. \/ c \in Old(s) /\ ~\E n \in news : Replaces(n, c)
      \/ \E n \in news : c = Updated(n, Old(s))
      \/ c \in new /\ c.offchain = "none"
  BY DEF Merged, Merge
<1>3. \A n \in new : \E x \in Bank : n \in New(s, x, told[x])
  BY LogsNew
<1>4. CASE c \in Old(s) /\ ~\E n \in news : Replaces(n, c)
  <2>1. c.of \in Bank /\ (IsLog(c) \/ IsBank(c))
    BY <1>1, <1>4, OldRow
  <2>2. c.hash \/ c.offchain # "none"
    BY <2>1 DEF IsLog, IsBank
  <2>3. CASE told[c.of] # Unknown /\ told[c.of].hash
    <3>1. Joined(s, c.of, told[c.of]) \in New(s, c.of, told[c.of])
      BY <2>3 DEF New, Joined
    <3> DEFINE n == Joined(s, c.of, told[c.of])
    <3>2. n.of = c.of /\ n.hash /\ n.offchain # "none"
      BY <2>1, <2>3, <3>1, NewRows
    <3>3. n \in new
      BY <2>1, <2>3, LogsHave
    <3>4. Replaces(n, c)
      BY <2>2, <3>2 DEF Replaces, SameTx
    <3> QED
      BY <1>4, <3>2, <3>3, <3>4
  <2>4. CASE told[c.of] # Unknown /\ ~told[c.of].hash
    <3> DEFINE n == BankClog(c.of, told[c.of])
    <3>1. n \in New(s, c.of, told[c.of]) /\ n \in new
      BY <2>1, <2>4, LogsHave DEF New
    <3>2. n.of = c.of /\ n.offchain # "none"
      BY <2>1, <2>4, <3>1, NewRows, LogFields, BankFields
    <3>3. c.offchain # "none" => Replaces(n, c)
      BY <3>2 DEF Replaces
    <3> QED
      BY <1>4, <2>1, <2>4, <3>1, <3>2, <3>3
  <2> QED
    BY <1>4, <2>1, <2>3, <2>4
<1>5. CASE \E n \in news : c = Updated(n, Old(s))
  <2>1. PICK n \in news : c = Updated(n, Old(s))
    BY <1>5
  <2>2. PICK x \in Bank : n \in New(s, x, told[x])
    BY <1>3
  <2>3. c.of = x /\ n.of = x
    BY <1>1, <2>1, <2>2, NewRows, UpdatedOf
  <2>4. CASE told[x] # Unknown /\ told[x].hash
    BY <2>1, <2>2, <2>3, <2>4, NewRows
  <2>5. CASE told[x] # Unknown /\ ~told[x].hash
    <3>1. n = BankClog(x, told[x]) /\ ~n.hash
      BY <2>2, <2>5, NewRows
    <3>2. c = n
      BY <2>1, <3>1, UpdatedNew DEF SameTx
    <3> QED
      BY <2>3, <2>5, <3>1, <3>2
  <2>6. CASE told[x] = Unknown
    BY <2>2, <2>6, NewRows
  <2> QED
    BY <2>4, <2>5, <2>6
<1>6. CASE c \in new /\ c.offchain = "none"
  <2>1. PICK x \in Bank : c \in New(s, x, told[x])
    BY <1>3, <1>6
  <2>2. c.of = x /\ c = LogClog(x) /\ InRange(s, x) /\ (told[x] = Unknown \/ ~told[x].hash)
    BY <1>6, <2>1, NewRows
  <2> QED
    BY <2>2
<1> QED
  BY <1>2, <1>4, <1>5, <1>6

\* Which rows are there.
LEMMA MergedHas ==
  ASSUME NEW s \in Syncs, NEW told, Answered(s, told), NEW x \in Bank
  PROVE  /\ told[x] # Unknown /\ told[x].hash =>
              Updated(Joined(s, x, told[x]), Old(s)) \in Merged(s)
         /\ InRange(s, x) /\ (told[x] = Unknown \/ ~told[x].hash) => LogClog(x) \in Merged(s)
         /\ \A o \in Old(s) :
              o.of = x /\ (told[x] = Unknown \/ (~told[x].hash /\ o.offchain = "none"))
                => o \in Merged(s)
<1> DEFINE new == sync[s].logs
           news == {n \in new : n.offchain # "none"}
<1>1. \A n \in news : \E y \in Bank : n \in New(s, y, told[y])
  BY LogsNew
<1>2. Merged(s) = {o \in Old(s) : ~\E n \in news : Replaces(n, o)}
                    \cup {Updated(n, Old(s)) : n \in news} \cup (new \ news)
  BY DEF Merged, Merge
<1>3. ASSUME told[x] # Unknown, told[x].hash
      PROVE  Updated(Joined(s, x, told[x]), Old(s)) \in Merged(s)
  <2>1. Joined(s, x, told[x]) \in new
    BY <1>3, LogsHave
  <2>2. Joined(s, x, told[x]) \in New(s, x, told[x])
    BY <1>3 DEF New, Joined
  <2>3. Joined(s, x, told[x]).offchain # "none"
    BY <1>3, <2>2, NewRows
  <2> QED
    BY <1>2, <2>1, <2>3
<1>4. ASSUME InRange(s, x), told[x] = Unknown \/ ~told[x].hash
      PROVE  LogClog(x) \in Merged(s)
  BY <1>2, <1>4, LogsHave, LogFields
<1>5. ASSUME NEW o \in Old(s), o.of = x, told[x] = Unknown \/ (~told[x].hash /\ o.offchain = "none")
      PROVE  o \in Merged(s)
  <2>1. ASSUME NEW n \in news, Replaces(n, o) PROVE FALSE
    <3>1. n.of = x
      BY <1>5, <2>1 DEF Replaces, SameTx
    <3>2. n \in New(s, x, told[x])
      BY <1>1, <3>1, NewRows
    <3>3. told[x] # Unknown /\ ~told[x].hash /\ ~n.hash
      BY <1>5, <3>2, NewRows
    <3> QED
      BY <1>5, <2>1, <3>3 DEF Replaces, SameTx
  <2> QED
    BY <1>2, <2>1
<1> QED
  BY <1>3, <1>4, <1>5

LEMMA LogClogTrue ==
  ASSUME LandlineTypeOK, NEW s, NEW x \in Bank, InRange(s, x)
  PROVE  LogClog(x) \in Clog /\ IsLog(LogClog(x))
<1>1. minedAt[x] \in 1..MaxBlock
  BY LandlineAssumption DEF LandlineTypeOK, InRange, LandlineAssumption
<1> QED
  BY <1>1 DEF LogClog, Clog, Status, IsLog

LEMMA BankClogTrue ==
  ASSUME NEW s \in Syncs, NEW told, Answered(s, told), NEW x \in Bank, told[x] # Unknown
  PROVE  BankClog(x, told[x]) \in Clog /\ IsBank(BankClog(x, told[x]))
<1>1. told[x] \in Record
  BY DEF Answered
<1>2. /\ bank[x] # Unknown /\ told[x].created = bank[x].created /\ told[x].status # "none"
      /\ x \in Withdrawals => told[x].hash
  BY DEF Answered, Told, Earlier
<1>3. told[x].created \in 1..MaxBlock
  BY <1>2, Created DEF Answered
<1> QED
  BY <1>1, <1>2, <1>3 DEF BankClog, Clog, Record, IsBank

\* An old row with the news of the bank is a row as it was.
LEMMA NewsTrue ==
  ASSUME NEW o \in Clog, NEW v \in Status, v # "none", IsLog(o) \/ IsBank(o)
  PROVE  LET c == [o EXCEPT !.offchain = v] IN
         /\ c \in Clog /\ c.of = o.of /\ c.kind = o.kind /\ c.time = o.time
         /\ c.hash = o.hash /\ c.mark = o.mark /\ c.offchain = v
         /\ IsLog(o) => IsLog(c)
         /\ IsBank(o) => IsBank(c)
BY DEF Clog, IsLog, IsBank

\* What becomes of the one row of a transfer whose transaction Landline told of.
LEMMA UpdatedJoined ==
  ASSUME NEW s \in Syncs, NEW told, Answered(s, told), NEW x \in Bank,
         told[x] # Unknown, told[x].hash
  PROVE  LET n == Joined(s, x, told[x])
             u == Updated(n, Old(s))
         IN  /\ n.of = x /\ n.hash /\ n \in Clog
             /\ InRange(s, x) => IsLog(n)
             /\ ~InRange(s, x) => IsBank(n)
             /\ u.of = x /\ u.hash /\ u \in Clog /\ (IsLog(u) \/ IsBank(u))
             /\ \/ u = n /\ \A p \in Old(s) : ~SameTx(n, p)
                \/ \E o \in Old(s) : /\ o.of = x /\ o.kind = u.kind
                                     /\ o.time = u.time /\ o.mark = u.mark
<1> DEFINE n == Joined(s, x, told[x])
           u == Updated(n, Old(s))
<1>1. LandlineTypeOK /\ RowsTrue
  BY DEF Answered, LandlineInv
<1>2. told[x].status \in Status /\ told[x].status # "none"
  BY DEF Answered, Told, Earlier, Record
<1>3. n \in New(s, x, told[x])
  BY DEF New, Joined
<1>4. n.of = x /\ n.hash /\ n.offchain = told[x].status
  BY <1>3, NewRows, LogFields, BankFields DEF Joined
<1>6. n \in Clog /\ (InRange(s, x) => IsLog(n)) /\ (~InRange(s, x) => IsBank(n))
  <2>1. CASE InRange(s, x)
    BY <1>1, <1>2, <2>1, LogClogTrue, NewsTrue DEF Joined
  <2>2. CASE ~InRange(s, x)
    BY <2>2, BankClogTrue DEF Joined
  <2> QED
    BY <2>1, <2>2
<1>7. CASE \A p \in Old(s) : ~SameTx(n, p)
  <2>1. u = n
    BY <1>7, UpdatedNew
  <2> QED
    BY <1>4, <1>6, <1>7, <2>1
<1>8. CASE \E p \in Old(s) : SameTx(n, p)
  <2>1. PICK o \in Old(s) : SameTx(n, o) /\ u = [o EXCEPT !.offchain = n.offchain]
    BY <1>1, <1>8, UpdatedOld
  <2>2. o \in Clog /\ (IsLog(o) \/ IsBank(o))
    BY <1>1, OldRow
  <2>3. o.of = x /\ o.hash
    BY <1>4, <2>1 DEF SameTx
  <2>4. /\ u \in Clog /\ u.of = o.of /\ u.kind = o.kind /\ u.time = o.time
        /\ u.hash = o.hash /\ u.mark = o.mark
        /\ IsLog(u) \/ IsBank(u)
    BY <1>2, <1>4, <2>1, <2>2, NewsTrue
  <2> QED
    BY <1>4, <1>6, <2>3, <2>4
<1> QED
  BY <1>7, <1>8

LEMMA MergedTrue ==
  ASSUME NEW s \in Syncs, NEW told, Answered(s, told), NEW c \in Merged(s)
  PROVE  c \in Clog /\ c.of \in Bank /\ (IsLog(c) \/ IsBank(c))
<1>1. LandlineTypeOK /\ RowsTrue
  BY DEF Answered, LandlineInv
<1>2. c.of \in Bank
  BY MergedFrom
<1>3. CASE c \in Old(s)
  BY <1>1, <1>2, <1>3, OldRow
<1>4. CASE InRange(s, c.of) /\ c = LogClog(c.of)
  BY <1>1, <1>2, <1>4, LogClogTrue
<1>5. CASE told[c.of] # Unknown /\ c = BankClog(c.of, told[c.of])
  BY <1>2, <1>5, BankClogTrue
<1>6. CASE told[c.of] # Unknown /\ told[c.of].hash /\ c = Updated(Joined(s, c.of, told[c.of]), Old(s))
  BY <1>2, <1>6, UpdatedJoined
<1> QED
  BY <1>3, <1>4, <1>5, <1>6, MergedFrom

\* Old rows of a log are of logs before those asked for.
LEMMA OldLog ==
  ASSUME LandlineTypeOK, RowsTrue, NEW s \in Syncs, NEW o \in Old(s), IsLog(o)
  PROVE  ~InRange(s, o.of)
<1>1. o.of \in Bank /\ o.time < sync[s].since /\ o.time = minedAt[o.of]
  BY OldRow DEF IsLog
<1>2. minedAt[o.of] \in Nat /\ sync[s].since \in Nat
  BY <1>1 DEF LandlineTypeOK, Sync, Blocks
<1> QED
  BY <1>1, <1>2 DEF InRange

LEMMA OldLogs ==
  ASSUME LandlineTypeOK, RowsTrue, NEW s, NEW c \in Old(s), NEW d \in Old(s),
         c.of = d.of, IsLog(c), IsLog(d)
  PROVE  c = d
BY OldRow DEF RowsTrue, IsLog

\* At most one row of a transfer has its transaction.
LEMMA MergedOnce ==
  ASSUME NEW s \in Syncs, NEW told, Answered(s, told), NEW c \in Merged(s), NEW d \in Merged(s),
         c.of = d.of, c.hash, d.hash
  PROVE  c = d
<1> DEFINE x == c.of
<1>1. LandlineTypeOK /\ RowsTrue
  BY DEF Answered, LandlineInv
<1>2. CASE told[x] = Unknown
  <2>1. ASSUME NEW e \in Merged(s), e.of = x
        PROVE  (e \in Old(s) /\ IsLog(e) /\ ~InRange(s, x)) \/ (e = LogClog(x) /\ InRange(s, x))
    BY <1>2, <2>1, MergedFrom, OldUntold
  <2> QED
    BY <1>1, <2>1, OldLogs
<1>3. CASE told[x] # Unknown /\ told[x].hash
  BY <1>3, MergedFrom
<1>4. CASE told[x] # Unknown /\ ~told[x].hash
  <2>1. ASSUME NEW e \in Merged(s), e.of = x, e.hash
        PROVE  (e \in Old(s) /\ IsLog(e) /\ ~InRange(s, x)) \/ (e = LogClog(x) /\ InRange(s, x))
    <3>1. e # BankClog(x, told[x])
      BY <1>4, <2>1, BankFields
    <3>2. \/ e \in Old(s) /\ e.offchain = "none"
          \/ InRange(s, x) /\ e = LogClog(x)
      BY <1>4, <2>1, <3>1, MergedFrom
    <3>3. e \in Old(s) /\ e.offchain = "none" => IsLog(e)
      BY <1>1, OldRow DEF IsBank
    <3> QED
      BY <1>1, <2>1, <3>2, <3>3, OldLog
  <2> QED
    BY <1>1, <1>4, <2>1, OldLogs
<1> QED
  BY <1>2, <1>3, <1>4

\* Where a row has both the transaction and the bank's status, it is the only one.
LEMMA MergedBundled ==
  ASSUME NEW s \in Syncs, NEW told, Answered(s, told), NEW c \in Merged(s), NEW d \in Merged(s),
         c.of = d.of, c.hash, c.offchain # "none"
  PROVE  c = d
<1> DEFINE x == c.of
<1>1. LandlineTypeOK /\ RowsTrue
  BY DEF Answered, LandlineInv
<1>2. CASE told[x] = Unknown
  <2>1. \A e \in Merged(s) : e.of = x => e.hash
    <3> SUFFICES ASSUME NEW e \in Merged(s), e.of = x PROVE e.hash
      OBVIOUS
    <3> QED
      BY <1>2, MergedFrom, OldUntold, LogFields DEF IsLog
  <2> QED
    BY <2>1, MergedOnce
<1>3. CASE told[x] # Unknown /\ told[x].hash
  BY <1>3, MergedFrom
<1>4. CASE told[x] # Unknown /\ ~told[x].hash
  BY <1>4, MergedFrom, LogFields, BankFields
<1> QED
  BY <1>2, <1>3, <1>4

-----------------------------------------------------------------------------
(* Answers applied in the order in which they were computed *)

Fresh(s) == ~behind /\ ~StaleAnswer(s)

LEMMA FreshHeights ==
  ASSUME NEW s \in Syncs, NEW told, Answered(s, told), Fresh(s)
  PROVE  /\ sync[s].since <= lastFinalized /\ lastFinalized <= sync[s].fin
         /\ lastFinalized <= lastBlock
         /\ sync[s].since \in Nat /\ sync[s].fin \in Nat /\ sync[s].lastBlock \in Nat
         /\ lastFinalized \in Nat /\ lastBlock \in Nat
<1>1. LandlineTypeOK /\ SyncTrue(s) /\ lastFinalized <= lastBlock
  BY DEF Answered, LandlineInv, SyncsTrue
<1>2. sync[s].since \in Nat /\ sync[s].fin \in Nat /\ sync[s].lastBlock \in Nat
      /\ lastFinalized \in Nat /\ lastBlock \in Nat
  BY <1>1 DEF LandlineTypeOK, Sync, Blocks
<1>3. ~(sync[s].fin < lastFinalized)
  BY DEF Fresh, StaleAnswer
<1>4. sync[s].since <= lastFinalized
  BY <1>1 DEF Answered, Fresh, SyncTrue
<1> QED
  BY <1>1, <1>2, <1>3, <1>4

\* A transaction below the first block asked for has its row among the old ones.
LEMMA OldShown ==
  ASSUME NEW s \in Syncs, NEW told, Answered(s, told), Fresh(s), NEW x \in Bank,
         minedAt[x] \in 1..sync[s].since - 1
  PROVE  \E c \in Old(s) : /\ c.of = x /\ c.hash
                           /\ told[x] # Unknown /\ ~told[x].hash => c.offchain = "none"
<1>1. LandlineTypeOK /\ RowsTrue /\ OneRow /\ BankTrue
  BY DEF Answered, LandlineInv
<1>2. minedAt[x] \in 1..lastBlock
  BY FreshHeights
<1>3. PICK c \in recent : c.of = x /\ c.hash /\ c.mark # "pending"
  <2>1. PICK c : {d \in Shown(x) : d.hash} = {c}
    BY <1>1, <1>2 DEF OneRow, Fresh
  <2> QED
    BY <2>1 DEF Shown, Rows
<1>4. c.kind # "op" /\ (IsLog(c) \/ IsBank(c)) /\ c \in Clog
  BY <1>1, <1>3, RowKinds DEF IsLog, IsBank
<1>5. c.time < sync[s].since
  <2>1. CASE IsLog(c)
    BY <1>3, <2>1, FreshHeights DEF IsLog
  <2>2. CASE IsBank(c)
    <3>1. x \notin Withdrawals
      <4> SUFFICES ASSUME x \in Withdrawals PROVE FALSE
        OBVIOUS
      <4>1. minedAt[x] > lastBlock
        BY <1>1, <1>3, <2>2 DEF RowsTrue, Fresh, IsBank
      <4> QED
        BY <1>2, <4>1, FreshHeights
    <3>2. bank[x].created \in 1..minedAt[x] - 1
      BY <1>1, <1>2, <3>1 DEF BankTrue, Bank
    <3>3. c.time = bank[x].created
      BY <1>3, <2>2 DEF IsBank
    <3> QED
      BY <3>2, <3>3, FreshHeights
  <2> QED
    BY <1>4, <2>1, <2>2
<1>6. c \in Old(s)
  BY <1>3, <1>4, <1>5 DEF Old
<1>7. ASSUME told[x] # Unknown, ~told[x].hash PROVE c.offchain = "none"
  <2> SUFFICES ASSUME c.offchain # "none" PROVE FALSE
    OBVIOUS
  <2>1. PICK n \in sync[s].logs : n.of = c.of /\ n.offchain # "none" /\ (c.hash => n.hash)
    BY <1>3 DEF Fresh, StaleAnswer
  <2>2. PICK y \in Bank : n \in New(s, y, told[y])
    BY LogsNew
  <2> QED
    BY <1>3, <1>7, <2>1, <2>2, NewRows
<1> QED
  BY <1>3, <1>6, <1>7

\* Every transaction up to the answer's last block has a row, which is shown.
LEMMA MergedHasTx ==
  ASSUME NEW s \in Syncs, NEW told, Answered(s, told), Fresh(s), NEW x \in Bank,
         minedAt[x] \in 1..sync[s].lastBlock
  PROVE  \E c \in Merged(s) : /\ c.of = x /\ c.hash
                              /\ c.mark # "pending" \/ c.time <= sync[s].fin
<1>1. LandlineTypeOK /\ RowsTrue
  BY DEF Answered, LandlineInv
<1>2. \A o \in Old(s) : o.time <= sync[s].fin
  <2> SUFFICES ASSUME NEW o \in Old(s) PROVE o.time <= sync[s].fin
    OBVIOUS
  <2>1. o.time < sync[s].since /\ o.time \in Nat
    BY <1>1, OldRow DEF Clog
  <2> QED
    BY <2>1, FreshHeights
<1>3. InRange(s, x) \/ minedAt[x] \in 1..sync[s].since - 1
  BY FreshHeights DEF InRange
<1>4. CASE told[x] # Unknown /\ told[x].hash
  <2> DEFINE n == Joined(s, x, told[x])
             u == Updated(n, Old(s))
  <2>1. u \in Merged(s)
    BY <1>4, MergedHas
  <2>2. /\ n.of = x /\ n.hash
        /\ InRange(s, x) => IsLog(n)
        /\ u.of = x /\ u.hash
        /\ \/ u = n /\ \A p \in Old(s) : ~SameTx(n, p)
           \/ \E o \in Old(s) : /\ o.of = x /\ o.kind = u.kind
                                /\ o.time = u.time /\ o.mark = u.mark
    BY <1>4, UpdatedJoined
  <2> HIDE DEF n, u
  <2>3. CASE \E o \in Old(s) : o.time = u.time
    BY <1>2, <2>1, <2>2, <2>3
  <2>4. CASE u = n /\ \A p \in Old(s) : ~SameTx(n, p)
    <3>1. InRange(s, x)
      BY <1>3, <2>2, <2>4, OldShown DEF SameTx
    <3> QED
      BY <2>1, <2>2, <2>4, <3>1 DEF IsLog
  <2> QED
    BY <2>2, <2>3, <2>4
<1>5. CASE ~(told[x] # Unknown /\ told[x].hash) /\ InRange(s, x)
  BY <1>5, MergedHas, LogFields
<1>6. CASE ~(told[x] # Unknown /\ told[x].hash) /\ minedAt[x] \in 1..sync[s].since - 1
  <2>1. PICK c \in Old(s) : /\ c.of = x /\ c.hash
                            /\ told[x] # Unknown /\ ~told[x].hash => c.offchain = "none"
    BY <1>6, OldShown
  <2>2. c \in Merged(s)
    BY <1>6, <2>1, MergedHas
  <2> QED
    BY <1>2, <2>1, <2>2
<1> QED
  BY <1>3, <1>4, <1>5, <1>6

\* A withdrawal is shown without its log only before the answer's last block reaches it.
LEMMA MergedWithdrawal ==
  ASSUME NEW s \in Syncs, NEW told, Answered(s, told), Fresh(s), NEW c \in Merged(s),
         c.of \in Withdrawals, c.kind = "bank"
  PROVE  minedAt[c.of] > sync[s].lastBlock
<1> DEFINE x == c.of
<1>1. LandlineTypeOK /\ RowsTrue /\ BankTrue
  BY DEF Answered, LandlineInv
<1>2. x \in Bank
  BY DEF Bank
<1>3. IsBank(c) /\ c.hash
  BY MergedTrue DEF IsLog, IsBank
<1>4. minedAt[x] \in 1..bank[x].created
  BY <1>1, <1>3 DEF BankTrue, IsBank
<1>5. told[x] # Unknown /\ told[x].hash
  <2>1. told[x] # Unknown
    BY <1>3, MergedFrom, OldUntold, LogFields DEF IsLog
  <2> QED
    BY <1>2, <2>1 DEF Answered, Told, Earlier
<1>6. \A o \in Old(s) : o.of = x => o.kind # "bank"
  <2> SUFFICES ASSUME NEW o \in Old(s), o.of = x, o.kind = "bank" PROVE FALSE
    OBVIOUS
  <2>1. o \in recent /\ o.time < sync[s].since /\ o.time = bank[x].created
    BY <1>1, OldRow DEF IsLog, IsBank
  <2>2. minedAt[x] > lastBlock
    BY <1>1, <2>1 DEF RowsTrue, Fresh
  <2>3. bank[x].created \in Nat
    BY <1>1, <1>2 DEF LandlineTypeOK, Record, Blocks
  <2> QED
    BY <1>4, <2>1, <2>2, <2>3, FreshHeights
<1> SUFFICES ASSUME minedAt[x] \in 1..sync[s].lastBlock PROVE FALSE
  BY <1>4, FreshHeights
<1>7. InRange(s, x) \/ minedAt[x] \in 1..sync[s].since - 1
  BY FreshHeights DEF InRange
<1> DEFINE n == Joined(s, x, told[x])
<1>8. c = Updated(n, Old(s))
  BY <1>5, MergedFrom
<1>9. c = n /\ \A p \in Old(s) : ~SameTx(n, p)
  BY <1>2, <1>5, <1>6, <1>8, UpdatedJoined
<1>10. n.of = x /\ n.hash /\ (InRange(s, x) => IsLog(n))
  BY <1>2, <1>5, UpdatedJoined
<1>11. minedAt[x] \notin 1..sync[s].since - 1
  BY <1>2, <1>9, <1>10, OldShown DEF SameTx
<1> QED
  BY <1>7, <1>9, <1>10, <1>11 DEF IsLog

-----------------------------------------------------------------------------
(* Types, in parts that the steps change together *)

ChainOK ==
    /\ tip \in 1..MaxBlock /\ final \in 0..tip /\ indexed \in 0..tip
    /\ minedAt \in [Bank -> 0..tip]
BankOK ==
    /\ bank \in [Bank -> Record]
    /\ \A x \in Bank : bank[x].created <= tip /\ (bank[x].created = 0 <=> bank[x] = Unknown)
PhoneOK ==
    /\ signed \in [Withdrawals -> 0..tip] /\ depositing \subseteq Deposits
    /\ lastBlock \in 0..indexed /\ lastFinalized \in 0..final
RowsOK ==
    /\ recent \subseteq Clog
    /\ \A c \in recent : /\ c.kind = "op" => c.of \in Withdrawals /\ c.mark = "pending"
                         /\ c.kind = "log" => c.hash /\ c.time = minedAt[c.of]
                         /\ c.kind = "bank" => c.offchain # "none"
SyncOK == sync \in [Syncs -> Sync] /\ behind \in BOOLEAN

LEMMA TypesParts == LandlineTypeOK <=> ChainOK /\ BankOK /\ PhoneOK /\ RowsOK /\ SyncOK
BY DEF LandlineTypeOK, ChainOK, BankOK, PhoneOK, RowsOK, SyncOK

\* How chain and bank go on: what was mined or told stays, and what is new is new.
Grows ==
    /\ final' >= final /\ indexed' >= indexed
    /\ \A x \in Bank : \/ minedAt'[x] = minedAt[x]
                       \/ minedAt[x] = 0 /\ minedAt'[x] > indexed
    /\ \A x \in Bank : IF bank[x] = Unknown
                       THEN bank'[x] = Unknown \/ bank'[x].created >= final
                       ELSE bank'[x] # Unknown /\ bank'[x].created = bank[x].created

LEMMA LogsStill ==
  ASSUME ChainOK, ChainOK', SyncOK, NEW s \in Syncs, Grows, sync'[s] = sync[s],
         sync[s].lastBlock <= indexed
  PROVE  LogsOf(s)' = LogsOf(s)
<1>1. sync[s].lastBlock \in Nat /\ sync[s].since \in Nat
  BY DEF SyncOK, Sync, Blocks
<1>2. \A y \in Bank : InRange(s, y)' <=> InRange(s, y)
  <2> SUFFICES ASSUME NEW y \in Bank PROVE InRange(s, y)' <=> InRange(s, y)
    OBVIOUS
  <2>1. minedAt[y] \in Nat /\ minedAt'[y] \in Nat /\ indexed \in Nat
    BY DEF ChainOK
  <2>2. minedAt'[y] = minedAt[y] \/ (minedAt[y] = 0 /\ minedAt'[y] > indexed)
    BY DEF Grows
  <2> QED
    BY <1>1, <2>1, <2>2 DEF InRange
<1>3. \A y \in Bank : InRange(s, y) => minedAt'[y] = minedAt[y]
  BY DEF Grows, InRange
<1>4. \A y \in Bank : InRange(s, y) => LogClog(y)' = LogClog(y)
  BY <1>3 DEF LogClog
<1> QED
  BY <1>2, <1>4 DEF LogsOf

LEMMA SyncStill ==
  ASSUME ChainOK, ChainOK', BankOK, BankOK', SyncOK, NEW s \in Syncs, Grows, SyncTrue(s),
         sync'[s] = sync[s], behind' = behind, lastFinalized' = lastFinalized
  PROVE  SyncTrue(s)'
<1>1. /\ final \in Nat /\ final' \in Nat /\ indexed \in Nat /\ indexed' \in Nat
      /\ final' >= final /\ indexed' >= indexed
  BY DEF ChainOK, Grows
<1>2. /\ sync[s].since \in Nat /\ sync[s].lastBlock \in Nat /\ sync[s].fin \in Nat
  BY DEF SyncOK, Sync, Blocks
<1>3. sync[s].pc \in {"read", "answered"} => LogsOf(s)' = LogsOf(s)
  BY LogsStill DEF SyncTrue
<1>4. ASSUME sync[s].pc = "answered" PROVE \E told \in [Bank -> Record] : Told(s, told)'
  <2>1. PICK told \in [Bank -> Record] : Told(s, told)
    BY <1>4 DEF SyncTrue
  <2>2. sync'[s].logs = Join(LogsOf(s)', told)
    BY <1>3, <1>4, <2>1 DEF Told
  <2>3. ASSUME NEW x \in Bank PROVE Earlier(told[x], x, sync[s].since)'
    <3>1. Earlier(told[x], x, sync[s].since)
      BY <2>1 DEF Told
    <3>2. IF bank[x] = Unknown
          THEN bank'[x] = Unknown \/ bank'[x].created >= final
          ELSE bank'[x] # Unknown /\ bank'[x].created = bank[x].created
      BY DEF Grows
    <3>3. sync[s].since <= final
      BY <1>4 DEF SyncTrue
    <3>4. bank'[x].created \in Nat
      BY DEF BankOK, Record, Blocks
    <3> QED
      BY <1>1, <1>2, <3>1, <3>2, <3>3, <3>4 DEF Earlier
  <2> QED
    BY <2>2, <2>3 DEF Told
<1>5. sync[s].pc # "idle" =>
        sync[s].since <= final' /\ (~behind' => sync[s].since <= lastFinalized')
  BY <1>1, <1>2 DEF SyncTrue
<1>6. sync[s].pc \in {"read", "answered"} =>
        sync[s].lastBlock <= indexed' /\ sync[s].fin <= sync[s].lastBlock /\ sync[s].fin <= final'
  BY <1>1, <1>2 DEF SyncTrue
<1>7. sync[s].pc = "read" => sync[s].logs = LogsOf(s)'
  BY <1>3 DEF SyncTrue
<1> QED
  BY <1>4, <1>5, <1>6, <1>7 DEF SyncTrue

LEMMA SyncsStill ==
  ASSUME LandlineTypeOK, ChainOK', BankOK', Grows, SyncsTrue,
         UNCHANGED <<sync, behind, lastBlock, lastFinalized>>
  PROVE  SyncsTrue'
BY SyncStill, TypesParts DEF SyncsTrue

LEMMA RowsStill ==
  ASSUME LandlineTypeOK, ChainOK', Grows, RowsTrue,
         UNCHANGED <<recent, behind, lastBlock>>
  PROVE  RowsOK' /\ RowsTrue'
<1>1. indexed \in Nat /\ lastBlock \in Nat /\ lastBlock <= indexed
      /\ \A x \in Bank : minedAt[x] \in Nat /\ minedAt'[x] \in Nat
  BY TypesParts DEF ChainOK, PhoneOK
<1>2. \A c \in recent : c.of \in Bank /\ c.time # 0
  BY DEF LandlineTypeOK, Clog
<1>3. RowsOK'
  BY <1>2, TypesParts DEF RowsOK, Grows
<1>4. \A c \in recent : c.kind = "bank" =>
         /\ bank'[c.of] # Unknown /\ c.time = bank'[c.of].created
         /\ c.of \in Withdrawals => c.hash /\ (~behind => minedAt'[c.of] > lastBlock)
  BY <1>1, <1>2 DEF RowsTrue, Grows
<1> QED
  BY <1>3, <1>4 DEF RowsTrue

LEMMA OneRowStill ==
  ASSUME LandlineTypeOK, ChainOK', Grows, OneRow,
         UNCHANGED <<behind, lastBlock>>,
         \A c : (c \in recent' /\ c.mark # "pending") <=> (c \in recent /\ c.mark # "pending")
  PROVE  OneRow'
<1>1. \A x \in Bank : minedAt'[x] \in 1..lastBlock => minedAt[x] \in 1..lastBlock
  <2>1. indexed \in Nat /\ lastBlock \in Nat /\ lastBlock <= indexed
      /\ \A x \in Bank : minedAt[x] \in Nat /\ minedAt'[x] \in Nat
    BY TypesParts DEF ChainOK, PhoneOK
  <2> QED
    BY <2>1 DEF Grows
<1>2. \A x : Shown(x)' = Shown(x)
  BY DEF Shown, Rows
<1> QED
  BY <1>1, <1>2 DEF OneRow

-----------------------------------------------------------------------------
(* Steps of chain, index and bank *)

World ==
    \/ NewBlock \/ Finalize \/ Index
    \/ \E d \in Deposits : TellHash(d) \/ Deposit(d)
    \/ \E w \in Withdrawals : Notice(w)
    \/ \E x \in Bank : Settle(x)

LEMMA NewBlockStep ==
  ASSUME LandlineTypeOK, BankTrue, NewBlock
  PROVE  ChainOK' /\ BankOK' /\ PhoneOK' /\ BankTrue' /\ Grows
<1>1. ChainOK /\ BankOK /\ PhoneOK
  BY TypesParts
<1> USE <1>1
<1>2. /\ tip < MaxBlock /\ tip' = tip + 1
      /\ UNCHANGED <<final, indexed, bank, signed, depositing, lastBlock, lastFinalized>>
  BY DEF NewBlock, phoneVars
<1>3. PICK S \in SUBSET {x \in Bank : MayMine(x)} :
        minedAt' = [x \in Bank |-> IF x \in S THEN tip + 1 ELSE minedAt[x]]
  BY DEF NewBlock
<1>4. /\ tip \in Nat /\ tip >= 1 /\ tip' <= MaxBlock /\ indexed \in Nat /\ indexed <= tip
      /\ final \in Nat /\ final <= tip
  BY <1>2, LandlineAssumption DEF ChainOK, LandlineAssumption
<1>5. ChainOK'
  <2>1. tip' \in 1..MaxBlock /\ final' \in 0..tip' /\ indexed' \in 0..tip'
    BY <1>2, <1>4, LandlineAssumption DEF LandlineAssumption
  <2>2. minedAt' \in [Bank -> 0..tip']
    BY <1>2, <1>3, <1>4 DEF ChainOK
  <2> QED
    BY <2>1, <2>2 DEF ChainOK
<1>6. BankOK'
  BY <1>2, <1>4 DEF BankOK, Record, Blocks
<1>7. PhoneOK'
  BY <1>2, <1>4 DEF PhoneOK
<1>8. \A x \in Bank : \/ minedAt'[x] = minedAt[x]
                      \/ minedAt[x] = 0 /\ minedAt'[x] = tip + 1 /\ MayMine(x)
  BY <1>3 DEF MayMine
<1>9. Grows
  BY <1>2, <1>4, <1>8 DEF Grows, BankOK, Record
<1>10. BankTrue'
  <2>1. \A x \in Bank : bank'[x].status = "none" => bank'[x] = Unknown
    BY <1>2 DEF BankTrue
  <2>2. ASSUME NEW d \in Deposits, minedAt'[d] # 0 PROVE bank'[d].created \in 1..minedAt'[d] - 1
    <3>1. d \in Bank /\ bank[d].created \in Nat /\ bank[d].created <= tip
          /\ (bank[d].created = 0 <=> bank[d] = Unknown)
      BY DEF Bank, BankOK, Record, Blocks
    <3>2. CASE minedAt'[d] = minedAt[d]
      BY <1>2, <2>2, <3>2 DEF BankTrue
    <3>3. CASE minedAt'[d] = tip + 1 /\ MayMine(d)
      <4>1. d \notin Withdrawals
        BY LandlineAssumption DEF LandlineAssumption
      <4>2. bank[d].status = "processing"
        BY <3>3, <4>1 DEF MayMine
      <4>3. bank[d] # Unknown
        BY <4>2 DEF Unknown
      <4> QED
        BY <1>2, <1>4, <3>1, <3>3, <4>3
    <3> QED
      BY <1>8, <3>1, <3>2, <3>3
  <2>3. ASSUME NEW w \in Withdrawals, bank'[w] # Unknown
        PROVE  bank'[w].hash /\ minedAt'[w] \in 1..bank'[w].created
    <3>1. bank[w].hash /\ minedAt[w] \in 1..bank[w].created /\ w \in Bank
      BY <1>2, <2>3 DEF BankTrue, Bank
    <3> QED
      BY <1>2, <1>8, <3>1
  <2>4. \A d \in depositing' : bank'[d] # Unknown
    BY <1>2 DEF BankTrue
  <2> QED
    BY <2>1, <2>2, <2>3, <2>4 DEF BankTrue
<1> QED
  BY <1>5, <1>6, <1>7, <1>9, <1>10

LEMMA FinalizeStep ==
  ASSUME LandlineTypeOK, BankTrue, Finalize \/ Index
  PROVE  ChainOK' /\ BankOK' /\ PhoneOK' /\ BankTrue' /\ Grows
<1>1. ChainOK /\ BankOK /\ PhoneOK
  BY TypesParts
<1>2. /\ UNCHANGED <<tip, minedAt, bank, signed, depositing, lastBlock, lastFinalized>>
      /\ \/ final' \in final + 1..tip - Deadline /\ indexed' = indexed
         \/ indexed' = tip /\ final' = final
  BY DEF Finalize, Index, phoneVars
<1>3. /\ tip \in 1..MaxBlock /\ final \in 0..tip /\ indexed \in 0..tip /\ Deadline \in Nat
      /\ MaxBlock \in Nat
  BY <1>1, LandlineAssumption DEF ChainOK, LandlineAssumption
<1>4. /\ final' \in 0..tip /\ indexed' \in 0..tip /\ final' >= final /\ indexed' >= indexed
  BY <1>2, <1>3
<1>5. ChainOK' /\ BankOK'
  BY <1>1, <1>2, <1>4 DEF ChainOK, BankOK
<1>6. PhoneOK'
  BY <1>1, <1>2, <1>3, <1>4 DEF PhoneOK
<1>7. Grows
  BY <1>1, <1>2, <1>4 DEF Grows
<1>8. BankTrue'
  BY <1>2 DEF BankTrue
<1> QED
  BY <1>5, <1>6, <1>7, <1>8

\* Landline's record of x becomes r, which keeps the time.
LEMMA TellStep ==
  ASSUME LandlineTypeOK, BankTrue, NEW x \in Bank, NEW r \in Record,
         bank[x].status = "processing",
         r.created = bank[x].created, r.status # "none", bank[x].hash => r.hash,
         bank' = [bank EXCEPT ![x] = r],
         UNCHANGED <<blockVars, phoneVars, syncVars>>
  PROVE  ChainOK' /\ BankOK' /\ PhoneOK' /\ BankTrue' /\ Grows
<1>1. ChainOK /\ BankOK /\ PhoneOK
  BY TypesParts
<1>2. UNCHANGED <<tip, final, indexed, minedAt, signed, depositing, lastBlock, lastFinalized>>
  BY DEF blockVars, phoneVars
<1>3. bank[x] # Unknown /\ r # Unknown
  BY DEF Unknown
<1>4. bank' \in [Bank -> Record] /\ bank'[x] = r /\ \A y \in Bank \ {x} : bank'[y] = bank[y]
  BY <1>1 DEF BankOK
<1>5. r.created # 0 /\ r.created <= tip /\ r.created \in Nat
  BY <1>1, <1>3 DEF BankOK, Record, Blocks
<1>6. ChainOK' /\ PhoneOK'
  BY <1>1, <1>2 DEF ChainOK, PhoneOK
<1>7. BankOK'
  BY <1>1, <1>2, <1>3, <1>4, <1>5 DEF BankOK
<1>8. final \in Nat /\ indexed \in Nat
  BY <1>1 DEF ChainOK
<1>9. Grows
  BY <1>2, <1>3, <1>4, <1>8 DEF Grows
<1>10. BankTrue'
  <2>1. \A y \in Bank : bank'[y].status = "none" => bank'[y] = Unknown
    BY <1>4 DEF BankTrue
  <2>2. \A d \in Deposits : minedAt'[d] # 0 => bank'[d].created \in 1..minedAt'[d] - 1
    BY <1>2, <1>4 DEF BankTrue, Bank
  <2>3. \A w \in Withdrawals : bank'[w] # Unknown =>
          bank'[w].hash /\ minedAt'[w] \in 1..bank'[w].created
    BY <1>2, <1>3, <1>4 DEF BankTrue, Bank
  <2>4. \A d \in depositing' : bank'[d] # Unknown
    <3>1. depositing \subseteq Bank
      BY <1>1 DEF PhoneOK, Bank
    <3> QED
      BY <1>2, <1>3, <1>4, <3>1 DEF BankTrue
  <2> QED
    BY <2>1, <2>2, <2>3, <2>4 DEF BankTrue
<1> QED
  BY <1>6, <1>7, <1>9, <1>10

\* Landline hears of x now.
LEMMA HearStep ==
  ASSUME LandlineTypeOK, BankTrue, NEW x \in Bank, NEW h \in BOOLEAN,
         bank[x] = Unknown, x \in Withdrawals => minedAt[x] # 0 /\ h,
         x \in Deposits => minedAt[x] = 0,
         bank' = [bank EXCEPT ![x] = [created |-> tip, hash |-> h, status |-> "processing"]],
         depositing' \in {depositing, depositing \cup {x}},
         depositing' \subseteq Deposits,
         UNCHANGED <<blockVars, signed, recent, lastBlock, lastFinalized, syncVars>>
  PROVE  ChainOK' /\ BankOK' /\ PhoneOK' /\ BankTrue' /\ Grows
<1>1. ChainOK /\ BankOK /\ PhoneOK
  BY TypesParts
<1> DEFINE r == [created |-> tip, hash |-> h, status |-> "processing"]
<1>2. UNCHANGED <<tip, final, indexed, minedAt, signed, lastBlock, lastFinalized>>
  BY DEF blockVars
<1>3. tip \in Nat /\ tip >= 1 /\ tip <= MaxBlock /\ final \in Nat /\ indexed \in Nat /\ final <= tip
  BY <1>1, LandlineAssumption DEF ChainOK, LandlineAssumption
<1>4. r \in Record /\ r # Unknown /\ r.created = tip /\ r.hash = h /\ r.status # "none"
  BY <1>3, LandlineAssumption DEF Record, Blocks, Status, Settled, Unknown, LandlineAssumption
<1> HIDE DEF r
<1>5. bank' \in [Bank -> Record] /\ bank'[x] = r /\ \A y \in Bank \ {x} : bank'[y] = bank[y]
  BY <1>1, <1>4 DEF BankOK, r
<1>6. ChainOK' /\ PhoneOK'
  BY <1>1, <1>2 DEF ChainOK, PhoneOK
<1>7. BankOK'
  BY <1>1, <1>2, <1>3, <1>4, <1>5 DEF BankOK
<1>8. Grows
  BY <1>2, <1>3, <1>4, <1>5 DEF Grows
<1>9. BankTrue'
  <2>1. \A y \in Bank : bank'[y].status = "none" => bank'[y] = Unknown
    BY <1>4, <1>5 DEF BankTrue
  <2>2. \A d \in Deposits : minedAt'[d] # 0 => bank'[d].created \in 1..minedAt'[d] - 1
    BY <1>2, <1>5 DEF BankTrue, Bank
  <2>3. \A w \in Withdrawals : bank'[w] # Unknown =>
          bank'[w].hash /\ minedAt'[w] \in 1..bank'[w].created
    <3>1. x \in Withdrawals => minedAt[x] \in 1..tip
      BY <1>1 DEF ChainOK
    <3> QED
      BY <1>2, <1>4, <1>5, <3>1 DEF BankTrue, Bank
  <2>4. \A d \in depositing' : bank'[d] # Unknown
    <3>1. depositing \subseteq Bank
      BY <1>1 DEF PhoneOK, Bank
    <3> QED
      BY <1>4, <1>5, <3>1 DEF BankTrue
  <2> QED
    BY <2>1, <2>2, <2>3, <2>4 DEF BankTrue
<1> QED
  BY <1>6, <1>7, <1>8, <1>9

LEMMA WorldStep ==
  ASSUME LandlineTypeOK, LandlineInv, World
  PROVE  LandlineTypeOK' /\ LandlineInv'
<1>1. BankTrue /\ SyncsTrue /\ RowsTrue /\ OneRow
  BY DEF LandlineInv
<1>2. ChainOK /\ BankOK /\ PhoneOK /\ RowsOK /\ SyncOK
  BY TypesParts
<1>3. ChainOK' /\ BankOK' /\ PhoneOK' /\ BankTrue' /\ Grows
  <2>1. CASE NewBlock
    BY <1>1, <2>1, NewBlockStep
  <2>2. CASE Finalize \/ Index
    BY <1>1, <2>2, FinalizeStep
  <2>3. CASE \E d \in Deposits : TellHash(d)
    <3>1. PICK d \in Deposits : TellHash(d)
      BY <2>3
    <3> DEFINE r == [bank[d] EXCEPT !.hash = TRUE]
    <3>2. d \in Bank /\ bank[d] \in Record
      BY <1>2 DEF Bank, BankOK
    <3>3. r \in Record /\ r.created = bank[d].created /\ r.status = bank[d].status /\ r.hash
      BY <3>2 DEF Record
    <3>4. bank[d].status = "processing" /\ UNCHANGED <<blockVars, phoneVars, syncVars>>
          /\ bank' = [bank EXCEPT ![d] = r]
      BY <1>2, <3>1, <3>2 DEF TellHash, BankOK
    <3> HIDE DEF r
    <3> QED
      BY <1>1, <3>2, <3>3, <3>4, TellStep
  <2>4. CASE \E x \in Bank : Settle(x)
    <3>1. PICK x \in Bank, v \in Settled :
            bank[x].status = "processing" /\ bank' = [bank EXCEPT ![x].status = v]
            /\ UNCHANGED <<blockVars, phoneVars, syncVars>>
      BY <2>4 DEF Settle
    <3> DEFINE r == [bank[x] EXCEPT !.status = v]
    <3>2. bank[x] \in Record
      BY <1>2 DEF BankOK
    <3>3. r \in Record /\ r.created = bank[x].created /\ r.status # "none" /\ r.hash = bank[x].hash
      BY <3>2 DEF Record, Status, Settled
    <3>4. bank' = [bank EXCEPT ![x] = r]
      BY <1>2, <3>1 DEF BankOK
    <3> HIDE DEF r
    <3> QED
      BY <1>1, <3>1, <3>3, <3>4, TellStep
  <2>5. CASE \E d \in Deposits : Deposit(d)
    <3>1. PICK d \in Deposits : Deposit(d)
      BY <2>5
    <3>2. d \in Bank /\ d \notin Withdrawals
      BY LandlineAssumption DEF Bank, LandlineAssumption
    <3>3. minedAt[d] = 0
      BY <1>1, <1>2, <3>1, <3>2 DEF Deposit, BankTrue, Unknown
    <3>4. depositing' \subseteq Deposits
      BY <1>2, <3>1 DEF Deposit, PhoneOK
    <3>5. /\ bank[d] = Unknown /\ depositing' = depositing \cup {d}
          /\ bank' = [bank EXCEPT ![d] = [created |-> tip, hash |-> FALSE, status |-> "processing"]]
          /\ UNCHANGED <<blockVars, signed, recent, lastBlock, lastFinalized, syncVars>>
      BY <3>1 DEF Deposit
    <3> QED
      BY <1>1, <3>2, <3>3, <3>4, <3>5, HearStep
  <2>6. CASE \E w \in Withdrawals : Notice(w)
    <3>1. PICK w \in Withdrawals : Notice(w)
      BY <2>6
    <3>2. w \in Bank /\ w \notin Deposits
      BY LandlineAssumption DEF Bank, LandlineAssumption
    <3>3. /\ bank[w] = Unknown /\ minedAt[w] # 0 /\ depositing' = depositing
          /\ bank' = [bank EXCEPT ![w] = [created |-> tip, hash |-> TRUE, status |-> "processing"]]
          /\ UNCHANGED <<blockVars, signed, recent, lastBlock, lastFinalized, syncVars>>
      BY <3>1 DEF Notice, phoneVars
    <3>4. depositing' \subseteq Deposits
      BY <1>2, <3>3 DEF PhoneOK
    <3> QED
      BY <1>1, <3>2, <3>3, <3>4, HearStep
  <2> QED
    BY <2>1, <2>2, <2>3, <2>4, <2>5, <2>6 DEF World
<1>4. UNCHANGED <<recent, lastBlock, lastFinalized, sync, behind>>
  BY DEF World, NewBlock, Finalize, Index, TellHash, Deposit, Notice, Settle, phoneVars, syncVars
<1>5. SyncOK'
  BY <1>2, <1>4 DEF SyncOK
<1>6. RowsOK' /\ RowsTrue'
  BY <1>1, <1>3, <1>4, RowsStill
<1>7. SyncsTrue'
  BY <1>1, <1>3, <1>4, SyncsStill
<1>8. OneRow'
  BY <1>1, <1>3, <1>4, OneRowStill
<1>9. LandlineTypeOK'
  BY <1>3, <1>5, <1>6, TypesParts, PTL
<1> QED
  BY <1>3, <1>6, <1>7, <1>8, <1>9 DEF LandlineInv

-----------------------------------------------------------------------------
(* Steps of the phone that show what is pending, or nothing *)

Phone ==
    \/ \E w \in Withdrawals : Withdraw(w)
    \/ \E d \in Deposits : DepositShown(d) \/ DepositFails(d)

LEMMA StillGrows ==
  ASSUME LandlineTypeOK, UNCHANGED <<final, indexed, minedAt, bank>>
  PROVE  Grows
BY TypesParts DEF Grows, ChainOK, BankOK, Record, Blocks

\* Pending rows with the truth about their bank transfer are added.
LEMMA PendingStep ==
  ASSUME LandlineTypeOK, LandlineInv, NEW N \in SUBSET Clog, recent' = recent \cup N,
         \A c \in N : /\ c.mark = "pending"
                      /\ \/ c.kind = "op" /\ c.of \in Withdrawals
                         \/ c.kind = "bank" /\ IsBank(c) /\ c.of \notin Withdrawals,
         depositing' \subseteq depositing, signed' \in [Withdrawals -> 0..tip],
         UNCHANGED <<blockVars, bank, lastBlock, lastFinalized, syncVars>>
  PROVE  LandlineTypeOK' /\ LandlineInv'
<1>1. BankTrue /\ SyncsTrue /\ RowsTrue /\ OneRow
  BY DEF LandlineInv
<1>2. ChainOK /\ BankOK /\ PhoneOK /\ RowsOK /\ SyncOK
  BY TypesParts
<1>3. UNCHANGED <<tip, final, indexed, minedAt, sync, behind>>
  BY DEF blockVars, syncVars
<1>4. ChainOK' /\ BankOK' /\ SyncOK'
  BY <1>2, <1>3 DEF ChainOK, BankOK, SyncOK
<1>5. PhoneOK'
  BY <1>2, <1>3 DEF PhoneOK
<1>6. RowsOK'
  BY <1>2, <1>3 DEF RowsOK, IsBank
<1>7. Grows
  BY <1>3, StillGrows
<1>8. RowsTrue'
  <2>1. \A c \in recent' : c.kind = "log" => c \in recent /\ c.mark # "pending"
    BY <1>1 DEF RowsTrue
  <2>2. \A c \in recent' : c.kind = "bank" =>
          /\ bank'[c.of] # Unknown /\ c.time = bank'[c.of].created
          /\ c.of \in Withdrawals => c.hash /\ (~behind' => minedAt'[c.of] > lastBlock')
    BY <1>1, <1>3 DEF RowsTrue, IsBank
  <2>3. \A c, d \in recent' : c.kind = "log" /\ d.kind = "log" /\ c.of = d.of => c = d
    BY <1>1, <2>1 DEF RowsTrue
  <2> QED
    BY <2>1, <2>2, <2>3 DEF RowsTrue
<1>9. OneRow'
  BY <1>1, <1>3, <1>4, <1>7, OneRowStill
<1>10. SyncsTrue'
  BY <1>1, <1>3, <1>4, <1>7, SyncsStill
<1>11. BankTrue'
  BY <1>1, <1>3 DEF BankTrue
<1>12. LandlineTypeOK'
  BY <1>4, <1>5, <1>6, TypesParts, PTL
<1> QED
  BY <1>8, <1>9, <1>10, <1>11, <1>12 DEF LandlineInv

LEMMA PhoneStep ==
  ASSUME LandlineTypeOK, LandlineInv, Phone
  PROVE  LandlineTypeOK' /\ LandlineInv'
<1>1. ChainOK /\ BankOK /\ PhoneOK /\ BankTrue
  BY TypesParts DEF LandlineInv
<1>2. tip \in 1..MaxBlock /\ tip \in Nat
  BY <1>1, LandlineAssumption DEF ChainOK, LandlineAssumption
<1>3. CASE \E w \in Withdrawals : Withdraw(w)
  <2>1. PICK w \in Withdrawals : Withdraw(w)
    BY <1>3
  <2> DEFINE c == [of |-> w, kind |-> "op", hash |-> FALSE, time |-> tip,
                   mark |-> "pending", offchain |-> "none"]
  <2>2. c \in Clog /\ c.mark = "pending" /\ c.kind = "op" /\ c.of = w
    BY <1>2 DEF Clog, Bank, Status
  <2>3. /\ recent' = recent \cup {c} /\ signed' = [signed EXCEPT ![w] = tip]
        /\ depositing' = depositing
        /\ UNCHANGED <<blockVars, bank, lastBlock, lastFinalized, syncVars>>
    BY <2>1 DEF Withdraw
  <2>4. signed' \in [Withdrawals -> 0..tip]
    BY <1>1, <1>2, <2>3 DEF PhoneOK
  <2> HIDE DEF c
  <2>5. {c} \in SUBSET Clog /\ \A e \in {c} : e.mark = "pending" /\ e.kind = "op" /\ e.of \in Withdrawals
    BY <2>2
  <2>6. recent' = recent \cup {c} /\ depositing' \subseteq depositing
        /\ UNCHANGED <<blockVars, bank, lastBlock, lastFinalized, syncVars>>
    BY <2>3
  <2> QED
    BY <2>4, <2>5, <2>6, PendingStep
<1>4. CASE \E d \in Deposits : DepositShown(d)
  <2>1. PICK d \in Deposits : DepositShown(d)
    BY <1>4
  <2> DEFINE r == [bank[d] EXCEPT !.hash = FALSE, !.status = "processing"]
             c == [BankClog(d, r) EXCEPT !.mark = "pending"]
  <2>2. d \in Bank /\ d \notin Withdrawals
    BY LandlineAssumption DEF Bank, LandlineAssumption
  <2>3. bank[d] # Unknown
    BY <1>1, <2>1 DEF DepositShown, BankTrue
  <2>4. bank[d] \in Record /\ bank[d].created \in 1..MaxBlock
    BY <1>1, <2>2, <2>3, Created DEF BankOK
  <2>5. r.created = bank[d].created /\ r.hash = FALSE /\ r.status = "processing"
    BY <2>4 DEF Record
  <2> HIDE DEF r
  <2>6. /\ c \in Clog /\ c.of = d /\ c.kind = "bank" /\ c.mark = "pending"
        /\ c.time = bank[d].created /\ c.offchain = "processing"
    BY <2>2, <2>4, <2>5 DEF BankClog, Clog, Status
  <2>7. IsBank(c)
    BY <2>2, <2>3, <2>6 DEF IsBank
  <2>8. /\ recent' = recent \cup {c} /\ depositing' \subseteq depositing /\ signed' = signed
        /\ UNCHANGED <<blockVars, bank, lastBlock, lastFinalized, syncVars>>
    BY <2>1 DEF DepositShown, r
  <2>9. signed' \in [Withdrawals -> 0..tip]
    BY <1>1, <2>8 DEF PhoneOK
  <2> HIDE DEF c
  <2>10. /\ {c} \in SUBSET Clog
         /\ \A e \in {c} : e.mark = "pending" /\ e.kind = "bank" /\ IsBank(e) /\ e.of \notin Withdrawals
    BY <2>2, <2>6, <2>7
  <2> QED
    BY <2>8, <2>9, <2>10, PendingStep
<1>5. CASE \E d \in Deposits : DepositFails(d)
  <2>1. /\ recent' = recent \cup {} /\ {} \in SUBSET Clog /\ depositing' \subseteq depositing /\ signed' = signed
        /\ UNCHANGED <<blockVars, bank, lastBlock, lastFinalized, syncVars>>
    BY <1>5 DEF DepositFails
  <2>2. signed' \in [Withdrawals -> 0..tip]
    BY <1>1, <2>1 DEF PhoneOK
  <2>3. \A e \in {} : e.mark = "pending" /\ e.kind = "op" /\ e.of \in Withdrawals
    OBVIOUS
  <2> QED
    BY <2>1, <2>2, <2>3, PendingStep
<1> QED
  BY <1>3, <1>4, <1>5 DEF Phone

-----------------------------------------------------------------------------
(* Steps of a sync before it is applied *)

\* Only syncs change; each is as it was, or idle, or true.
LEMMA SyncingStep ==
  ASSUME LandlineTypeOK, LandlineInv, SyncOK', depositing' \subseteq depositing,
         UNCHANGED <<blockVars, bank, signed, recent, lastBlock, lastFinalized, behind>>,
         \A s \in Syncs : sync'[s] = sync[s] \/ SyncTrue(s)'
  PROVE  LandlineTypeOK' /\ LandlineInv'
<1>1. BankTrue /\ SyncsTrue /\ RowsTrue /\ OneRow
  BY DEF LandlineInv
<1>2. ChainOK /\ BankOK /\ PhoneOK /\ RowsOK /\ SyncOK
  BY TypesParts
<1>3. UNCHANGED <<tip, final, indexed, minedAt>>
  BY DEF blockVars
<1>4. ChainOK' /\ BankOK' /\ PhoneOK' /\ RowsOK'
  BY <1>2, <1>3 DEF ChainOK, BankOK, PhoneOK, RowsOK
<1>5. Grows
  BY <1>3, StillGrows
<1>6. RowsTrue'
  BY <1>1, <1>4, <1>5, RowsStill
<1>7. OneRow'
  BY <1>1, <1>4, <1>5, OneRowStill
<1>8. SyncsTrue'
  <2>1. \A s \in Syncs : SyncTrue(s)'
    BY <1>1, <1>2, <1>4, <1>5, SyncStill DEF SyncsTrue
  <2> QED
    BY <1>1, <2>1 DEF SyncsTrue
<1>9. BankTrue'
  BY <1>1, <1>3 DEF BankTrue
<1>10. LandlineTypeOK'
  BY <1>4, TypesParts, PTL
<1> QED
  BY <1>6, <1>7, <1>8, <1>9, <1>10 DEF LandlineInv

\* What a sync reads are the transfers in its range.
LEMMA ReadStep ==
  ASSUME LandlineTypeOK, LandlineInv, NEW s \in Syncs, NEW fin \in FinalizedBlocks, Read(s, fin)
  PROVE  SyncOK' /\ SyncTrue(s)' /\ \A q \in Syncs \ {s} : sync'[q] = sync[q]
<1>1. ChainOK /\ SyncOK /\ SyncTrue(s)
  BY TypesParts DEF LandlineInv, SyncsTrue
<1>2. /\ sync[s].pc = "sent" /\ indexed >= fin
      /\ sync' = [sync EXCEPT ![s].pc = "read", ![s].lastBlock = indexed, ![s].fin = fin,
                              ![s].logs = TransfersSince(sync[s].since)]
      /\ UNCHANGED <<final, indexed, minedAt, lastFinalized, behind>>
  BY DEF Read, LatestBlock, blockVars, phoneVars
<1>3. sync[s] \in Sync
  BY <1>1 DEF SyncOK
<1>4. fin \in Nat /\ fin <= final /\ final \in Nat /\ indexed \in Nat /\ MaxBlock \in Nat
      /\ fin <= MaxBlock /\ indexed <= MaxBlock
  BY <1>1, LandlineAssumption DEF FinalizedBlocks, ChainOK, LandlineAssumption
<1>5. sync[s].since <= final /\ (~behind => sync[s].since <= lastFinalized)
  BY <1>1, <1>2 DEF SyncTrue
<1>6. TransfersSince(sync[s].since) \subseteq Clog
  <2>1. \A y \in Bank : minedAt[y] # 0 => minedAt[y] \in 1..MaxBlock
    BY <1>1, <1>4 DEF ChainOK
  <2>2. \A y \in Bank : minedAt[y] # 0 => LogClog(y) \in Clog
    BY <2>1 DEF LogClog, Clog, Status
  <2> QED
    BY <2>2 DEF TransfersSince
<1>7. /\ sync'[s].pc = "read" /\ sync'[s].lastBlock = indexed /\ sync'[s].fin = fin
      /\ sync'[s].since = sync[s].since /\ sync'[s].logs = TransfersSince(sync[s].since)
      /\ sync'[s] \in Sync
      /\ \A q \in Syncs \ {s} : sync'[q] = sync[q]
      /\ sync' \in [Syncs -> Sync]
  <2> DEFINE logs == TransfersSince(sync[s].since)
             r == [sync[s] EXCEPT !.pc = "read", !.lastBlock = indexed, !.fin = fin, !.logs = logs]
  <2>1. logs \in SUBSET Clog /\ indexed \in Blocks /\ fin \in Blocks
    BY <1>4, <1>6 DEF Blocks
  <2>2. sync' = [sync EXCEPT ![s] = r]
    BY <1>1, <1>2 DEF SyncOK
  <2> HIDE DEF logs
  <2>3. /\ r \in Sync /\ r.pc = "read" /\ r.lastBlock = indexed /\ r.fin = fin
        /\ r.since = sync[s].since /\ r.logs = logs
    BY <1>3, <2>1 DEF Sync
  <2> HIDE DEF r
  <2> QED
    BY <1>1, <2>2, <2>3 DEF SyncOK, logs
<1>8. \A y \in Bank : InRange(s, y)' <=> minedAt[y] \in sync[s].since..indexed /\ minedAt[y] # 0
  BY <1>2, <1>7 DEF InRange
<1>9. sync'[s].logs = LogsOf(s)'
  BY <1>2, <1>7, <1>8 DEF LogsOf, TransfersSince, LogClog
<1>10. SyncTrue(s)'
  BY <1>2, <1>4, <1>5, <1>7, <1>9 DEF SyncTrue
<1> QED
  BY <1>1, <1>2, <1>7, <1>10 DEF SyncOK

\* What Landline tells is what it knows now.
LEMMA AnswerStep ==
  ASSUME LandlineTypeOK, LandlineInv, NEW s \in Syncs, Answer(s)
  PROVE  SyncOK' /\ SyncTrue(s)' /\ \A q \in Syncs \ {s} : sync'[q] = sync[q]
<1>1. ChainOK /\ BankOK /\ SyncOK /\ SyncTrue(s) /\ BankTrue
  BY TypesParts DEF LandlineInv, SyncsTrue
<1>2. /\ sync[s].pc = "read"
      /\ sync' = [sync EXCEPT ![s].pc = "answered", ![s].logs = Join(sync[s].logs, bank)]
      /\ UNCHANGED <<final, indexed, minedAt, lastFinalized, behind, bank>>
  BY DEF Answer, LandlineTransfersFor, blockVars, phoneVars
<1>3. sync[s] \in Sync
  BY <1>1 DEF SyncOK
<1>4. sync[s].logs = LogsOf(s)
  BY <1>1, <1>2 DEF SyncTrue
<1>5. Join(LogsOf(s), bank) \subseteq Clog
  <2>1. \A x \in Bank : New(s, x, bank[x]) \subseteq Clog
    <3> SUFFICES ASSUME NEW x \in Bank, NEW n \in New(s, x, bank[x]) PROVE n \in Clog
      OBVIOUS
    <3>1. bank[x] \in Record
      BY <1>1 DEF BankOK
    <3>2. CASE InRange(s, x) /\ bank[x] # Unknown /\ bank[x].hash
      <4>1. LogClog(x) \in Clog /\ IsLog(LogClog(x)) /\ bank[x].status \in Status
            /\ bank[x].status # "none"
        BY <1>1, <3>1, <3>2, LogClogTrue DEF Record, BankTrue
      <4>2. n = [LogClog(x) EXCEPT !.offchain = bank[x].status]
        BY <3>2 DEF New
      <4> QED
        BY <4>1, <4>2, NewsTrue
    <3>3. CASE n = LogClog(x) /\ InRange(s, x)
      BY <3>3, LogClogTrue
    <3>4. CASE n = BankClog(x, bank[x]) /\ bank[x] # Unknown
      BY <3>1, <3>4, Created DEF BankClog, Clog, Record
    <3> QED
      BY <3>2, <3>3, <3>4 DEF New
  <2> QED
    BY <1>1, <2>1, JoinIs DEF BankOK
<1>6. /\ sync'[s].pc = "answered" /\ sync'[s].lastBlock = sync[s].lastBlock
      /\ sync'[s].fin = sync[s].fin /\ sync'[s].since = sync[s].since
      /\ sync'[s].logs = Join(LogsOf(s), bank)
      /\ sync'[s] \in Sync
      /\ \A q \in Syncs \ {s} : sync'[q] = sync[q]
      /\ sync' \in [Syncs -> Sync]
  BY <1>1, <1>2, <1>3, <1>4, <1>5 DEF SyncOK, Sync
<1>7. LogsOf(s)' = LogsOf(s)
  BY <1>2, <1>6 DEF LogsOf, InRange, LogClog
<1>8. \E told \in [Bank -> Record] : Told(s, told)'
  <2>1. ASSUME NEW x \in Bank PROVE Earlier(bank[x], x, sync[s].since)'
    BY <1>1, <1>2, <1>6 DEF Earlier, BankTrue
  <2>2. Told(s, bank)'
    BY <1>2, <1>6, <1>7, <2>1 DEF Told, Earlier
  <2> QED
    BY <1>1, <1>2, <2>2 DEF BankOK, Told, Earlier
<1>9. SyncTrue(s)'
  BY <1>1, <1>2, <1>6, <1>8 DEF SyncTrue
<1> QED
  BY <1>1, <1>2, <1>6, <1>9 DEF SyncOK

Syncing ==
    \E s \in Syncs : \/ \E fin \in FinalizedBlocks : Read(s, fin)
                     \/ Answer(s) \/ StartSync(s) \/ AppLoad(s) \/ SyncFails(s) \/ SkipSync(s)

LEMMA SyncingTrue ==
  ASSUME LandlineTypeOK, LandlineInv, Syncing
  PROVE  LandlineTypeOK' /\ LandlineInv'
<1>1. ChainOK /\ PhoneOK /\ SyncOK
  BY TypesParts
<1>2. /\ depositing' \subseteq depositing
      /\ UNCHANGED <<blockVars, bank, signed, recent, lastBlock, lastFinalized, behind>>
  BY DEF Syncing, Read, Answer, StartSync, AppLoad, SyncFails, SkipSync, phoneVars
<1>3. final' = final /\ lastFinalized' = lastFinalized
      /\ final \in Nat /\ lastFinalized \in Nat /\ lastFinalized <= final /\ lastFinalized \in Blocks
  BY <1>1, <1>2, LandlineAssumption DEF ChainOK, PhoneOK, blockVars, Blocks, LandlineAssumption
<1>6. Idle \in Sync /\ 0 \in Blocks
  <2>1. 0 \in Blocks
    BY LandlineAssumption DEF Blocks, LandlineAssumption
  <2> QED
    BY <2>1 DEF Idle, Sync
<1> DEFINE Begun0(q) == \/ q.pc = "idle"
                        \/ q.pc = "sent" /\ q.since <= final /\ q.since <= lastFinalized
<1>4. \A s \in Syncs : Begun0(sync'[s]) => SyncTrue(s)'
  BY <1>3 DEF SyncTrue
<1>5. SyncOK' /\ \A s \in Syncs : sync'[s] = sync[s] \/ SyncTrue(s)'
  <2>1. CASE \E s \in Syncs : \E fin \in FinalizedBlocks : Read(s, fin)
    BY <2>1, ReadStep
  <2>2. CASE \E s \in Syncs : Answer(s)
    BY <2>2, AnswerStep
  <2>3. CASE \E s \in Syncs : StartSync(s) \/ SyncFails(s) \/ SkipSync(s)
    <3>1. PICK s \in Syncs : \/ sync' = [sync EXCEPT ![s] = Idle]
                             \/ sync' = [sync EXCEPT ![s] = [Idle EXCEPT !.pc = "sent",
                                                                         !.since = lastFinalized]]
      BY <2>3 DEF StartSync, SyncFails, SkipSync
    <3> DEFINE q == [Idle EXCEPT !.pc = "sent", !.since = lastFinalized]
    <3>2. Idle \in Sync /\ q \in Sync /\ Begun0(Idle) /\ Begun0(q)
      <4>1. q.pc = "sent" /\ q.since <= final /\ q.since <= lastFinalized /\ Idle.pc = "idle"
        BY <1>3 DEF Idle
      <4>2. q \in Sync
        BY <1>3, <1>6 DEF Idle, Sync
      <4> QED
        BY <1>6, <4>1, <4>2
    <3>3. SyncOK'
      BY <1>1, <1>2, <3>1, <3>2 DEF SyncOK
    <3>4. \A p \in Syncs : sync'[p] = sync[p] \/ Begun0(sync'[p])
      BY <1>1, <3>1, <3>2 DEF SyncOK
    <3> QED
      BY <1>4, <3>3, <3>4
  <2>4. CASE \E s \in Syncs : AppLoad(s)
    <3> DEFINE q == [Idle EXCEPT !.pc = "sent", !.fromScratch = TRUE]
    <3>1. PICK s \in Syncs : sync' = [p \in Syncs |-> IF p = s THEN q ELSE Idle]
      BY <2>4 DEF AppLoad
    <3>2. Idle \in Sync /\ q \in Sync /\ Begun0(Idle) /\ Begun0(q)
      <4>1. q.pc = "sent" /\ q.since <= final /\ q.since <= lastFinalized /\ Idle.pc = "idle"
        BY <1>3 DEF Idle
      <4>2. q \in Sync
        BY <1>3, <1>6 DEF Idle, Sync
      <4> QED
        BY <1>6, <4>1, <4>2
    <3>3. SyncOK'
      BY <1>1, <1>2, <3>1, <3>2 DEF SyncOK
    <3>4. \A p \in Syncs : Begun0(sync'[p])
      BY <3>1, <3>2
    <3> QED
      BY <1>4, <3>3, <3>4
  <2> QED
    BY <2>1, <2>2, <2>3, <2>4 DEF Syncing
<1> QED
  BY <1>2, <1>5, SyncingStep

-----------------------------------------------------------------------------
(* applySync *)

LEMMA MarkFields ==
  ASSUME NEW c \in Clog, NEW fin
  PROVE  LET e == MarkFinal(c, fin) IN
         /\ e \in Clog /\ e.of = c.of /\ e.kind = c.kind /\ e.hash = c.hash
         /\ e.time = c.time /\ e.offchain = c.offchain
         /\ e.mark = "pending" <=> c.mark = "pending" /\ ~(c.time <= fin)
<1>1. CASE c.time <= fin
  BY <1>1 DEF MarkFinal, Clog
<1>2. CASE ~(c.time <= fin)
  BY <1>2 DEF MarkFinal
<1> QED
  BY <1>1, <1>2

LEMMA ApplyStep ==
  ASSUME LandlineTypeOK, LandlineInv, NEW s \in Syncs, ApplySync(s)
  PROVE  LandlineTypeOK' /\ LandlineInv' /\ BundledOnceKnown'
<1>1. BankTrue /\ SyncsTrue /\ RowsTrue /\ OneRow
  BY DEF LandlineInv
<1>2. ChainOK /\ BankOK /\ PhoneOK /\ RowsOK /\ SyncOK
  BY TypesParts
<1>3. /\ sync[s].pc = "answered"
      /\ recent' = {MarkFinal(c, sync[s].fin) : c \in Merged(s)} \cup StillPending(s, Merged(s))
      /\ lastBlock' = sync[s].lastBlock /\ lastFinalized' = sync[s].fin
      /\ sync' = [sync EXCEPT ![s] = Idle]
      /\ behind' = (behind \/ StaleAnswer(s))
      /\ UNCHANGED <<tip, final, minedAt, indexed, bank, signed, depositing>>
  BY DEF ApplySync, Merged, blockVars
<1>4. PICK told \in [Bank -> Record] : Answered(s, told)
  BY <1>1, <1>3 DEF SyncsTrue, SyncTrue, Answered
<1>5. /\ sync[s].lastBlock \in Nat /\ sync[s].fin \in Nat /\ sync[s].since \in Nat
      /\ sync[s].lastBlock <= indexed /\ sync[s].fin <= sync[s].lastBlock
      /\ sync[s].fin <= final /\ indexed \in Nat /\ final \in Nat
  BY <1>1, <1>2, <1>3 DEF SyncsTrue, SyncTrue, SyncOK, Sync, Blocks, ChainOK
<1>6. ~behind' <=> Fresh(s)
  BY <1>3 DEF Fresh
<1>7. ASSUME NEW c \in Merged(s)
      PROVE  LET e == MarkFinal(c, sync[s].fin) IN
             /\ c \in Clog /\ c.of \in Bank /\ (IsLog(c) \/ IsBank(c))
             /\ e \in Clog /\ e.of = c.of /\ e.kind = c.kind /\ e.hash = c.hash
             /\ e.time = c.time /\ e.offchain = c.offchain
             /\ e.mark = "pending" <=> c.mark = "pending" /\ ~(c.time <= sync[s].fin)
  BY <1>4, MergedTrue, MarkFields
<1>8. ASSUME NEW e \in recent'
      PROVE  \/ \E c \in Merged(s) : e = MarkFinal(c, sync[s].fin)
             \/ /\ e \in recent /\ e.mark = "pending"
                /\ ~\E c \in Merged(s) : SameOp(e, c)
  BY <1>3 DEF StillPending
<1>9. ASSUME NEW e \in recent', e.mark # "pending" \/ e.kind = "log"
      PROVE  \E c \in Merged(s) : e = MarkFinal(c, sync[s].fin)
  BY <1>1, <1>8, <1>9 DEF RowsTrue
<1>10. ChainOK' /\ BankOK'
  BY <1>2, <1>3 DEF ChainOK, BankOK
<1>11. PhoneOK'
  BY <1>2, <1>3, <1>5 DEF PhoneOK
<1>12. SyncOK'
  <2>1. Idle \in Sync
    <3>1. 0 \in Blocks
      BY LandlineAssumption DEF Blocks, LandlineAssumption
    <3> QED
      BY <3>1 DEF Idle, Sync
  <2> QED
    BY <1>2, <1>3, <2>1 DEF SyncOK
<1>13. RowsOK'
  <2>1. ASSUME NEW e \in recent'
        PROVE  /\ e \in Clog
               /\ e.kind = "op" => e.of \in Withdrawals /\ e.mark = "pending"
               /\ e.kind = "log" => e.hash /\ e.time = minedAt'[e.of]
               /\ e.kind = "bank" => e.offchain # "none"
    <3>1. CASE \E c \in Merged(s) : e = MarkFinal(c, sync[s].fin)
      <4>1. PICK c \in Merged(s) : e = MarkFinal(c, sync[s].fin)
        BY <3>1
      <4> QED
        BY <1>3, <1>7, <4>1 DEF IsLog, IsBank
    <3>2. CASE e \in recent
      BY <1>2, <1>3, <3>2 DEF RowsOK
    <3> QED
      BY <1>8, <3>1, <3>2
  <2> QED
    BY <2>1 DEF RowsOK
<1>14. RowsTrue'
  <2>1. ASSUME NEW e \in recent', e.kind = "log" PROVE e.mark # "pending"
    <3>1. PICK c \in Merged(s) : e = MarkFinal(c, sync[s].fin)
      BY <1>9, <2>1
    <3> QED
      BY <1>7, <2>1, <3>1 DEF IsLog, IsBank
  <2>2. ASSUME NEW e \in recent', e.kind = "bank"
        PROVE  /\ bank'[e.of] # Unknown /\ e.time = bank'[e.of].created
               /\ e.of \in Withdrawals => e.hash /\ (~behind' => minedAt'[e.of] > lastBlock')
    <3>1. CASE \E c \in Merged(s) : e = MarkFinal(c, sync[s].fin)
      <4>1. PICK c \in Merged(s) : e = MarkFinal(c, sync[s].fin)
        BY <3>1
      <4>2. IsBank(c) /\ c.kind = "bank" /\ e.of = c.of /\ e.hash = c.hash /\ e.time = c.time
        BY <1>7, <2>2, <4>1 DEF IsLog
      <4>3. c.of \in Withdrawals /\ ~behind' => minedAt[c.of] > sync[s].lastBlock
        BY <1>4, <1>6, <4>2, MergedWithdrawal
      <4> QED
        BY <1>3, <4>2, <4>3 DEF IsBank
    <3>2. CASE e \in recent /\ ~\E c \in Merged(s) : SameOp(e, c)
      <4>1. /\ bank[e.of] # Unknown /\ e.time = bank[e.of].created /\ e.of \in Bank
            /\ e.of \in Withdrawals => e.hash
        BY <1>1, <2>2, <3>2, RowKinds DEF RowsTrue
      <4>2. ASSUME e.of \in Withdrawals, ~behind', ~(minedAt[e.of] > sync[s].lastBlock) PROVE FALSE
        <5>1. minedAt[e.of] \in 1..sync[s].lastBlock
          BY <1>1, <1>2, <1>5, <4>1, <4>2 DEF BankTrue, ChainOK
        <5>2. PICK c \in Merged(s) : c.of = e.of /\ c.hash
          BY <1>4, <1>6, <4>1, <4>2, <5>1, MergedHasTx
        <5> QED
          BY <3>2, <4>1, <4>2, <5>2 DEF SameOp
      <4> QED
        BY <1>3, <4>1, <4>2
    <3> QED
      BY <1>8, <3>1, <3>2
  <2>3. ASSUME NEW e \in recent', NEW f \in recent', e.kind = "log", f.kind = "log", e.of = f.of
        PROVE  e = f
    <3>1. PICK c \in Merged(s) : e = MarkFinal(c, sync[s].fin)
      BY <1>9, <2>3
    <3>2. PICK d \in Merged(s) : f = MarkFinal(d, sync[s].fin)
      BY <1>9, <2>3
    <3>3. c.hash /\ d.hash /\ c.of = d.of
      BY <1>7, <2>3, <3>1, <3>2 DEF IsLog, IsBank
    <3> QED
      BY <1>4, <3>1, <3>2, <3>3, MergedOnce
  <2> QED
    BY <2>1, <2>2, <2>3 DEF RowsTrue
<1>15. OneRow'
  <2> SUFFICES ASSUME ~behind', NEW x \in Bank, minedAt'[x] \in 1..lastBlock'
               PROVE  \E c : {d \in Shown(x)' : d.hash} = {c}
    BY DEF OneRow
  <2>1. PICK c \in Merged(s) : c.of = x /\ c.hash /\ (c.mark # "pending" \/ c.time <= sync[s].fin)
    BY <1>3, <1>4, <1>6, MergedHasTx
  <2> DEFINE e == MarkFinal(c, sync[s].fin)
  <2>2. e \in recent' /\ e.of = x /\ e.hash /\ e.mark # "pending"
    BY <1>3, <1>7, <2>1
  <2>3. ASSUME NEW f \in recent', f.of = x, f.mark # "pending", f.hash PROVE f = e
    <3>1. PICK d \in Merged(s) : f = MarkFinal(d, sync[s].fin)
      BY <1>9, <2>3
    <3>2. d.of = x /\ d.hash
      BY <1>7, <2>3, <3>1
    <3> QED
      BY <1>4, <2>1, <3>1, <3>2, MergedOnce
  <2> HIDE DEF e
  <2>4. {d \in Shown(x)' : d.hash} = {e}
    BY <2>2, <2>3 DEF Shown, Rows
  <2> QED
    BY <2>4
<1>16. SyncsTrue'
  <2>1. ASSUME NEW q \in Syncs PROVE SyncTrue(q)'
    <3>1. CASE q = s
      <4>1. sync'[q].pc = "idle"
        BY <1>2, <1>3, <3>1 DEF SyncOK, Idle
      <4> QED
        BY <4>1 DEF SyncTrue
    <3>2. CASE q # s
      <4>1. sync'[q] = sync[q]
        BY <1>2, <1>3, <3>2 DEF SyncOK
      <4>2. SyncTrue(q)
        BY <1>1 DEF SyncsTrue
      <4>3. LogsOf(q)' = LogsOf(q)
        BY <1>3, <4>1 DEF LogsOf, InRange, LogClog
      <4>4. \A t : Told(q, t)' <=> Told(q, t)
        BY <1>3, <4>1, <4>3 DEF Told, Earlier
      <4>5. sync[q].pc # "idle" /\ ~behind' => sync[q].since <= lastFinalized'
        <5>1. sync[q].since \in Nat
          BY <1>2 DEF SyncOK, Sync, Blocks
        <5>2. ~behind' => ~behind /\ lastFinalized <= sync[s].fin /\ lastFinalized \in Nat
          BY <1>4, <1>6, FreshHeights DEF Fresh
        <5> QED
          BY <1>3, <1>5, <4>2, <5>1, <5>2 DEF SyncTrue
      <4> QED
        BY <1>3, <4>1, <4>2, <4>3, <4>4, <4>5 DEF SyncTrue
    <3> QED
      BY <3>1, <3>2
  <2> QED
    BY <1>3, <1>5, <2>1 DEF SyncsTrue
<1>17. BankTrue'
  BY <1>1, <1>3 DEF BankTrue
<1>18. BundledOnceKnown'
  <2> SUFFICES ASSUME NEW x \in Bank, NEW e \in Shown(x)', e.hash, e.offchain # "none"
               PROVE  Cardinality(Shown(x)') = 1
    BY DEF BundledOnceKnown
  <2>1. e \in recent' /\ e.of = x /\ e.mark # "pending"
    BY DEF Shown, Rows
  <2>2. PICK c \in Merged(s) : e = MarkFinal(c, sync[s].fin)
    BY <1>9, <2>1
  <2>3. ASSUME NEW f \in Shown(x)' PROVE f = e
    <3>1. f \in recent' /\ f.of = x /\ f.mark # "pending"
      BY <2>3 DEF Shown, Rows
    <3>2. PICK d \in Merged(s) : f = MarkFinal(d, sync[s].fin)
      BY <1>9, <3>1
    <3>3. c.of = d.of /\ c.hash /\ c.offchain # "none"
      BY <1>7, <2>1, <2>2, <3>1, <3>2
    <3> QED
      BY <1>4, <2>2, <3>2, <3>3, MergedBundled
  <2>4. Shown(x)' = {e}
    BY <2>3
  <2> QED
    BY <2>4, FS_Singleton
<1>19. LandlineTypeOK'
  BY <1>10, <1>11, <1>12, <1>13, TypesParts, PTL
<1> QED
  BY <1>14, <1>15, <1>16, <1>17, <1>18, <1>19 DEF LandlineInv

-----------------------------------------------------------------------------
(* Theorems *)

LEMMA LandlineStart ==
  LandlineInit => LandlineTypeOK /\ LandlineInv /\ BundledOnceKnown
<1> SUFFICES ASSUME LandlineInit PROVE LandlineTypeOK /\ LandlineInv /\ BundledOnceKnown
  OBVIOUS
<1>1. 0 \in Blocks /\ MaxBlock \in Nat /\ 1 \in 1..MaxBlock
  BY LandlineAssumption DEF Blocks, LandlineAssumption
<1>2. Unknown \in Record /\ Idle \in Sync /\ Idle.pc = "idle"
      /\ Unknown.created = 0 /\ Unknown.status = "none"
  BY <1>1 DEF Unknown, Record, Status, Idle, Sync
<1>3. ChainOK /\ BankOK /\ PhoneOK /\ RowsOK /\ SyncOK
  <2>1. ChainOK
    BY <1>1 DEF LandlineInit, ChainOK
  <2>2. BankOK
    BY <1>2 DEF LandlineInit, BankOK
  <2>3. PhoneOK /\ RowsOK
    BY DEF LandlineInit, PhoneOK, RowsOK
  <2>4. SyncOK
    BY <1>2 DEF LandlineInit, SyncOK
  <2> QED
    BY <2>1, <2>2, <2>3, <2>4
<1>4. BankTrue
  BY DEF LandlineInit, BankTrue, Bank
<1>5. SyncsTrue
  BY <1>2 DEF LandlineInit, SyncsTrue, SyncTrue
<1>6. RowsTrue
  BY DEF LandlineInit, RowsTrue
<1>7. OneRow
  BY DEF LandlineInit, OneRow
<1>8. BundledOnceKnown
  BY DEF LandlineInit, BundledOnceKnown, Shown, Rows
<1> QED
  BY <1>3, <1>4, <1>5, <1>6, <1>7, <1>8, TypesParts DEF LandlineInv

LEMMA OtherSteps ==
  ASSUME LandlineTypeOK, World \/ Phone \/ Syncing \/ UNCHANGED landlineVars
  PROVE  \A c : (c \in recent' /\ c.mark # "pending") <=> (c \in recent /\ c.mark # "pending")
<1>1. CASE World
  BY <1>1 DEF World, NewBlock, Finalize, Index, TellHash, Deposit, Notice, Settle, phoneVars
<1>2. CASE \E w \in Withdrawals : Withdraw(w)
  BY <1>2 DEF Withdraw
<1>3. CASE \E d \in Deposits : DepositShown(d)
  <2>1. PICK d \in Deposits : DepositShown(d)
    BY <1>3
  <2> DEFINE r == [bank[d] EXCEPT !.hash = FALSE, !.status = "processing"]
             c == [BankClog(d, r) EXCEPT !.mark = "pending"]
  <2>2. recent' = recent \cup {c}
    BY <2>1 DEF DepositShown
  <2>3. c.mark = "pending"
    BY DEF BankClog
  <2> HIDE DEF c
  <2> QED
    BY <2>2, <2>3
<1>4. CASE \E d \in Deposits : DepositFails(d)
  BY <1>4 DEF DepositFails
<1>5. CASE Syncing
  BY <1>5 DEF Syncing, Read, Answer, StartSync, AppLoad, SyncFails, SkipSync, phoneVars
<1>6. CASE UNCHANGED landlineVars
  BY <1>6 DEF landlineVars, phoneVars
<1> QED
  BY <1>1, <1>2, <1>3, <1>4, <1>5, <1>6 DEF Phone

LEMMA IdleStep ==
  ASSUME LandlineTypeOK, LandlineInv, UNCHANGED landlineVars
  PROVE  LandlineTypeOK' /\ LandlineInv'
<1>1. UNCHANGED <<blockVars, bank, signed, depositing, recent, lastBlock, lastFinalized, sync, behind>>
  BY DEF landlineVars, phoneVars, syncVars
<1>2. SyncOK'
  BY <1>1, TypesParts DEF SyncOK
<1> QED
  BY <1>1, <1>2, SyncingStep

LEMMA LandlineSteps ==
  LandlineTypeOK /\ LandlineInv /\ BundledOnceKnown /\ [LandlineNext]_landlineVars
    => LandlineTypeOK' /\ LandlineInv' /\ BundledOnceKnown'
<1> SUFFICES ASSUME LandlineTypeOK, LandlineInv, BundledOnceKnown, [LandlineNext]_landlineVars
             PROVE  LandlineTypeOK' /\ LandlineInv' /\ BundledOnceKnown'
  OBVIOUS
<1>1. \/ World \/ Phone \/ Syncing \/ UNCHANGED landlineVars
      \/ \E s \in Syncs : ApplySync(s)
  BY DEF LandlineNext, World, Phone, Syncing
<1>2. CASE World \/ Phone \/ Syncing \/ UNCHANGED landlineVars
  <2>1. LandlineTypeOK' /\ LandlineInv'
    BY <1>2, WorldStep, PhoneStep, SyncingTrue, IdleStep
  <2>2. \A x : Shown(x)' = Shown(x)
    BY <1>2, OtherSteps DEF Shown, Rows
  <2>3. BundledOnceKnown'
    BY <2>2 DEF BundledOnceKnown
  <2> QED
    BY <2>1, <2>3
<1>3. CASE \E s \in Syncs : ApplySync(s)
  BY <1>3, ApplyStep
<1> QED
  BY <1>1, <1>2, <1>3

LEMMA LandlineAlways == LandlineSpec => [](LandlineTypeOK /\ LandlineInv /\ BundledOnceKnown)
<1> QED
  BY LandlineStart, LandlineSteps, PTL DEF LandlineSpec

\* Rows, syncs and heights of the phone keep to their types: a row of a transfer log is at
\* the block of its transaction, and the account is never ahead of chain and index.
THEOREM LandlineTypes == LandlineSpec => []LandlineTypeOK
<1> QED
  BY LandlineAlways, PTL

\* landlineClogMatcher.ts and syncLandline.ts together: while answers are applied in the
\* order they were computed, every transaction of a bank transfer up to the account's last
\* block is exactly one row of the history.
THEOREM OneRowPerTx == LandlineSpec => []EveryTxIsOneRow
<1>1. LandlineInv => EveryTxIsOneRow
  <2> SUFFICES ASSUME LandlineInv, ~behind, NEW x \in Bank, minedAt[x] \in 1..lastBlock
               PROVE  Cardinality({c \in Shown(x) : c.hash}) = 1
    BY DEF EveryTxIsOneRow
  <2>1. PICK c : {d \in Shown(x) : d.hash} = {c}
    BY DEF LandlineInv, OneRow
  <2> QED
    BY <2>1, FS_Singleton
<1> QED
  BY <1>1, LandlineAlways, PTL

\* syncLandline.ts:24-25: once a row that is shown has both the transaction and the status
\* of a bank transfer, it is the only one shown for it, whatever answers come late.
THEOREM RowsAreBundled == LandlineSpec => []BundledOnceKnown
<1> QED
  BY LandlineAlways, PTL

-----------------------------------------------------------------------------
(* TxSender: the inductive invariant *)

USE SenderAssumption DEF SenderAssumption, Nonces

\* One call at a time is past the lock.
Locked == \A c \in Calls : pc[c] \in Working => txLock = c

\* Nonces come from the chain, so no transaction waits for one that is missing.
AtTheEnd ==
    /\ \A c \in Calls : nonce[c] <= Len(mined)
    /\ \A n \in Nonces : pool[n] # None => n = Len(mined) /\ n < MaxTxs /\ pc[pool[n]] # "idle"

MinedExecuted == \A i \in 1..Len(mined) : mined[i] \in executed

\* Once the transaction a call waits for is mined, nothing else is left of the call.
ReceiptIsOwn ==
    \A c \in Calls : pc[c] = "receipt" =>
        IF nonce[c] < Len(mined) THEN mined[nonce[c] + 1] = c /\ \A n \in Nonces : pool[n] = None
                                 ELSE pool[nonce[c]] = c

\* A call that returned has been executed, and none of its transactions, of whatever try,
\* is left to be mined: what it did is not done again behind its caller's back.
DoneIsOver ==
    \A c \in Calls : pc[c] = "done" => c \in executed /\ \A n \in Nonces : pool[n] # c

SenderInv == Locked /\ AtTheEnd /\ MinedExecuted /\ ReceiptIsOwn /\ DoneIsOver

ChainTypes == mined \in Seq(Calls) /\ Len(mined) <= MaxTxs
                /\ pool \in [Nonces -> Calls \cup {None}] /\ executed \subseteq Calls
CallTypes == /\ pc \in [Calls -> Where] /\ attempt \in [Calls -> 1..MaxAttempts]
             /\ nonce \in [Calls -> Nonces]
             /\ txLock \in Calls \cup {None} /\ restarts \in 0..MaxRestarts

LEMMA TypeParts == TypeOK <=> ChainTypes /\ CallTypes
BY DEF TypeOK, ChainTypes, CallTypes

LEMMA SenderInit == Init => TypeOK /\ SenderInv
<1> SUFFICES ASSUME Init PROVE TypeOK /\ SenderInv
  OBVIOUS
<1>1. Len(mined) = 0 /\ mined \in Seq(Calls)
  BY EmptySeq DEF Init
<1>2. TypeOK
  BY <1>1 DEF Init, TypeOK, Where
<1>3. SenderInv
  BY <1>1 DEF Init, SenderInv, Locked, AtTheEnd, MinedExecuted, ReceiptIsOwn, DoneIsOver, Working
<1> QED
  BY <1>2, <1>3

-----------------------------------------------------------------------------
(* The ways in which steps change the state *)

\* A call goes from one place to another, and takes or gives up the lock.
LEMMA CallMoves ==
    ASSUME TypeOK, SenderInv, NEW c \in Calls, NEW w \in Where,
           pc' = [pc EXCEPT ![c] = w],
           UNCHANGED <<mined, pool, executed>>,
           \A d \in Calls \ {c} : nonce'[d] = nonce[d],
           nonce' \in [Calls -> Nonces], nonce'[c] <= Len(mined),
           attempt' \in [Calls -> 1..MaxAttempts], restarts' = restarts,
           txLock' \in Calls \cup {None},
           w \in Working => txLock' = c,
           \A d \in Calls \ {c} : txLock = d => txLock' = d \/ pc[d] \notin Working,
           w # "idle", w # "receipt",
           w = "done" => c \in executed /\ \A n \in Nonces : pool[n] # c
    PROVE  TypeOK' /\ SenderInv'
<1>1. TypeOK'
  BY DEF TypeOK
<1>2. /\ pc'[c] = w
      /\ \A d \in Calls \ {c} : pc'[d] = pc[d]
  BY DEF TypeOK
<1>3. Locked'
  BY <1>2 DEF SenderInv, Locked
<1>4. AtTheEnd'
  <2>1. ASSUME NEW n \in Nonces, pool[n] # None PROVE pc'[pool[n]] # "idle"
    <3>1. pool[n] \in Calls /\ pc[pool[n]] # "idle"
      BY <2>1 DEF SenderInv, AtTheEnd, TypeOK
    <3> QED
      BY <1>2, <3>1
  <2>2. \A d \in Calls : nonce'[d] <= Len(mined)
    BY DEF SenderInv, AtTheEnd
  <2> QED
    BY <2>1, <2>2 DEF SenderInv, AtTheEnd
<1>5. MinedExecuted' /\ ReceiptIsOwn' /\ DoneIsOver'
  BY <1>2 DEF SenderInv, MinedExecuted, ReceiptIsOwn, DoneIsOver
<1> QED
  BY <1>1, <1>3, <1>4, <1>5 DEF SenderInv

\* A call broadcasts its transaction, and goes on.
LEMMA CallBroadcasts ==
    ASSUME TypeOK, SenderInv, NEW c \in Calls, NEW w \in Where,
           pc[c] = "submit", Broadcast(c),
           pc' = [pc EXCEPT ![c] = w],
           UNCHANGED <<mined, executed, nonce, restarts>>,
           attempt' \in [Calls -> 1..MaxAttempts],
           txLock' \in Calls \cup {None},
           w \in Working => txLock' = c,
           w # "idle", w # "done"
    PROVE  TypeOK' /\ SenderInv'
<1> DEFINE n == nonce[c]
<1>1. n \in Nonces /\ n = Len(mined) /\ n < MaxTxs
  BY DEF Broadcast, SenderInv, AtTheEnd, TypeOK
<1>2. /\ pool' = [pool EXCEPT ![n] = c] /\ pool' \in [Nonces -> Calls \cup {None}]
      /\ pool'[n] = c /\ \A m \in Nonces \ {n} : pool'[m] = pool[m]
  BY <1>1 DEF Broadcast, TypeOK
<1>3. TypeOK'
  BY <1>2 DEF TypeOK
<1>4. /\ pc'[c] = w
      /\ \A d \in Calls \ {c} : pc'[d] = pc[d] /\ pc[d] \notin Working
  BY DEF TypeOK, SenderInv, Locked, Working
<1>5. Locked'
  BY <1>4 DEF SenderInv, Locked
<1>6. AtTheEnd'
  BY <1>1, <1>2, <1>4 DEF SenderInv, AtTheEnd, TypeOK
<1>7. MinedExecuted'
  BY DEF SenderInv, MinedExecuted
<1>8. ReceiptIsOwn'
  BY <1>1, <1>2, <1>4 DEF SenderInv, ReceiptIsOwn, Working
<1>9. DoneIsOver'
  BY <1>1, <1>2, <1>4 DEF SenderInv, DoneIsOver
<1> QED
  BY <1>3, <1>5, <1>6, <1>7, <1>8, <1>9 DEF SenderInv

\* A retry starts over, or is the last one and fails.
LEMMA RetryMoves ==
    ASSUME TypeOK, SenderInv, NEW c \in Calls, pc[c] \in Working, Retry(c)
    PROVE  /\ attempt' \in [Calls -> 1..MaxAttempts]
           /\ \/ pc' = [pc EXCEPT ![c] = "params"] /\ txLock' = c
              \/ pc' = [pc EXCEPT ![c] = "failed"] /\ txLock' = None
<1>1. txLock = c /\ attempt[c] \in 1..MaxAttempts
  BY DEF SenderInv, Locked, TypeOK
<1>2. CASE attempt[c] < MaxAttempts
  <2>1. attempt[c] + 1 \in 1..MaxAttempts
    BY <1>1, <1>2
  <2> QED
    BY <1>1, <1>2, <2>1 DEF Retry, Go, TypeOK
<1>3. CASE ~(attempt[c] < MaxAttempts)
  BY <1>3 DEF Retry, Leave, Go, TypeOK
<1> QED
  BY <1>2, <1>3

-----------------------------------------------------------------------------
(* Every step keeps the invariant *)

LEMMA BeginStep ==
    ASSUME TypeOK, SenderInv, NEW c \in Calls, Begin(c)
    PROVE  TypeOK' /\ SenderInv'
<1>1. \A n \in Nonces : pool[n] # c
  BY DEF Begin, SenderInv, AtTheEnd
<1> QED
  BY <1>1, CallMoves DEF Begin, Go, chainVars, Where, Working, TypeOK, SenderInv, AtTheEnd

LEMMA MineStep == ASSUME TypeOK, SenderInv, Mine PROVE TypeOK' /\ SenderInv'
<1> DEFINE n == Len(mined)
           c == pool[n]
<1>1. n \in Nonces /\ n \in Nat /\ n < MaxTxs /\ c \in Calls /\ pc[c] # "idle"
  BY DEF Mine, SenderInv, AtTheEnd, TypeOK
<1>2. /\ mined' = Append(mined, c) /\ mined' \in Seq(Calls) /\ Len(mined') = n + 1
      /\ mined'[n + 1] = c /\ \A i \in 1..n : mined'[i] = mined[i]
  BY <1>1, AppendProperties DEF Mine, TypeOK
<1>3. /\ pool' \in [Nonces -> Calls \cup {None}] /\ pool'[n] = None
      /\ \A m \in Nonces : pool'[m] = None
  BY <1>1 DEF Mine, SenderInv, AtTheEnd, TypeOK
<1>4. executed' = executed \cup {c} /\ UNCHANGED <<pc, attempt, nonce, txLock, restarts>>
  BY DEF Mine
<1> HIDE DEF n, c
<1>5. TypeOK'
  BY <1>1, <1>2, <1>3, <1>4 DEF TypeOK
<1>6. Locked'
  BY <1>4 DEF SenderInv, Locked
<1>7. AtTheEnd'
  BY <1>1, <1>2, <1>3, <1>4 DEF SenderInv, AtTheEnd, TypeOK, n
<1>8. MinedExecuted'
  BY <1>1, <1>2, <1>4 DEF SenderInv, MinedExecuted, n
<1>9. ReceiptIsOwn'
  <2> SUFFICES ASSUME NEW d \in Calls, pc[d] = "receipt"
               PROVE  nonce[d] < n + 1 /\ mined'[nonce[d] + 1] = d
    BY <1>2, <1>3, <1>4 DEF ReceiptIsOwn
  <2>1. nonce[d] \in Nat /\ nonce[d] <= n
    BY DEF SenderInv, AtTheEnd, TypeOK, n
  <2>2. CASE nonce[d] < n
    BY <1>1, <1>2, <2>1, <2>2 DEF SenderInv, ReceiptIsOwn, n
  <2>3. CASE nonce[d] = n
    BY <1>1, <1>2, <2>1, <2>3 DEF SenderInv, ReceiptIsOwn, n, c
  <2> QED
    BY <1>1, <2>1, <2>2, <2>3
<1>10. DoneIsOver'
  BY <1>1, <1>3, <1>4 DEF SenderInv, DoneIsOver
<1> QED
  BY <1>5, <1>6, <1>7, <1>8, <1>9, <1>10 DEF SenderInv

LEMMA RestartStep == ASSUME TypeOK, SenderInv, Restart PROVE TypeOK' /\ SenderInv'
<1>1. UNCHANGED <<mined, pool, executed, attempt, nonce>> /\ txLock' = None
  BY DEF Restart, chainVars
<1>2. /\ pc' \in [Calls -> Where]
      /\ \A d \in Calls : IF pc[d] \in {"idle", "done"} THEN pc'[d] = pc[d] ELSE pc'[d] = "failed"
  BY DEF Restart, TypeOK, Where, Working
<1>3. TypeOK'
  BY <1>1, <1>2 DEF Restart, TypeOK
<1>4. Locked' /\ ReceiptIsOwn' /\ DoneIsOver' /\ MinedExecuted'
  BY <1>1, <1>2 DEF SenderInv, Locked, ReceiptIsOwn, DoneIsOver, MinedExecuted, Working
<1>5. AtTheEnd'
  <2>1. ASSUME NEW n \in Nonces, pool[n] # None PROVE pc'[pool[n]] # "idle"
    <3>1. pool[n] \in Calls /\ pc[pool[n]] # "idle"
      BY <2>1 DEF SenderInv, AtTheEnd, TypeOK
    <3> QED
      BY <1>2, <3>1
  <2> QED
    BY <1>1, <2>1 DEF SenderInv, AtTheEnd
<1> QED
  BY <1>3, <1>4, <1>5 DEF SenderInv

\* What the two lemmas on moves ask of a step that leaves the other calls alone.
LEMMA MoveFacts ==
    ASSUME TypeOK, SenderInv
    PROVE  /\ nonce \in [Calls -> Nonces] /\ \A c \in Calls : nonce[c] <= Len(mined)
           /\ attempt \in [Calls -> 1..MaxAttempts]
           /\ \A c \in Calls : pc[c] \in Working =>
                  txLock = c /\ \A d \in Calls \ {c} : txLock # d
BY DEF TypeOK, SenderInv, AtTheEnd, Locked

LEMMA AcquireStep ==
    ASSUME TypeOK, SenderInv, NEW c \in Calls, Acquire(c)
    PROVE  TypeOK' /\ SenderInv'
<1>1. \A d \in Calls : txLock # d
  BY DEF Acquire, Free
<1> QED
  BY <1>1, CallMoves, MoveFacts DEF Acquire, Go, chainVars, Where, Working

LEMMA LeaveStep ==
    ASSUME TypeOK, SenderInv, NEW c \in Calls, NEW w \in {"done", "failed"},
           pc[c] \in Working, Leave(c, w), UNCHANGED <<chainVars, attempt, nonce, restarts>>,
           w = "done" => c \in executed /\ \A n \in Nonces : pool[n] # c
    PROVE  TypeOK' /\ SenderInv'
BY CallMoves, MoveFacts DEF Leave, Go, chainVars, Where, Working

LEMMA RetryStep ==
    ASSUME TypeOK, SenderInv, NEW c \in Calls, pc[c] \in Working, Retry(c),
           UNCHANGED <<chainVars, nonce, restarts>>
    PROVE  TypeOK' /\ SenderInv'
<1>1. CASE pc' = [pc EXCEPT ![c] = "params"] /\ txLock' = c
  BY <1>1, RetryMoves, CallMoves, MoveFacts DEF chainVars, Where, Working
<1>2. CASE pc' = [pc EXCEPT ![c] = "failed"] /\ txLock' = None
  BY <1>2, RetryMoves, CallMoves, MoveFacts DEF chainVars, Where, Working
<1> QED
  BY <1>1, <1>2, RetryMoves

LEMMA TryStep ==
    ASSUME TypeOK, SenderInv, NEW c \in Calls, Try(c)
    PROVE  TypeOK' /\ SenderInv'
<1>1. CASE SetParams(c)
  <2>1. PICK n \in LatestNonces : nonce' = [nonce EXCEPT ![c] = n]
    BY <1>1 DEF SetParams
  <2>2. /\ nonce' \in [Calls -> Nonces] /\ nonce'[c] <= Len(mined)
        /\ \A d \in Calls \ {c} : nonce'[d] = nonce[d]
    BY <2>1 DEF TypeOK, LatestNonces
  <2> QED
    BY <1>1, <2>2, CallMoves, MoveFacts DEF SetParams, Go, chainVars, Where, Working
<1>2. CASE ParamsFail(c)
  BY <1>2, LeaveStep DEF ParamsFail, Working
<1>3. CASE Submit(c)
  BY <1>3, CallBroadcasts, MoveFacts DEF Submit, Go, Where, Working
<1>4. CASE Refused(c)
  <2>1. CASE UNCHANGED pool
    BY <1>4, <2>1, RetryStep DEF Refused, Working, chainVars
  <2>2. CASE Broadcast(c)
    <3>1. CASE pc' = [pc EXCEPT ![c] = "params"] /\ txLock' = c
      BY <1>4, <2>2, <3>1, RetryMoves, CallBroadcasts DEF Refused, Where, Working
    <3>2. CASE pc' = [pc EXCEPT ![c] = "failed"] /\ txLock' = None
      BY <1>4, <2>2, <3>2, RetryMoves, CallBroadcasts DEF Refused, Where, Working
    <3> QED
      BY <1>4, <3>1, <3>2, RetryMoves DEF Refused, Working
  <2> QED
    BY <1>4, <2>1, <2>2 DEF Refused
<1>5. CASE SubmitFails(c)
  <2>1. CASE UNCHANGED pool
    BY <1>5, <2>1, LeaveStep DEF SubmitFails, Working, chainVars
  <2>2. CASE Broadcast(c)
    BY <1>5, <2>2, CallBroadcasts, MoveFacts DEF SubmitFails, Leave, Go, Where, Working
  <2> QED
    BY <1>5, <2>1, <2>2 DEF SubmitFails
<1>6. CASE Receipt(c)
  <2>1. c \in executed /\ \A n \in Nonces : pool[n] # c
    <3>1. nonce[c] \in Nat /\ Len(mined) \in Nat /\ nonce[c] + 1 \in 1..Len(mined)
      BY <1>6, LenProperties DEF Receipt, TypeOK
    <3> QED
      BY <1>6, <3>1 DEF Receipt, SenderInv, ReceiptIsOwn, MinedExecuted
  <2> QED
    BY <1>6, <2>1, LeaveStep DEF Receipt, Working
<1>7. CASE TimesOut(c)
  BY <1>7, RetryStep DEF TimesOut, Working
<1>8. CASE ReceiptFails(c)
  BY <1>8, LeaveStep DEF ReceiptFails, Working
<1> QED
  BY <1>1, <1>2, <1>3, <1>4, <1>5, <1>6, <1>7, <1>8 DEF Try

LEMMA SenderStep == TypeOK /\ SenderInv /\ [Next]_vars => TypeOK' /\ SenderInv'
<1> SUFFICES ASSUME TypeOK, SenderInv, [Next]_vars PROVE TypeOK' /\ SenderInv'
  OBVIOUS
<1>1. CASE Next
  BY <1>1, BeginStep, AcquireStep, TryStep, MineStep, RestartStep DEF Next
<1>2. CASE UNCHANGED vars
  BY <1>2 DEF vars, chainVars, TypeOK, SenderInv, Locked, AtTheEnd, MinedExecuted, ReceiptIsOwn,
              DoneIsOver
<1> QED
  BY <1>1, <1>2

LEMMA SenderInvariant == Spec => [](TypeOK /\ SenderInv)
BY SenderInit, SenderStep, PTL DEF Spec

\* The variables keep their types: attempts and nonces stay within their bounds.
THEOREM SenderTypeOK == Spec => []TypeOK
BY SenderInvariant, PTL

\* A call that returned is never executed behind its caller's back.
THEOREM NothingAfterReturn == Spec => []DoneIsOver
<1>1. SenderInv => DoneIsOver
  BY DEF SenderInv
<1> QED
  BY <1>1, SenderInvariant, PTL

-----------------------------------------------------------------------------
(* The promise *)

LEMMA ResultMoves ==
    ASSUME TypeOK, NEW c \in Calls, NEW w \in Where, pc' = [pc EXCEPT ![c] = w]
    PROVE  Results' = [Results EXCEPT ![c] = Result(w)]
BY DEF TypeOK, Results, Result

LEMMA ResultOf ==
    ASSUME TypeOK, NEW c \in Calls
    PROVE  /\ Results[c] = Result(pc[c])
           /\ Result("idle") = "none" /\ Result("waiting") = "open"
           /\ Result("done") = "done" /\ Result("failed") = "failed"
           /\ \A w \in Working : Result(w) = "open"
BY DEF Results, Result, Working

\* A call that fails is a failure of the promise's.
LEMMA FailOne ==
    ASSUME TypeOK, NEW c \in Calls, pc[c] \in Working, pc' = [pc EXCEPT ![c] = "failed"],
           UNCHANGED executed
    PROVE  Promise!Fail
<1>1. Results' = [Results EXCEPT ![c] = "failed"] /\ Results[c] = "open"
  BY ResultMoves, ResultOf DEF Where
<1>2. Results' = [d \in Calls |-> IF d \in {c} THEN "failed" ELSE Results[d]]
  BY <1>1 DEF Results
<1>3. {c} \in SUBSET {d \in Calls : Results[d] = "open"}
  BY <1>1
<1> QED
  BY <1>2, <1>3 DEF Promise!Fail

\* A move within a call is not seen.
LEMMA Unseen ==
    ASSUME TypeOK, NEW c \in Calls, pc[c] \in Working \cup {"waiting"}, NEW w \in Working,
           pc' = [pc EXCEPT ![c] = w], UNCHANGED executed
    PROVE  UNCHANGED Promise!vars
<1>1. Results' = [Results EXCEPT ![c] = "open"] /\ Results[c] = "open"
  BY ResultMoves, ResultOf DEF Where, Working
<1> QED
  BY <1>1 DEF Promise!vars, Results

LEMMA RetrySeen ==
    ASSUME TypeOK, SenderInv, NEW c \in Calls, pc[c] \in Working, Retry(c), UNCHANGED executed
    PROVE  Promise!Fail \/ UNCHANGED Promise!vars
<1>1. CASE pc' = [pc EXCEPT ![c] = "params"]
  BY <1>1, Unseen DEF Working
<1>2. CASE pc' = [pc EXCEPT ![c] = "failed"]
  BY <1>2, FailOne
<1> QED
  BY <1>1, <1>2, RetryMoves

LEMMA PromiseTry ==
    ASSUME TypeOK, SenderInv, NEW c \in Calls, Try(c)
    PROVE  Promise!Fail \/ Promise!Return(c) \/ UNCHANGED Promise!vars
<1>1. CASE SetParams(c)
  BY <1>1, Unseen DEF SetParams, Go, chainVars, Working
<1>2. CASE ParamsFail(c)
  BY <1>2, FailOne DEF ParamsFail, Leave, Go, chainVars, Working
<1>3. CASE Submit(c)
  BY <1>3, Unseen DEF Submit, Go, Working
<1>4. CASE Refused(c)
  BY <1>4, RetrySeen DEF Refused, Working
<1>5. CASE SubmitFails(c)
  BY <1>5, FailOne DEF SubmitFails, Leave, Go, Working
<1>6. CASE Receipt(c)
  <2>1. Results' = [Results EXCEPT ![c] = "done"] /\ Results[c] = "open"
    BY <1>6, ResultMoves, ResultOf DEF Receipt, Leave, Go, Where, Working
  <2>2. c \in executed
    <3>1. nonce[c] \in Nat /\ Len(mined) \in Nat /\ nonce[c] + 1 \in 1..Len(mined)
      BY <1>6, LenProperties DEF Receipt, TypeOK
    <3> QED
      BY <1>6, <3>1 DEF Receipt, SenderInv, ReceiptIsOwn, MinedExecuted
  <2> QED
    BY <1>6, <2>1, <2>2 DEF Receipt, chainVars, Promise!Return
<1>7. CASE TimesOut(c)
  BY <1>7, RetrySeen DEF TimesOut, chainVars, Working
<1>8. CASE ReceiptFails(c)
  BY <1>8, FailOne DEF ReceiptFails, Leave, Go, chainVars, Working
<1> QED
  BY <1>1, <1>2, <1>3, <1>4, <1>5, <1>6, <1>7, <1>8 DEF Try

LEMMA PromiseMine == ASSUME TypeOK, SenderInv, Mine PROVE \E c \in Calls : Promise!Execute(c)
<1> DEFINE c == pool[Len(mined)]
<1>1. Len(mined) \in Nonces /\ c \in Calls /\ pc[c] # "idle" /\ pc[c] # "done"
  BY DEF Mine, SenderInv, AtTheEnd, DoneIsOver, TypeOK
<1>2. Results[c] \in {"open", "failed"}
  BY <1>1 DEF Results, Result, TypeOK, Where
<1>3. Results' = Results /\ executed' = executed \cup {c}
  BY DEF Mine, Results
<1> QED
  BY <1>1, <1>2, <1>3 DEF Promise!Execute

LEMMA PromiseRestart == ASSUME TypeOK, Restart PROVE Promise!Fail
<1> DEFINE some == {c \in Calls : Results[c] = "open"}
<1>1. ASSUME NEW c \in Calls
      PROVE  Result(IF pc[c] \in Working \cup {"waiting"} THEN "failed" ELSE pc[c])
               = IF c \in some THEN "failed" ELSE Results[c]
  <2>1. CASE pc[c] \in Working \cup {"waiting"}
    BY <2>1, ResultOf
  <2>2. CASE pc[c] \in {"idle", "done", "failed"}
    BY <2>2, ResultOf DEF Working
  <2> QED
    BY <2>1, <2>2 DEF TypeOK, Where, Working
<1>2. Results' = [c \in Calls |-> IF c \in some THEN "failed" ELSE Results[c]]
  BY <1>1 DEF Restart, Results
<1>3. some \in SUBSET {c \in Calls : Results[c] = "open"} /\ UNCHANGED executed
  BY DEF Restart, chainVars
<1> QED
  BY <1>2, <1>3 DEF Promise!Fail

LEMMA PromiseInit == Init => Promise!Init
BY DEF Init, Promise!Init, Results, Result

LEMMA PromiseStep == TypeOK /\ SenderInv /\ [Next]_vars => [Promise!Next]_(Promise!vars)
<1> SUFFICES ASSUME TypeOK, SenderInv, [Next]_vars PROVE [Promise!Next]_(Promise!vars)
  OBVIOUS
<1>1. ASSUME NEW c \in Calls, Begin(c) PROVE Promise!Begin(c)
  <2>1. Results' = [Results EXCEPT ![c] = "open"] /\ Results[c] = "none"
    BY <1>1, ResultMoves, ResultOf DEF Begin, Go, Where
  <2> QED
    BY <1>1, <2>1 DEF Begin, chainVars, Promise!Begin
<1>2. ASSUME NEW c \in Calls, Acquire(c) PROVE UNCHANGED Promise!vars
  BY <1>2, Unseen DEF Acquire, Go, chainVars, Working
<1>3. CASE UNCHANGED vars
  BY <1>3 DEF vars, chainVars, Promise!vars, Results
<1> QED
  BY <1>1, <1>2, <1>3, PromiseTry, PromiseMine, PromiseRestart DEF Next, Promise!Next

\* The sender implements what its callers are promised: a call that returns was executed and
\* is executed no more, and one that fails may be executed later still.
THEOREM SenderKeepsPromise == Spec => KeepsPromise
BY SenderInvariant, PromiseInit, PromiseStep, PTL DEF Spec, KeepsPromise, Promise!Spec

-----------------------------------------------------------------------------
(* FastCCTP: types *)

USE CCTPAssumption DEF CCTPAssumption

\* The fields of a transfer have their types.
LEMMA TransferFields ==
    ASSUME NEW x \in Transfers
    PROVE  /\ x.from \in Accounts \cup {Bridger}
           /\ x.to \in Accounts
           /\ x.fromAmount \in Amounts
           /\ x.fromAmount \in Nat \ {0}
           /\ x.toAmount \in Nat
           /\ x.nonce \in Nat
BY DEF Transfer

\* What a transfer of sendToChain is made of.
LEMMA BridgeFields ==
    ASSUME NEW a, NEW n, NEW k
    PROVE  /\ BridgeTransfer(a, n, k).from = Bridger
           /\ BridgeTransfer(a, n, k).fromAmount = n
           /\ BridgeTransfer(a, n, k).nonce = k
BY DEF BridgeTransfer

\* A burn keeps the types of what it changes.
LEMMA BurnTypes ==
    ASSUME CCTPTypeOK, NEW a \in Accounts, NEW x \in Transfers, NEW n \in Amounts, Burn(a, x, n)
    PROVE  /\ balA' \in [Accounts -> Nat]
           /\ transit' \in [Transfers -> [Amounts -> Nat]]
           /\ burned' \in [Transfers -> Nat]
<1>1. n \in Nat
  OBVIOUS
<1>2. balA[a] \in Nat /\ balA[a] - n \in Nat
  BY <1>1 DEF CCTPTypeOK, Burn
<1>3. balA' \in [Accounts -> Nat]
  BY <1>2 DEF CCTPTypeOK, Burn
<1>4. transit' \in [Transfers -> [Amounts -> Nat]]
  BY DEF CCTPTypeOK, Burn
<1>5. burned' \in [Transfers -> Nat]
  BY <1>1 DEF CCTPTypeOK, Burn
<1> QED
  BY <1>3, <1>4, <1>5

\* Every state has the declared types; a balance never goes below zero because each
\* transfer of tokens asks for them first.
LEMMA TypeStep == CCTPTypeOK /\ [CCTPNext]_bridgeVars => CCTPTypeOK'
<1> SUFFICES ASSUME CCTPTypeOK, [CCTPNext]_bridgeVars PROVE CCTPTypeOK'
  OBVIOUS
<1>1. ASSUME NEW x \in Transfers, StartTransfer(x) PROVE CCTPTypeOK'
  <2>1. x.from \in Accounts /\ Burn(x.from, x, x.fromAmount) /\ x.fromAmount \in Amounts
    BY <1>1, TransferFields DEF StartTransfer, Start
  <2>2. sent' \in SUBSET Transfers
    BY <1>1 DEF CCTPTypeOK, StartTransfer, Start
  <2> QED
    BY <1>1, <2>1, <2>2, BurnTypes DEF CCTPTypeOK, StartTransfer, chainB
<1>2. ASSUME NEW x \in Transfers, Claim(x) PROVE CCTPTypeOK'
  <2>1. x.fromAmount \in Nat /\ inbox[x] \in Nat /\ inbox[x] >= x.fromAmount
    BY <1>2, TransferFields DEF CCTPTypeOK, Claim, Sufficient
  <2>2. Payee(x) \in Accounts
    BY TransferFields DEF CCTPTypeOK, Payee
  <2>3. balB' \in [Accounts -> Nat] /\ inbox' \in [Transfers -> Nat]
    BY <1>2, <2>1, <2>2 DEF CCTPTypeOK, Claim, Sweep
  <2>4. held' \in Nat
    BY <1>2, <2>1 DEF CCTPTypeOK, Claim, Sweep
  <2>5. recipientOf' \in [Transfers -> Accounts \cup {NoOne}]
    BY <1>2, <2>2 DEF CCTPTypeOK, Claim, RecordPayee
  <2>6. claims' \in [Transfers -> Nat]
    BY <1>2 DEF CCTPTypeOK, Claim
  <2> QED
    BY <1>2, <2>3, <2>4, <2>5, <2>6 DEF CCTPTypeOK, Claim, chainA
<1>3. ASSUME NEW x \in Transfers, NEW a \in Accounts, FastFinish(a, x) PROVE CCTPTypeOK'
  <2>1. x.toAmount \in Nat /\ x.to \in Accounts /\ balB[a] \in Nat /\ balB[a] - x.toAmount \in Nat
    BY <1>3, TransferFields DEF CCTPTypeOK, FastFinish
  <2>2. balB' \in [Accounts -> Nat]
    BY <1>3, <2>1 DEF CCTPTypeOK, FastFinish
  <2> QED
    BY <1>3, <2>2 DEF CCTPTypeOK, FastFinish, chainA
<1>4. ASSUME NEW x \in Transfers, NEW a \in Accounts, NEW n \in Amounts, DirectBurn(a, x, n)
      PROVE  CCTPTypeOK'
  BY <1>4, BurnTypes DEF CCTPTypeOK, DirectBurn, chainB
<1>5. ASSUME NEW x \in Transfers, NEW n \in Amounts, Deliver(x, n) PROVE CCTPTypeOK'
  <2>1. transit[x][n] \in Nat /\ transit[x][n] - 1 \in Nat
    BY <1>5 DEF CCTPTypeOK, Deliver
  <2>2. transit' \in [Transfers -> [Amounts -> Nat]]
    BY <1>5, <2>1 DEF CCTPTypeOK, Deliver
  <2>3. inbox' \in [Transfers -> Nat]
    BY <1>5 DEF CCTPTypeOK, Deliver
  <2> QED
    BY <1>5, <2>2, <2>3 DEF CCTPTypeOK, Deliver, chainA
<1>6. ASSUME NEW a \in Accounts, NEW n \in Amounts, SendToChain(a, n) PROVE CCTPTypeOK'
  <2> DEFINE x == BridgeTransfer(a, n, fastCCTPNonce + 1)
  <2>1. x \in Transfers /\ Burn(a, x, n) /\ sent' = sent \cup {x}
    BY <1>6, BridgeFields DEF SendToChain, Start
  <2>2. sent' \in SUBSET Transfers /\ fastCCTPNonce' \in Nat
    BY <1>6, <2>1 DEF CCTPTypeOK, SendToChain
  <2> HIDE DEF x
  <2> QED
    BY <1>6, <2>1, <2>2, BurnTypes DEF CCTPTypeOK, SendToChain, chainB
<1>7. CASE UNCHANGED bridgeVars
  BY <1>7 DEF CCTPTypeOK, bridgeVars
<1> QED
  BY <1>1, <1>2, <1>3, <1>4, <1>5, <1>6, <1>7 DEF CCTPNext

LEMMA TypeInit == CCTPInit => CCTPTypeOK
BY DEF CCTPInit, CCTPTypeOK

\* Type correctness of the two chains and of the messages between them.
THEOREM CCTPTypes == CCTPSpec => []CCTPTypeOK
BY TypeInit, TypeStep, PTL DEF CCTPSpec

-----------------------------------------------------------------------------
\* A claim always leaves a recipient behind, which ends fast finishing.
ClaimedHasRecipient == \A x \in Transfers : claims[x] > 0 => recipientOf[x] # NoOne

\* The inductive invariant of the recipients.
RecipientInv == FronterIsRecipient /\ ClaimedHasRecipient

LEMMA RecipientStep == CCTPTypeOK /\ RecipientInv /\ [CCTPNext]_bridgeVars => RecipientInv'
<1> SUFFICES ASSUME CCTPTypeOK, RecipientInv, [CCTPNext]_bridgeVars PROVE RecipientInv'
  OBVIOUS
<1> USE DEF RecipientInv, FronterIsRecipient, ClaimedHasRecipient
<1>1. ASSUME NEW x \in Transfers, Claim(x) PROVE RecipientInv'
  <2>1. Payee(x) # NoOne
    BY TransferFields DEF Payee
  <2>2. recipientOf' = [recipientOf EXCEPT ![x] = Payee(x)] /\ fronted' = fronted
    BY <1>1 DEF Claim, RecordPayee
  <2>3. FronterIsRecipient'
    BY <2>1, <2>2 DEF CCTPTypeOK, Payee
  <2>4. ASSUME NEW y \in Transfers, claims'[y] > 0 PROVE recipientOf'[y] # NoOne
    <3>1. CASE y = x
      BY <2>1, <2>2, <3>1 DEF CCTPTypeOK
    <3>2. CASE y # x
      BY <1>1, <2>2, <2>4, <3>2 DEF CCTPTypeOK, Claim
    <3> QED
      BY <3>1, <3>2
  <2> QED
    BY <2>3, <2>4
<1>2. ASSUME NEW x \in Transfers, NEW a \in Accounts, FastFinish(a, x) PROVE RecipientInv'
  <2>1. /\ recipientOf' = [recipientOf EXCEPT ![x] = a]
        /\ fronted' = [fronted EXCEPT ![x] = a]
        /\ claims' = claims
    BY <1>2 DEF FastFinish
  <2>2. a # NoOne
    OBVIOUS
  <2> QED
    BY <2>1, <2>2 DEF CCTPTypeOK
<1>3. CASE UNCHANGED <<recipientOf, fronted, claims>>
  BY <1>3
<1> QED
  BY <1>1, <1>2, <1>3
  DEF CCTPNext, bridgeVars, chainB, StartTransfer, DirectBurn, Deliver, SendToChain

\* The recipient recorded on chain B is never replaced.
LEMMA RecipientKeptStep == CCTPTypeOK /\ [CCTPNext]_bridgeVars => RecipientKept
<1> SUFFICES ASSUME CCTPTypeOK, [CCTPNext]_bridgeVars, NEW x \in Transfers, recipientOf[x] # NoOne
             PROVE  recipientOf'[x] = recipientOf[x]
  BY DEF RecipientKept
<1>1. ASSUME NEW y \in Transfers, Claim(y) PROVE recipientOf'[x] = recipientOf[x]
  BY <1>1 DEF CCTPTypeOK, Claim, RecordPayee, Payee
<1>2. ASSUME NEW y \in Transfers, NEW a \in Accounts, FastFinish(a, y)
      PROVE  recipientOf'[x] = recipientOf[x]
  BY <1>2 DEF CCTPTypeOK, FastFinish
<1> QED
  BY <1>1, <1>2 DEF CCTPNext, bridgeVars, chainB, StartTransfer, DirectBurn, Deliver, SendToChain

\* Nobody pays in advance for a transfer that was claimed or already paid in advance.
LEMMA NotFrontedLateStep == CCTPTypeOK /\ RecipientInv /\ [CCTPNext]_bridgeVars => NotFrontedLate
<1> SUFFICES ASSUME CCTPTypeOK, RecipientInv, [CCTPNext]_bridgeVars, NEW x \in Transfers,
                    claims[x] > 0 \/ fronted[x] # NoOne
             PROVE  fronted'[x] = fronted[x]
  BY DEF NotFrontedLate
<1>1. recipientOf[x] # NoOne
  BY DEF RecipientInv, FronterIsRecipient, ClaimedHasRecipient
<1>2. ASSUME NEW y \in Transfers, NEW a \in Accounts, FastFinish(a, y)
      PROVE  fronted'[x] = fronted[x]
  BY <1>1, <1>2 DEF CCTPTypeOK, FastFinish
<1> QED
  BY <1>2 DEF CCTPNext, bridgeVars, chainB, Claim, StartTransfer, DirectBurn, Deliver, SendToChain

-----------------------------------------------------------------------------
\* A claim adds what exceeds fromAmount to the contract and takes nothing out of it.
LEMMA HeldStep == CCTPTypeOK /\ [CCTPNext]_bridgeVars => held' >= held
<1> SUFFICES ASSUME CCTPTypeOK, [CCTPNext]_bridgeVars PROVE held' >= held
  OBVIOUS
<1>1. held \in Nat
  BY DEF CCTPTypeOK
<1>2. ASSUME NEW x \in Transfers, Claim(x) PROVE held' >= held
  BY <1>1, <1>2, TransferFields DEF CCTPTypeOK, Claim, Sufficient, Sweep
<1>3. CASE held' = held
  BY <1>1, <1>3
<1> QED
  BY <1>2, <1>3
  DEF CCTPNext, bridgeVars, chainB, FastFinish, StartTransfer, DirectBurn, Deliver, SendToChain

\* The nonce of the bridger always leads to a handoff address nobody has started, even
\* though anyone may call startTransfer with parameters of their choice.
LEMMA BridgeNonceStep == CCTPTypeOK /\ BridgeNonceFresh /\ [CCTPNext]_bridgeVars => BridgeNonceFresh'
<1> SUFFICES ASSUME CCTPTypeOK, BridgeNonceFresh, [CCTPNext]_bridgeVars PROVE BridgeNonceFresh'
  OBVIOUS
<1>1. ASSUME NEW x \in Transfers, StartTransfer(x) PROVE BridgeNonceFresh'
  <2>1. x.from # Bridger /\ sent' = sent \cup {x} /\ fastCCTPNonce' = fastCCTPNonce
    BY <1>1 DEF StartTransfer, Start
  <2> QED
    BY <2>1 DEF BridgeNonceFresh
<1>2. ASSUME NEW a \in Accounts, NEW n \in Amounts, SendToChain(a, n)
      PROVE  BridgeNonceFresh'
  <2> DEFINE x == BridgeTransfer(a, n, fastCCTPNonce + 1)
  <2>1. sent' = sent \cup {x} /\ fastCCTPNonce' = fastCCTPNonce + 1 /\ x.nonce = fastCCTPNonce + 1
    BY <1>2, BridgeFields DEF SendToChain, Start
  <2> HIDE DEF x
  <2>2. ASSUME NEW y \in Transfers, y.from = Bridger, y.nonce > fastCCTPNonce' PROVE y \notin sent'
    <3>1. y.nonce \in Nat /\ fastCCTPNonce \in Nat
      BY TransferFields DEF CCTPTypeOK
    <3>2. y.nonce > fastCCTPNonce /\ y # x
      BY <2>1, <2>2, <3>1
    <3> QED
      BY <2>1, <2>2, <3>2 DEF BridgeNonceFresh
  <2> QED
    BY <2>2 DEF BridgeNonceFresh
<1>3. CASE UNCHANGED <<sent, fastCCTPNonce>>
  BY <1>3 DEF BridgeNonceFresh
<1> QED
  BY <1>1, <1>2, <1>3 DEF CCTPNext, bridgeVars, chainA, FastFinish, Claim, DirectBurn, Deliver

-----------------------------------------------------------------------------
\* Claims stay with whom they belong to, whatever is started, delivered, fronted and claimed
\* in whatever order, and however often.
THEOREM ClaimsAreKept == CCTPSpec => ClaimsKept
<1> DEFINE Inv == CCTPTypeOK /\ RecipientInv /\ BridgeNonceFresh
<1>1. CCTPInit => Inv
  BY TypeInit DEF CCTPInit, RecipientInv, FronterIsRecipient, ClaimedHasRecipient, BridgeNonceFresh
<1>2. Inv /\ [CCTPNext]_bridgeVars => Inv'
  BY TypeStep, RecipientStep, BridgeNonceStep
<1>3. Inv /\ Inv' /\ [CCTPNext]_bridgeVars =>
        [/\ RecipientKept /\ NotFrontedLate
         /\ held' >= held
         /\ FronterIsRecipient' /\ BridgeNonceFresh']_bridgeVars
  BY RecipientKeptStep, NotFrontedLateStep, HeldStep DEF RecipientInv
<1> HIDE DEF Inv
<1> QED
  BY <1>1, <1>2, <1>3, PTL DEF CCTPSpec, ClaimsKept

-----------------------------------------------------------------------------
(* Totals *)

\* The units of one argument.
LEMMA UnitsOfOne ==
    ASSUME NEW x, NEW n \in Nat
    PROVE  IsFiniteSet({x} \X (1..n)) /\ Cardinality({x} \X (1..n)) = n
<1>1. IsFiniteSet(1..n) /\ Cardinality(1..n) = n
  BY FS_Interval
<1>2. IsFiniteSet({x}) /\ Cardinality({x}) = 1
  BY FS_Singleton
<1>3. IsFiniteSet({x} \X (1..n))
      /\ Cardinality({x} \X (1..n)) = Cardinality({x}) * Cardinality(1..n)
  BY <1>1, <1>2, FS_Product, Zenon
<1> QED
  BY <1>1, <1>2, <1>3

\* A finite function has finitely many units, so that its total is a number.
LEMMA TotalType ==
    ASSUME NEW S, IsFiniteSet(S), NEW f \in [S -> Nat]
    PROVE  IsFiniteSet(Units(f)) /\ Total(f) \in Nat
<1> DEFINE of == [x \in S |-> {x} \X (1..f[x])]
           parts == {{x} \X (1..f[x]) : x \in S}
<1>1. IsFiniteSet(parts)
  <2>1. of \in Surjection(S, parts)
    BY DEF Surjection
  <2> QED
    BY <2>1, FS_Surjection
<1>2. \A p \in parts : IsFiniteSet(p)
  <2>1. \A y \in S : IsFiniteSet({y} \X (1..f[y]))
    BY UnitsOfOne
  <2> QED
    BY <2>1
<1>3. Units(f) = UNION parts
  BY DEF Units
<1>4. IsFiniteSet(Units(f))
  BY <1>1, <1>2, <1>3, FS_UNION
<1> QED
  BY <1>4, FS_CardinalityType DEF Total

\* Changing one value of a function changes its total by the difference.
LEMMA TotalUpdate ==
    ASSUME NEW S, IsFiniteSet(S), NEW f \in [S -> Nat], NEW g \in [S -> Nat], NEW x \in S,
           \A y \in S : y # x => g[y] = f[y]
    PROVE  Total(g) = Total(f) - f[x] + g[x]
<1> DEFINE rest == {u \in Units(f) : u[1] # x}
<1>1. IsFiniteSet(rest)
  <2>1. rest \in SUBSET Units(f)
    OBVIOUS
  <2> QED
    BY <2>1, TotalType, FS_Subset
<1>2. ASSUME NEW h \in [S -> Nat], \A y \in S : y # x => h[y] = f[y]
      PROVE  Total(h) = Cardinality(rest) + h[x]
  <2>1. Units(h) = rest \cup ({x} \X (1..h[x]))
    <3>1. ASSUME NEW u PROVE u \in Units(h) <=> \E y \in S : u \in {y} \X (1..h[y])
      BY DEF Units
    <3>2. ASSUME NEW u PROVE u \in Units(f) <=> \E y \in S : u \in {y} \X (1..f[y])
      BY DEF Units
    <3>3. ASSUME NEW u PROVE u \in rest <=> \E y \in S : y # x /\ u \in {y} \X (1..h[y])
      BY <1>2, <3>2
    <3> QED
      BY <3>1, <3>3
  <2>2. rest \cap ({x} \X (1..h[x])) = {}
    OBVIOUS
  <2>3. h[x] \in Nat
    OBVIOUS
  <2>4. IsFiniteSet({x} \X (1..h[x])) /\ Cardinality({x} \X (1..h[x])) = h[x]
    BY <2>3, UnitsOfOne
  <2>5. Cardinality(rest \cup ({x} \X (1..h[x]))) = Cardinality(rest) + h[x] - 0
    <3>1. Cardinality(rest \cup ({x} \X (1..h[x])))
            = Cardinality(rest) + Cardinality({x} \X (1..h[x]))
                - Cardinality(rest \cap ({x} \X (1..h[x])))
      BY <1>1, <2>4, FS_Union, Zenon
    <3> QED
      BY <2>2, <2>4, <3>1, FS_EmptySet
  <2>6. Cardinality(rest) \in Nat
    BY <1>1, FS_CardinalityType
  <2> QED
    BY <2>1, <2>3, <2>5, <2>6 DEF Total
<1>3. Total(f) = Cardinality(rest) + f[x] /\ Total(g) = Cardinality(rest) + g[x]
  BY <1>2
<1>4. Cardinality(rest) \in Nat /\ f[x] \in Nat /\ g[x] \in Nat
  BY <1>1, FS_CardinalityType
<1> QED
  BY <1>3, <1>4

\* What a change of the messages in transit to one transfer does to the amounts in transit.
LEMMA InTransitUpdate ==
    ASSUME CCTPTypeOK, NEW x \in Transfers, NEW n \in Amounts, NEW m \in Nat,
           transit' = [transit EXCEPT ![x][n] = m]
    PROVE  /\ \A y \in Transfers : InTransitTo(y) \in Nat
           /\ InTransit \in Nat
           /\ \A y \in Transfers : y # x => InTransitTo(y)' = InTransitTo(y)
           /\ InTransitTo(x)' = InTransitTo(x) - n * transit[x][n] + n * m
           /\ InTransit' = InTransit - n * transit[x][n] + n * m
<1> DEFINE of(y) == [k \in Amounts |-> k * transit[y][k]]
           all == [y \in Transfers |-> InTransitTo(y)]
<1>1. \A y \in Transfers : of(y) \in [Amounts -> Nat]
  BY DEF CCTPTypeOK
<1>2. \A y \in Transfers : InTransitTo(y) = Total(of(y)) /\ InTransitTo(y) \in Nat
  BY <1>1, TotalType DEF InTransitTo
<1>3. n \in Nat /\ transit[x][n] \in Nat /\ n * transit[x][n] \in Nat /\ n * m \in Nat
  BY DEF CCTPTypeOK
<1>4. \A y \in Transfers : y # x => transit'[y] = transit[y]
  BY DEF CCTPTypeOK
<1>5. /\ transit'[x][n] = m
      /\ \A k \in Amounts : k # n => transit'[x][k] = transit[x][k]
  BY DEF CCTPTypeOK
<1>6. \A y \in Transfers : y # x => InTransitTo(y)' = InTransitTo(y)
  BY <1>4 DEF InTransitTo
<1>7. of(x)' \in [Amounts -> Nat]
  <2>1. \A k \in Amounts : transit'[x][k] \in Nat
    BY <1>5 DEF CCTPTypeOK
  <2> QED
    BY <2>1
<1>8. InTransitTo(x)' = InTransitTo(x) - n * transit[x][n] + n * m /\ InTransitTo(x)' \in Nat
  <2> DEFINE g == of(x)'
  <2>1. \A k \in Amounts : k # n => g[k] = of(x)[k]
    BY <1>5
  <2>2. Total(g) = Total(of(x)) - of(x)[n] + g[n]
    <3>1. of(x) \in [Amounts -> Nat] /\ g \in [Amounts -> Nat]
      BY <1>1, <1>7
    <3> HIDE DEF of, g
    <3> QED
      BY <2>1, <3>1, TotalUpdate
  <2>3. g[n] = n * m /\ of(x)[n] = n * transit[x][n]
    BY <1>5
  <2>4. InTransitTo(x)' = Total(g) /\ InTransitTo(x) = Total(of(x))
    BY DEF InTransitTo
  <2>5. Total(g) \in Nat
    BY <1>7, TotalType
  <2> QED
    BY <2>2, <2>3, <2>4, <2>5
<1>9. all \in [Transfers -> Nat] /\ InTransit = Total(all) /\ InTransit' = Total(all')
  BY <1>2 DEF InTransit
<1>10. InTransit \in Nat
  BY <1>9, TotalType
<1>11. InTransit' = InTransit - n * transit[x][n] + n * m
  <2>1. all' \in [Transfers -> Nat]
    BY <1>2, <1>6, <1>8
  <2>2. \A y \in Transfers : y # x => all'[y] = all[y]
    BY <1>6
  <2>3. all'[x] = InTransitTo(x)' /\ all[x] = InTransitTo(x) /\ InTransitTo(x) \in Nat
    BY <1>2
  <2>4. Total(all') = Total(all) - all[x] + all'[x]
    <3> HIDE DEF all
    <3> QED
      BY <1>9, <2>1, <2>2, TotalUpdate
  <2> HIDE DEF all
  <2> QED
    BY <1>3, <1>8, <1>9, <1>10, <2>3, <2>4
<1> QED
  BY <1>2, <1>6, <1>8, <1>10, <1>11

-----------------------------------------------------------------------------
(* The money *)

MoneyInv == MoneyConserved /\ Accounted

\* The totals are numbers.
LEMMA TotalsType ==
    ASSUME CCTPTypeOK
    PROVE  /\ Total(balA) \in Nat /\ Total(balB) \in Nat /\ Total(inbox) \in Nat
           /\ held \in Nat /\ Total(Funds) \in Nat
BY TotalType DEF CCTPTypeOK

\* A burn puts on its way what it takes.
LEMMA BurnMoney ==
    ASSUME CCTPTypeOK, MoneyInv, NEW a \in Accounts, NEW x \in Transfers, NEW n \in Amounts,
           Burn(a, x, n), UNCHANGED chainB
    PROVE  MoneyInv'
<1>1. n \in Nat /\ balA[a] \in Nat /\ balA[a] - n \in Nat /\ transit[x][n] \in Nat
  BY DEF CCTPTypeOK, Burn
<1>2. Total(balA)' = Total(balA) - n
  <2>1. balA' \in [Accounts -> Nat] /\ balA \in [Accounts -> Nat]
    BY BurnTypes DEF CCTPTypeOK
  <2>2. balA'[a] = balA[a] - n /\ \A b \in Accounts : b # a => balA'[b] = balA[b]
    BY <2>1 DEF Burn
  <2>3. Total(balA') = Total(balA) - balA[a] + balA'[a]
    BY <2>1, <2>2, TotalUpdate
  <2> QED
    BY <1>1, <2>2, <2>3, TotalsType
<1>3. /\ \A y \in Transfers : InTransitTo(y) \in Nat
      /\ InTransit \in Nat
      /\ \A y \in Transfers : y # x => InTransitTo(y)' = InTransitTo(y)
      /\ InTransitTo(x)' = InTransitTo(x) + n
      /\ InTransit' = InTransit + n
  <2>1. transit' = [transit EXCEPT ![x][n] = transit[x][n] + 1]
    BY DEF Burn
  <2>2. n * (transit[x][n] + 1) = n * transit[x][n] + n /\ n * transit[x][n] \in Nat
        /\ transit[x][n] + 1 \in Nat
    BY <1>1
  <2>3. /\ \A y \in Transfers : InTransitTo(y) \in Nat
        /\ InTransit \in Nat
        /\ \A y \in Transfers : y # x => InTransitTo(y)' = InTransitTo(y)
        /\ InTransitTo(x)' = InTransitTo(x) - n * transit[x][n] + n * (transit[x][n] + 1)
        /\ InTransit' = InTransit - n * transit[x][n] + n * (transit[x][n] + 1)
    BY <2>1, <2>2, InTransitUpdate
  <2> QED
    BY <1>1, <2>2, <2>3
<1>4. UNCHANGED <<balB, inbox, held, claims>>
  BY DEF chainB
<1>5. MoneyConserved'
  <2>1. Total(balB)' = Total(balB) /\ Total(inbox)' = Total(inbox)
    BY <1>4
  <2> QED
    BY <1>1, <1>2, <1>3, <1>4, <2>1, TotalsType DEF MoneyInv, MoneyConserved
<1>6. Accounted'
  <2> SUFFICES ASSUME NEW y \in Transfers
               PROVE  claims[y] * y.fromAmount + inbox[y] + InTransitTo(y)' <= burned'[y]
    BY <1>4 DEF Accounted
  <2>1. claims[y] * y.fromAmount \in Nat /\ inbox[y] \in Nat /\ burned[y] \in Nat
    BY TransferFields DEF CCTPTypeOK
  <2>2. claims[y] * y.fromAmount + inbox[y] + InTransitTo(y) <= burned[y]
    BY DEF MoneyInv, Accounted
  <2>3. CASE y = x
    <3>1. burned'[y] = burned[y] + n
      BY <2>3 DEF CCTPTypeOK, Burn
    <3> QED
      BY <1>1, <1>3, <2>1, <2>2, <2>3, <3>1
  <2>4. CASE y # x
    <3>1. burned'[y] = burned[y]
      BY <2>4 DEF CCTPTypeOK, Burn
    <3> QED
      BY <1>3, <2>2, <2>4, <3>1
  <2> QED
    BY <2>3, <2>4
<1> QED
  BY <1>5, <1>6 DEF MoneyInv

\* A delivered message moves its amount from transit to the handoff.
LEMMA DeliverMoney ==
    ASSUME CCTPTypeOK, MoneyInv, NEW x \in Transfers, NEW n \in Amounts, Deliver(x, n)
    PROVE  MoneyInv'
<1>1. n \in Nat /\ transit[x][n] \in Nat /\ transit[x][n] - 1 \in Nat
      /\ inbox[x] \in Nat /\ inbox[x] + n \in Nat
  BY DEF CCTPTypeOK, Deliver
<1>2. /\ \A y \in Transfers : InTransitTo(y) \in Nat
      /\ InTransit \in Nat
      /\ \A y \in Transfers : y # x => InTransitTo(y)' = InTransitTo(y)
      /\ InTransitTo(x)' = InTransitTo(x) - n
      /\ InTransit' = InTransit - n
  <2>1. transit' = [transit EXCEPT ![x][n] = transit[x][n] - 1]
    BY DEF Deliver
  <2>2. n * (transit[x][n] - 1) = n * transit[x][n] - n /\ n * transit[x][n] \in Nat
    BY <1>1
  <2>3. /\ \A y \in Transfers : InTransitTo(y) \in Nat
        /\ InTransit \in Nat
        /\ \A y \in Transfers : y # x => InTransitTo(y)' = InTransitTo(y)
        /\ InTransitTo(x)' = InTransitTo(x) - n * transit[x][n] + n * (transit[x][n] - 1)
        /\ InTransit' = InTransit - n * transit[x][n] + n * (transit[x][n] - 1)
    BY <1>1, <2>1, InTransitUpdate
  <2> QED
    BY <1>1, <2>2, <2>3
<1>3. inbox' = [inbox EXCEPT ![x] = inbox[x] + n] /\ UNCHANGED <<balA, balB, held, claims, burned>>
  BY DEF Deliver, chainA
<1>4. Total(inbox)' = Total(inbox) + n
  <2>1. inbox' \in [Transfers -> Nat] /\ inbox \in [Transfers -> Nat]
    BY <1>1, <1>3 DEF CCTPTypeOK
  <2>2. inbox'[x] = inbox[x] + n /\ \A y \in Transfers : y # x => inbox'[y] = inbox[y]
    BY <1>3, <2>1
  <2>3. Total(inbox') = Total(inbox) - inbox[x] + inbox'[x]
    BY <2>1, <2>2, TotalUpdate
  <2> QED
    BY <1>1, <2>2, <2>3, TotalsType
<1>5. MoneyConserved'
  <2>1. Total(balB)' = Total(balB) /\ Total(balA)' = Total(balA)
    BY <1>3
  <2> QED
    BY <1>1, <1>2, <1>3, <1>4, <2>1, TotalsType DEF MoneyInv, MoneyConserved
<1>6. Accounted'
  <2> SUFFICES ASSUME NEW y \in Transfers
               PROVE  claims[y] * y.fromAmount + inbox'[y] + InTransitTo(y)' <= burned[y]
    BY <1>3 DEF Accounted
  <2>1. claims[y] * y.fromAmount \in Nat /\ inbox[y] \in Nat /\ burned[y] \in Nat
    BY TransferFields DEF CCTPTypeOK
  <2>2. claims[y] * y.fromAmount + inbox[y] + InTransitTo(y) <= burned[y]
    BY DEF MoneyInv, Accounted
  <2>3. CASE y = x
    <3>1. inbox'[y] = inbox[y] + n
      BY <1>3, <2>3 DEF CCTPTypeOK
    <3> QED
      BY <1>1, <1>2, <2>1, <2>2, <2>3, <3>1
  <2>4. CASE y # x
    <3>1. inbox'[y] = inbox[y]
      BY <1>3, <2>4 DEF CCTPTypeOK
    <3> QED
      BY <1>2, <2>2, <2>4, <3>1
  <2> QED
    BY <2>3, <2>4
<1> QED
  BY <1>5, <1>6 DEF MoneyInv

\* A provider's payment moves money between accounts of chain B, also when the provider is
\* the recipient.
LEMMA FastFinishMoney ==
    ASSUME CCTPTypeOK, MoneyInv, NEW x \in Transfers, NEW lp \in Accounts, FastFinish(lp, x)
    PROVE  MoneyInv'
<1> DEFINE n == x.toAmount
           paid == [balB EXCEPT ![lp] = balB[lp] - n]
<1>1. /\ n \in Nat /\ x.to \in Accounts /\ balB \in [Accounts -> Nat]
      /\ balB[lp] \in Nat /\ balB[lp] - n \in Nat
  BY TransferFields DEF CCTPTypeOK, FastFinish
<1>2. balB' = [balB EXCEPT ![lp] = @ - n, ![x.to] = @ + n]
      /\ UNCHANGED <<balA, transit, inbox, held, claims, burned>>
  BY DEF FastFinish, chainA
<1>3. paid \in [Accounts -> Nat] /\ \A b \in Accounts : b # lp => paid[b] = balB[b]
  BY <1>1
<1>4. paid[lp] = balB[lp] - n
  BY <1>1
<1>5. Total(paid) = Total(balB) - balB[lp] + paid[lp]
  <2> HIDE DEF paid
  <2> QED
    BY <1>1, <1>3, TotalUpdate
<1>6. /\ balB' \in [Accounts -> Nat]
      /\ \A b \in Accounts : b # x.to => balB'[b] = paid[b]
      /\ balB'[x.to] = paid[x.to] + n
  <2>1. CASE x.to = lp
    BY <1>1, <1>2, <1>3, <1>4, <2>1
  <2>2. CASE x.to # lp
    BY <1>1, <1>2, <1>3, <1>4, <2>2
  <2> QED
    BY <2>1, <2>2
<1>7. Total(balB)' = Total(balB)
  <2> HIDE DEF paid, n
  <2>1. Total(balB') = Total(paid) - paid[x.to] + balB'[x.to]
    BY <1>1, <1>3, <1>6, TotalUpdate
  <2>2. paid[x.to] \in Nat /\ Total(paid) \in Nat
    BY <1>1, <1>3, TotalType
  <2> QED
    BY <1>1, <1>4, <1>5, <1>6, <2>1, <2>2, TotalsType
<1>8. /\ \A y \in Transfers : InTransitTo(y)' = InTransitTo(y)
      /\ InTransit' = InTransit /\ Total(balA)' = Total(balA) /\ Total(inbox)' = Total(inbox)
  BY <1>2 DEF InTransit, InTransitTo
<1> QED
  BY <1>2, <1>7, <1>8 DEF MoneyInv, MoneyConserved, Accounted

\* A claim pays fromAmount from the handoff and leaves the rest in the contract.
LEMMA ClaimMoney ==
    ASSUME CCTPTypeOK, MoneyInv, NEW x \in Transfers, Claim(x)
    PROVE  MoneyInv'
<1> DEFINE n == x.fromAmount
           p == Payee(x)
<1>1. /\ n \in Nat /\ inbox[x] \in Nat /\ inbox[x] >= n /\ held \in Nat
      /\ p \in Accounts /\ balB[p] \in Nat /\ balB[p] + n \in Nat
  BY TransferFields DEF CCTPTypeOK, Claim, Sufficient, Payee
<1>2. /\ inbox' = [inbox EXCEPT ![x] = 0]
      /\ balB' = [balB EXCEPT ![p] = balB[p] + n]
      /\ held' = held + inbox[x] - n
      /\ claims' = [claims EXCEPT ![x] = @ + 1]
      /\ UNCHANGED <<balA, transit, burned>>
  BY DEF Claim, Sweep, chainA
<1>3. n = x.fromAmount
  OBVIOUS
<1> HIDE DEF n, p
<1>4. Total(inbox)' = Total(inbox) - inbox[x]
  <2>1. inbox' \in [Transfers -> Nat] /\ inbox \in [Transfers -> Nat]
    BY <1>2 DEF CCTPTypeOK
  <2>2. inbox'[x] = 0 /\ \A y \in Transfers : y # x => inbox'[y] = inbox[y]
    BY <1>2, <2>1
  <2>3. Total(inbox') = Total(inbox) - inbox[x] + inbox'[x]
    BY <2>1, <2>2, TotalUpdate
  <2> QED
    BY <1>1, <2>2, <2>3, TotalsType
<1>5. Total(balB)' = Total(balB) + n
  <2>1. balB' \in [Accounts -> Nat] /\ balB \in [Accounts -> Nat]
    BY <1>1, <1>2 DEF CCTPTypeOK
  <2>2. balB'[p] = balB[p] + n /\ \A b \in Accounts : b # p => balB'[b] = balB[b]
    BY <1>1, <1>2, <2>1
  <2>3. Total(balB') = Total(balB) - balB[p] + balB'[p]
    BY <1>1, <2>1, <2>2, TotalUpdate
  <2> QED
    BY <1>1, <2>2, <2>3, TotalsType
<1>6. /\ \A y \in Transfers : InTransitTo(y)' = InTransitTo(y)
      /\ InTransit' = InTransit /\ Total(balA)' = Total(balA)
  BY <1>2 DEF InTransit, InTransitTo
<1>7. /\ InTransit \in Nat
      /\ \A y \in Transfers : InTransitTo(y) \in Nat
  <2>1. \A y \in Transfers : [k \in Amounts |-> k * transit[y][k]] \in [Amounts -> Nat]
    BY DEF CCTPTypeOK
  <2>2. \A y \in Transfers : InTransitTo(y) \in Nat
    BY <2>1, TotalType DEF InTransitTo
  <2>3. [y \in Transfers |-> InTransitTo(y)] \in [Transfers -> Nat]
    BY <2>2
  <2> QED
    BY <2>2, <2>3, TotalType DEF InTransit
<1>8. MoneyConserved'
  BY <1>1, <1>2, <1>4, <1>5, <1>6, <1>7, TotalsType DEF MoneyInv, MoneyConserved
<1>9. Accounted'
  <2> SUFFICES ASSUME NEW y \in Transfers
               PROVE  claims'[y] * y.fromAmount + inbox'[y] + InTransitTo(y) <= burned[y]
    BY <1>2, <1>6 DEF Accounted
  <2>1. claims[y] * y.fromAmount + inbox[y] + InTransitTo(y) <= burned[y]
    BY DEF MoneyInv, Accounted
  <2>2. CASE y = x
    <3>1. claims'[y] = claims[y] + 1 /\ inbox'[y] = 0 /\ claims[y] \in Nat
          /\ burned[y] \in Nat
      BY <1>2, <2>2 DEF CCTPTypeOK
    <3>2. (claims[y] + 1) * n = claims[y] * n + n /\ claims[y] * n \in Nat
      BY <1>1, <3>1
    <3> QED
      BY <1>1, <1>3, <1>7, <2>1, <2>2, <3>1, <3>2
  <2>3. CASE y # x
    <3>1. claims'[y] = claims[y] /\ inbox'[y] = inbox[y]
      BY <1>2, <2>3 DEF CCTPTypeOK
    <3> QED
      BY <2>1, <3>1
  <2> QED
    BY <2>2, <2>3
<1> QED
  BY <1>8, <1>9 DEF MoneyInv

\* Every step keeps the money accounted for.
LEMMA MoneyStep == CCTPTypeOK /\ MoneyInv /\ [CCTPNext]_bridgeVars => MoneyInv'
<1> SUFFICES ASSUME CCTPTypeOK, MoneyInv, [CCTPNext]_bridgeVars PROVE MoneyInv'
  OBVIOUS
<1>1. ASSUME NEW x \in Transfers, StartTransfer(x) PROVE MoneyInv'
  <2>1. /\ x.from \in Accounts /\ Burn(x.from, x, x.fromAmount)
        /\ x.fromAmount \in Amounts /\ UNCHANGED chainB
    BY <1>1, TransferFields DEF StartTransfer, Start
  <2> QED
    BY <2>1, BurnMoney
<1>2. ASSUME NEW x \in Transfers, NEW a \in Accounts, NEW n \in Amounts, DirectBurn(a, x, n)
      PROVE  MoneyInv'
  BY <1>2, BurnMoney DEF DirectBurn
<1>3. ASSUME NEW a \in Accounts, NEW n \in Amounts, SendToChain(a, n) PROVE MoneyInv'
  <2> DEFINE x == BridgeTransfer(a, n, fastCCTPNonce + 1)
  <2>1. x \in Transfers /\ Burn(a, x, n) /\ UNCHANGED chainB
    BY <1>3, BridgeFields DEF SendToChain, Start
  <2> HIDE DEF x
  <2> QED
    BY <2>1, BurnMoney
<1>4. CASE UNCHANGED bridgeVars
  BY <1>4 DEF bridgeVars, MoneyInv, MoneyConserved, Accounted, InTransit, InTransitTo
<1> QED
  BY <1>1, <1>2, <1>3, <1>4, DeliverMoney, FastFinishMoney, ClaimMoney DEF CCTPNext

\* Nothing is on its way at the start.
LEMMA MoneyInit == CCTPInit => MoneyInv
<1> SUFFICES ASSUME CCTPInit PROVE MoneyInv
  OBVIOUS
<1>1. ASSUME NEW S, NEW f \in [S -> {0}] PROVE Total(f) = 0
  <2>1. Units(f) = {}
    BY DEF Units
  <2> QED
    BY <2>1, FS_EmptySet DEF Total
<1>2. \A x \in Transfers : InTransitTo(x) = 0
  <2> TAKE x \in Transfers
  <2>1. [n \in Amounts |-> n * transit[x][n]] \in [Amounts -> {0}]
    BY DEF CCTPInit
  <2> QED
    BY <1>1, <2>1 DEF InTransitTo
<1>3. InTransit = 0
  <2>1. [x \in Transfers |-> InTransitTo(x)] \in [Transfers -> {0}]
    BY <1>2
  <2> QED
    BY <1>1, <2>1 DEF InTransit
<1>4. Total(inbox) = 0
  <2>1. inbox \in [Transfers -> {0}]
    BY DEF CCTPInit
  <2> QED
    BY <1>1, <2>1
<1>5. Total(Funds) \in Nat
  BY TotalType
<1>6. MoneyConserved
  BY <1>3, <1>4, <1>5 DEF CCTPInit, MoneyConserved
<1>7. Accounted
  BY <1>2, TransferFields DEF CCTPInit, Accounted
<1> QED
  BY <1>6, <1>7 DEF MoneyInv

\* Over both chains and everything on its way between them no token is made or lost, and
\* each claim is paid from what was burned for its own transfer.
THEOREM MoneyIsBacked == CCTPSpec => []ClaimsBackedByBurns
<1>1. CCTPTypeOK /\ MoneyInv => ClaimsBackedByBurns
  <2> SUFFICES ASSUME CCTPTypeOK, MoneyInv, NEW x \in Transfers
               PROVE  claims[x] * x.fromAmount + inbox[x] <= burned[x]
    BY DEF MoneyInv, ClaimsBackedByBurns, BackedByBurns
  <2>1. [k \in Amounts |-> k * transit[x][k]] \in [Amounts -> Nat]
    BY DEF CCTPTypeOK
  <2>2. InTransitTo(x) \in Nat
    BY <2>1, TotalType DEF InTransitTo
  <2>3. claims[x] * x.fromAmount \in Nat /\ inbox[x] \in Nat /\ burned[x] \in Nat
    BY TransferFields DEF CCTPTypeOK
  <2>4. claims[x] * x.fromAmount + inbox[x] + InTransitTo(x) <= burned[x]
    BY DEF MoneyInv, Accounted
  <2> QED
    BY <2>2, <2>3, <2>4
<1> QED
  BY <1>1, TypeInit, TypeStep, MoneyInit, MoneyStep, PTL DEF CCTPSpec

=============================================================================
