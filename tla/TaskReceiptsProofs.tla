------------------------- MODULE TaskReceiptsProofs -------------------------
(***************************************************************************)
(* Theorems about TaskReceipts, for any tasks, messages, watch calls and   *)
(* failures: a receipt counts as consumed only when the owner's Agent was  *)
(* shown it, and a new message of an automatic continuation names none the *)
(* Agent has read, each up to what the model's history variables name.     *)
(***************************************************************************)
EXTENDS TaskReceipts, SequenceTheorems, FiniteSetTheorems, WellFoundedInduction, TLAPS

-----------------------------------------------------------------------------
(* The inductive invariant.  A receipt lies in the ledger, in its two      *)
(* places, as an entry; what an entry may be depends on what has been told *)
(* and on the texts of the messages the host has got.                      *)

Known == Read \cup forfeited \cup watch.done \cup misfiled

\* Where receipt r may be filed: under no message, one the host has not got
\* yet, one that names it, or it is one of the misfiled.
Places(r) == {m \in Message : m \in AtHost => r \in says[m] \cup misfiled} \cup {None}

\* The entries of a receipt that may be filed at P and is known or not.
EntriesOf(P, known) ==
    [is : BOOLEAN, to : P, acked : {FALSE}]
    \cup [is : BOOLEAN, to : {p \in P \cup {Call} : known}, acked : {TRUE}]

Entries(r) == EntriesOf(Places(r), r \in Known)

LedgerRight ==
    /\ ref = [r \in Receipt |-> ref[r]] /\ rec = [r \in Receipt |-> rec[r]]
    /\ \A r \in Receipt : ref[r] \in Entries(r) /\ rec[r] \in Entries(r)

\* What is answered is stored for good.
HostRight ==
    /\ thread \in Seq(Message) /\ thread # <<>>
    /\ posted \subseteq Message /\ written \subseteq Message
    /\ says = [m \in Message |-> says[m]]
    /\ answered \subseteq Range(thread)
    /\ serving \in Range(thread) \cup {None}

NoticeRight ==
    /\ notice = [r \in Receipt |-> notice[r]]
    /\ \A r \in Receipt : /\ notice[r] = [at |-> notice[r].at, to |-> notice[r].to]
                          /\ notice[r].to \in Message \cup {None}

WakeRight ==
    /\ wake \subseteq Receipt
    /\ wakeTo \in [Receipt -> Message \cup {None}]

HookRight == hook.at # "none" => hook.m \in Message

\* A check that has addressed a message has one.
CheckRight ==
    /\ check = [at |-> check.at, epoch |-> check.epoch, anchor |-> check.anchor,
                of |-> check.of, to |-> check.to, retry |-> check.retry,
                callers |-> check.callers]
    /\ check.retry \in Message \cup {None}
    /\ check.at \in {"mark", "latest", "admit", "owned", "sent"} => check.to \in Message

\* A reading acknowledges under answered messages only, and is about to tell
\* of nothing but what is known.
ReadingOk(x, settled, known) ==
    /\ x = [at |-> x.at, todo |-> x.todo, done |-> x.done, got |-> x.got]
    /\ x.todo \subseteq Receipt \X settled
    /\ x.at = "write" => x.todo # {}
    /\ x.done \subseteq known

ReadingRight ==
    /\ reading = [w \in Reader |-> reading[w]]
    /\ \A w \in Reader : ReadingOk(reading[w], answered, Known)

WatchRight ==
    /\ watch = [at |-> watch.at, of |-> watch.of, todo |-> watch.todo, done |-> watch.done]
    /\ watch.of \subseteq Receipt /\ watch.done \subseteq Receipt
    /\ watch.todo \subseteq watch.done
    /\ watch.at \notin {"record", "copy"} => watch.done = {}

ConsumedRight == consumed \subseteq Known

IInv ==
    /\ LedgerRight /\ HostRight /\ NoticeRight /\ WakeRight /\ HookRight /\ CheckRight
    /\ ReadingRight /\ WatchRight /\ ConsumedRight

-----------------------------------------------------------------------------
(* Numbers, messages and the host. *)

LEMMA MinimalOf ==
    ASSUME NEW R, IsWellFoundedOn(R, Nat), NEW S \in SUBSET Nat, S # {}
    PROVE  \E x \in S : \A y \in S : ~ (<<y, x>> \in R)
  BY WFMin

LEMMA LeastOf ==
    ASSUME NEW S \in SUBSET Nat, S # {}
    PROVE  \E c \in S : \A d \in S : c <= d
<1> DEFINE R == OpToRel(<, Nat)
<1>1. \A x, y \in Nat : x < y => <<x, y>> \in R
  BY DEF OpToRel
<1>2. IsWellFoundedOn(R, Nat)
  BY NatLessThanWellFounded
<1> HIDE DEF R
<1>3. S \subseteq Nat
  OBVIOUS
<1>4. \E x \in S : \A y \in S : ~ (<<y, x>> \in R)
  BY <1>2, MinimalOf
<1>5. PICK x \in S : \A y \in S : ~ (<<y, x>> \in R)
  BY <1>4
<1>6. ASSUME NEW y \in S PROVE x <= y
  <2>1. x \in Nat /\ y \in Nat
    BY <1>3
  <2>2. ~ (y < x)
    BY <1>1, <1>5, <2>1
  <2> QED
    BY <2>1, <2>2
<1> QED
  BY <1>6

LEMMA MinIsThere ==
    ASSUME NEW S \in SUBSET Nat, S # {}
    PROVE  Min(S) \in S
<1>1. \E c \in S : \A d \in S : c <= d
  BY LeastOf
<1> QED
  BY <1>1 DEF Min

\* The first of the pairs a reading has still to do.
LEMMA NextIsThere ==
    ASSUME NEW w, reading[w].todo # {}, NEW A, reading[w].todo \subseteq Receipt \X A
    PROVE  /\ Next1(w) \in reading[w].todo
           /\ Next1(w)[1] \in Receipt /\ Next1(w)[2] \in A
<1> DEFINE S == {p[1] : p \in reading[w].todo}
<1>1. \A p \in reading[w].todo : p[1] \in Receipt /\ p[2] \in A
  OBVIOUS
<1>2. S \in SUBSET Nat /\ S # {}
  BY <1>1, TaskReceiptsAssumption
<1>3. \E c \in S : \A d \in S : c <= d
  BY <1>2, LeastOf
<1>4. \E p \in reading[w].todo : \A q \in reading[w].todo : p[1] <= q[1]
  BY <1>3
<1> QED
  BY <1>1, <1>4 DEF Next1

LEMMA MessageFacts ==
    /\ Message \subseteq Nat /\ None \notin Message /\ Call \notin Message /\ Call # None
    /\ First \in Message /\ User \subseteq Message /\ Synthetic \subseteq Message
  BY TaskReceiptsAssumption DEF Message, First, User, Synthetic, None, Call

LEMMA RangeOfAppend ==
    ASSUME NEW S, NEW s \in Seq(S), NEW x \in S
    PROVE  /\ Append(s, x) \in Seq(S) /\ Append(s, x) # <<>>
           /\ Range(Append(s, x)) = Range(s) \cup {x}
<1>1. /\ Append(s, x) \in Seq(S) /\ Len(Append(s, x)) = Len(s) + 1
      /\ \A i \in 1..Len(s) : Append(s, x)[i] = s[i]
      /\ Append(s, x)[Len(s) + 1] = x
  BY AppendProperties
<1>2. Len(s) \in Nat /\ DOMAIN s = 1..Len(s)
  OBVIOUS
<1>3. DOMAIN Append(s, x) = 1..(Len(s) + 1)
  BY <1>1
<1>4. 1..(Len(s) + 1) = 1..Len(s) \cup {Len(s) + 1}
  BY <1>2
<1>5. Range(Append(s, x)) = {Append(s, x)[i] : i \in 1..Len(s)} \cup {x}
  BY <1>1, <1>3, <1>4 DEF Range
<1>6. Range(s) = {s[i] : i \in 1..Len(s)}
  BY <1>2 DEF Range
<1>7. {Append(s, x)[i] : i \in 1..Len(s)} = {s[i] : i \in 1..Len(s)}
  BY <1>1
<1>8. Append(s, x) # <<>>
  BY AppendProperties
<1> QED
  BY <1>1, <1>5, <1>6, <1>7, <1>8

LEMMA RangeIsTyped ==
    ASSUME NEW S, NEW s \in Seq(S)
    PROVE  /\ Range(s) \subseteq S
           /\ s # <<>> => Last(s) \in Range(s)
<1>1. Len(s) \in Nat /\ DOMAIN s = 1..Len(s) /\ \A i \in 1..Len(s) : s[i] \in S
  OBVIOUS
<1>2. s # <<>> => Len(s) \in 1..Len(s)
  BY <1>1, EmptySeq
<1> QED
  BY <1>1, <1>2 DEF Range, Last

LEMMA ThreadFacts ==
    ASSUME HostRight
    PROVE  /\ Range(thread) \subseteq Message /\ Last(thread) \in Range(thread)
           /\ answered \subseteq Message /\ answered \subseteq AtHost
  BY RangeIsTyped DEF HostRight, AtHost

-----------------------------------------------------------------------------
(* Entries of the ledger. *)

LEMMA EntryFacts ==
    ASSUME NEW P, NEW k \in BOOLEAN, NEW x \in EntriesOf(P, k)
    PROVE  /\ x = [is |-> x.is, to |-> x.to, acked |-> x.acked]
           /\ x.is \in BOOLEAN /\ x.acked \in BOOLEAN
           /\ x.acked => k /\ x.to \in P \cup {Call}
           /\ ~x.acked => x.to \in P
  BY DEF EntriesOf

LEMMA EntryIntro ==
    ASSUME NEW P, NEW k \in BOOLEAN, NEW i \in BOOLEAN, NEW to
    PROVE  /\ to \in P => [is |-> i, to |-> to, acked |-> FALSE] \in EntriesOf(P, k)
           /\ k /\ to \in P \cup {Call} => [is |-> i, to |-> to, acked |-> TRUE] \in EntriesOf(P, k)
  BY DEF EntriesOf

LEMMA EntryAcked ==
    ASSUME NEW P, NEW k \in BOOLEAN, NEW x \in EntriesOf(P, k), k
    PROVE  [x EXCEPT !.acked = TRUE] \in EntriesOf(P, k)
<1>1. x.is \in BOOLEAN /\ x.to \in P \cup {Call}
  BY EntryFacts DEF EntriesOf
<1>2. x = [is |-> x.is, to |-> x.to, acked |-> x.acked]
  BY EntryFacts
<1>3. ASSUME NEW v PROVE [x EXCEPT !.acked = v] = [is |-> x.is, to |-> x.to, acked |-> v]
  BY <1>2
<1>4. [is |-> x.is, to |-> x.to, acked |-> TRUE] \in EntriesOf(P, k)
  BY <1>1, EntryIntro
<1> QED
  BY <1>3, <1>4

LEMMA EntryGrows ==
    ASSUME NEW P, NEW Q, P \subseteq Q, NEW k \in BOOLEAN, NEW l \in BOOLEAN, k => l
    PROVE  EntriesOf(P, k) \subseteq EntriesOf(Q, l)
  BY DEF EntriesOf

LEMMA MergedIsEntry ==
    ASSUME NEW P, NEW k \in BOOLEAN, NEW x \in EntriesOf(P, k), NEW y \in EntriesOf(P, k)
    PROVE  Merged(x, y) \in EntriesOf(P, k)
<1>1. CASE ~x.is \/ x.to = None
  BY <1>1 DEF Merged
<1>2. CASE ~(~x.is \/ x.to = None) /\ x.to # y.to
  BY <1>2 DEF Merged
<1>3. CASE ~(~x.is \/ x.to = None) /\ x.to = y.to
  <2>1. Merged(x, y) = [x EXCEPT !.acked = x.acked \/ y.acked]
    BY <1>3 DEF Merged
  <2>2. CASE x.acked
    <3>1. Merged(x, y) = [is |-> x.is, to |-> x.to, acked |-> TRUE]
      BY <2>1, <2>2, EntryFacts
    <3> QED
      BY <3>1, <2>2, EntryFacts, EntryIntro
  <2>3. CASE ~x.acked /\ y.acked
    <3>1. Merged(x, y) = [x EXCEPT !.acked = TRUE]
      BY <2>1, <2>3, ZenonT(20)
    <3>2. x = [is |-> x.is, to |-> x.to, acked |-> x.acked]
      BY EntryFacts
    <3>3. Merged(x, y) = [is |-> x.is, to |-> x.to, acked |-> TRUE]
      BY <3>1, <3>2
    <3> QED
      BY <3>3, <2>3, EntryFacts, EntryIntro
  <2>4. CASE ~x.acked /\ ~y.acked
    <3>1. Merged(x, y) = [is |-> x.is, to |-> x.to, acked |-> FALSE]
      BY <2>1, <2>4, EntryFacts
    <3> QED
      BY <3>1, <2>4, EntryFacts, EntryIntro
  <2> QED
    BY <2>2, <2>3, <2>4, EntryFacts
<1> QED
  BY <1>1, <1>2, <1>3

LEMMA DeliveredIsEntry ==
    ASSUME NEW P, NEW k \in BOOLEAN, NEW m \in P
    PROVE  Delivered(m) \in EntriesOf(P, k)
  BY EntryIntro DEF Delivered

-----------------------------------------------------------------------------
(* What a step leaves alone. *)

\* Nothing is forgotten, and no place is lost.
Grows == Known \subseteq Known' /\ \A r \in Receipt : Places(r) \subseteq Places(r)'

LEMMA SameTold ==
    ASSUME UNCHANGED <<thread, posted, written, says, answered, misfiled, returned, forfeited>>,
           watch'.done = watch.done
    PROVE  Grows /\ Known' = Known
<1>1. AtHost' = AtHost
  BY DEF AtHost
<1>2. Read' = Read
  BY DEF Read
<1>3. Known' = Known
  BY <1>2 DEF Known
<1>4. \A r \in Receipt : Places(r)' = Places(r)
  BY <1>1 DEF Places
<1> QED
  BY <1>3, <1>4 DEF Grows

LEMMA EntriesGrow ==
    ASSUME Grows, NEW r \in Receipt
    PROVE  Entries(r) \subseteq Entries(r)'
<1>1. /\ Places(r) \subseteq Places(r)'
      /\ r \in Known => r \in Known'
      /\ (r \in Known) \in BOOLEAN /\ (r \in Known') \in BOOLEAN
  BY DEF Grows
<1>2. EntriesOf(Places(r), r \in Known) \subseteq EntriesOf(Places(r)', r \in Known')
  BY <1>1, EntryGrows
<1> QED
  BY <1>2 DEF Entries

LEMMA Frame ==
    ASSUME IInv
    PROVE  /\ Grows /\ UNCHANGED <<rec, ref>> => LedgerRight'
           /\ UNCHANGED host => HostRight'
           /\ UNCHANGED notice => NoticeRight'
           /\ UNCHANGED <<wake, wakeTo>> => WakeRight'
           /\ UNCHANGED hook => HookRight'
           /\ UNCHANGED check => CheckRight'
           /\ Grows /\ answered \subseteq answered' /\ UNCHANGED reading => ReadingRight'
           /\ UNCHANGED watch => WatchRight'
           /\ Grows /\ UNCHANGED consumed => ConsumedRight'
<1>1. ASSUME Grows, UNCHANGED <<rec, ref>> PROVE LedgerRight'
  <2>1. \A r \in Receipt : Entries(r) \subseteq Entries(r)'
    BY <1>1, EntriesGrow
  <2> QED
    BY <1>1, <2>1 DEF LedgerRight, IInv
<1>2. ASSUME UNCHANGED host PROVE HostRight'
  BY <1>2 DEF HostRight, IInv, host
<1>3. ASSUME UNCHANGED notice PROVE NoticeRight'
  BY <1>3 DEF NoticeRight, IInv
<1>4. ASSUME UNCHANGED <<wake, wakeTo>> PROVE WakeRight'
  BY <1>4 DEF WakeRight, IInv
<1>5. ASSUME UNCHANGED hook PROVE HookRight'
  BY <1>5 DEF HookRight, IInv
<1>6. ASSUME UNCHANGED check PROVE CheckRight'
  BY <1>6 DEF CheckRight, IInv
<1>7. ASSUME Grows, answered \subseteq answered', UNCHANGED reading PROVE ReadingRight'
  BY <1>7 DEF ReadingRight, ReadingOk, IInv, Grows
<1>8. ASSUME UNCHANGED watch PROVE WatchRight'
  BY <1>8 DEF WatchRight, IInv
<1>9. ASSUME Grows, UNCHANGED consumed PROVE ConsumedRight'
  BY <1>9 DEF ConsumedRight, IInv, Grows
<1> QED
  BY <1>1, <1>2, <1>3, <1>4, <1>5, <1>6, <1>7, <1>8, <1>9

-----------------------------------------------------------------------------
(* What the helpers make of the ledger. *)

LEMMA PublishedIsRight ==
    ASSUME LedgerRight, NEW R
    PROVE  /\ Published(R) = [r \in Receipt |-> Published(R)[r]]
           /\ \A r \in Receipt : Published(R)[r] \in Entries(r)
<1>1. ASSUME NEW r \in Receipt PROVE Published(R)[r] \in Entries(r)
  <2>1. ref[r] \in Entries(r) /\ rec[r] \in Entries(r) /\ (r \in Known) \in BOOLEAN
    BY DEF LedgerRight
  <2>2. Merged(ref[r], rec[r]) \in Entries(r)
    BY <2>1, MergedIsEntry DEF Entries
  <2>3. Published(R)[r] = IF r \in R /\ rec[r].is THEN Merged(ref[r], rec[r]) ELSE ref[r]
    BY DEF Published
  <2> QED
    BY <2>1, <2>2, <2>3
<1>2. Published(R) = [r \in Receipt |-> Published(R)[r]]
  BY DEF Published
<1> QED
  BY <1>1, <1>2

LEMMA LedgerPublished ==
    ASSUME LedgerRight, Grows, NEW R, ref' = Published(R), rec' = rec
    PROVE  LedgerRight'
<1>1. ref' = [r \in Receipt |-> ref'[r]] /\ \A r \in Receipt : ref'[r] \in Entries(r)
  BY PublishedIsRight
<1>2. \A r \in Receipt : Entries(r) \subseteq Entries(r)'
  BY EntriesGrow
<1> QED
  BY <1>1, <1>2 DEF LedgerRight

LEMMA DeliveriesAreMessages ==
    ASSUME LedgerRight, NEW R, NEW m \in Message, NEW keep \in BOOLEAN
    PROVE  /\ DOMAIN Deliveries(R, m, keep) = R
           /\ \A r \in R \cap Receipt : Deliveries(R, m, keep)[r] \in Message \cup {None}
<1>1. ASSUME NEW r \in Receipt, ~ref[r].acked PROVE ref[r].to \in Message \cup {None}
  <2>1. ref[r] \in EntriesOf(Places(r), r \in Known) /\ (r \in Known) \in BOOLEAN
    BY DEF LedgerRight, Entries
  <2>2. ref[r].to \in Places(r)
    BY <1>1, <2>1, EntryFacts
  <2> QED
    BY <2>2 DEF Places
<1> QED
  BY <1>1 DEF Deliveries

LEMMA MarkedIsRight ==
    ASSUME LedgerRight, NEW D, MarkDelivered(D),
           \A r \in DOMAIN D \cap Receipt : D[r] \in Message \cup {None},
           UNCHANGED <<thread, posted, written, says, answered, returned, forfeited, watch>>
    PROVE  Grows /\ LedgerRight'
<1> DEFINE marked == {r \in DOMAIN D : D[r] # None}
<1>1. /\ misfiled' = misfiled \cup {r \in marked : D[r] \in AtHost /\ r \notin says[D[r]]}
      /\ ref' = [r \in Receipt |-> IF r \in marked THEN Delivered(D[r]) ELSE ref[r]]
      /\ rec' = [r \in Receipt |-> IF r \in marked /\ ~rec[r].acked
                                   THEN Delivered(D[r]) ELSE rec[r]]
  BY DEF MarkDelivered
<1>2. AtHost' = AtHost /\ Read' = Read
  BY DEF AtHost, Read
<1>3. misfiled \subseteq misfiled'
  BY <1>1
<1>4. Grows
  BY <1>2, <1>3 DEF Grows, Known, Places
<1>5. ASSUME NEW r \in Receipt, r \in marked PROVE Delivered(D[r]) \in Entries(r)'
  <2>1. D[r] \in Message
    BY <1>5
  <2>2. D[r] \in AtHost => r \in says[D[r]] \cup misfiled'
    BY <1>1, <1>5
  <2>3. D[r] \in Places(r)'
    BY <1>2, <2>1, <2>2 DEF Places
  <2>4. (r \in Known)' \in BOOLEAN
    OBVIOUS
  <2> QED
    BY <2>3, <2>4, DeliveredIsEntry DEF Entries
<1>6. \A r \in Receipt : Entries(r) \subseteq Entries(r)'
  BY <1>4, EntriesGrow
<1> HIDE DEF marked
<1>7. LedgerRight'
  <2>1. ref' = [r \in Receipt |-> ref'[r]] /\ rec' = [r \in Receipt |-> rec'[r]]
    BY <1>1
  <2>2. ASSUME NEW r \in Receipt PROVE ref'[r] \in Entries(r)' /\ rec'[r] \in Entries(r)'
    BY <1>1, <1>5, <1>6 DEF LedgerRight
  <2> QED
    BY <2>1, <2>2 DEF LedgerRight
<1> QED
  BY <1>4, <1>7

\* A new message at the host: what was filed under it and it does not name is
\* misfiled from now on.
LEMMA SubmittedIsRight ==
    ASSUME IInv, NEW m \in Message, NEW R, Submit(m, R),
           UNCHANGED <<rec, ref, thread, written, answered, serving, returned, forfeited, watch>>
    PROVE  Known \subseteq Known' /\ LedgerRight' /\ HostRight'
<1>1. AtHost' = AtHost \cup {m}
  BY DEF Submit, AtHost
<1>2. HostRight'
  <2>1. says' = [x \in Message |-> says'[x]]
    BY DEF Submit, IInv, HostRight
  <2> QED
    BY <2>1 DEF Submit, IInv, HostRight
<1>3. answered \subseteq AtHost /\ answered \subseteq Message
  BY ThreadFacts DEF IInv
<1>4. Read' = Read
  <2>1. CASE m \in AtHost
    BY <2>1 DEF Submit, Read
  <2>2. CASE m \notin AtHost
    <3>1. \A x \in answered : says'[x] = says[x]
      BY <1>3, <2>2 DEF Submit, IInv, HostRight
    <3> QED
      BY <3>1 DEF Read
  <2> QED
    BY <2>1, <2>2
<1>5. misfiled \subseteq misfiled'
  BY DEF Submit
<1>6. Known \subseteq Known'
  BY <1>4, <1>5 DEF Known
<1>7. ASSUME NEW r \in Receipt, NEW x \in Entries(r), x = ref[r] \/ x = rec[r]
      PROVE  x \in Entries(r)'
  <2>1. ASSUME x.to \in Places(r) PROVE x.to \in Places(r)'
    <3>1. CASE m \in AtHost
      BY <1>1, <2>1, <3>1 DEF Submit, Places
    <3>2. CASE m \notin AtHost /\ x.to # m
      BY <1>1, <1>5, <2>1, <3>2 DEF Submit, Places, IInv, HostRight
    <3>3. CASE m \notin AtHost /\ x.to = m
      <4>1. r \in R => r \in says'[m]
        BY <3>3 DEF Submit, IInv, HostRight
      <4>2. r \notin R => r \in misfiled'
        BY <1>7, <3>3 DEF Submit
      <4> QED
        BY <3>3, <4>1, <4>2 DEF Places
    <3> QED
      BY <3>1, <3>2, <3>3
  <2>2. (r \in Known) \in BOOLEAN /\ (r \in Known') \in BOOLEAN /\ (r \in Known => r \in Known')
    BY <1>6
  <2>3. x = [is |-> x.is, to |-> x.to, acked |-> x.acked] /\ x.is \in BOOLEAN
    BY <2>2, EntryFacts DEF Entries
  <2>4. CASE x.acked
    <3>1. x.acked = TRUE /\ r \in Known' /\ x.to \in Places(r)' \cup {Call}
      BY <2>1, <2>2, <2>4, EntryFacts DEF Entries
    <3>2. [is |-> x.is, to |-> x.to, acked |-> TRUE] \in EntriesOf(Places(r)', r \in Known')
      BY <2>2, <2>3, <3>1, EntryIntro
    <3> QED
      BY <2>3, <3>1, <3>2 DEF Entries
  <2>5. CASE ~x.acked
    <3>1. x.acked = FALSE /\ x.to \in Places(r)'
      BY <2>1, <2>2, <2>5, EntryFacts DEF Entries
    <3>2. [is |-> x.is, to |-> x.to, acked |-> FALSE] \in EntriesOf(Places(r)', r \in Known')
      BY <2>2, <2>3, <3>1, EntryIntro
    <3> QED
      BY <2>3, <3>1, <3>2 DEF Entries
  <2> QED
    BY <2>4, <2>5
<1>8. LedgerRight'
  BY <1>7 DEF LedgerRight, IInv
<1> QED
  BY <1>2, <1>6, <1>8

-----------------------------------------------------------------------------
(* A task ends, and the notification. *)

LEMMA TaskEndsStep ==
    ASSUME IInv, NEW r \in Receipt, TaskEnds(r)
    PROVE  IInv'
<1>1. Grows
  BY SameTold DEF TaskEnds, host, history
<1>2. LedgerRight'
  <2>1. Delivered(None) \in Entries(r)'
    <3>1. None \in Places(r)' /\ (r \in Known)' \in BOOLEAN
      BY DEF Places
    <3> QED
      BY <3>1, DeliveredIsEntry DEF Entries
  <2>2. \A x \in Receipt : Entries(x) \subseteq Entries(x)'
    BY <1>1, EntriesGrow
  <2> QED
    BY <2>1, <2>2 DEF LedgerRight, IInv, TaskEnds
<1>3. NoticeRight'
  BY DEF NoticeRight, IInv, TaskEnds
<1> QED
  BY <1>1, <1>2, <1>3, Frame DEF TaskEnds, IInv, host, wakes, shared

LEMMA DeliverNoticeStep ==
    ASSUME IInv, NEW r \in Receipt, DeliverNotice(r)
    PROVE  IInv'
<1>1. Grows
  BY SameTold DEF DeliverNotice, host, history
<1>2. LedgerRight'
  BY <1>1, LedgerPublished DEF IInv, DeliverNotice
<1>3. NoticeRight'
  BY DEF NoticeRight, IInv, DeliverNotice, Quiet
<1>4. WakeRight'
  BY DEF WakeRight, NoticeRight, IInv, DeliverNotice, Waken
<1> QED
  BY <1>1, <1>2, <1>3, <1>4, Frame DEF DeliverNotice, IInv, host, shared

LEMMA FailNoticeStep ==
    ASSUME IInv, NEW r \in Receipt, FailNotice(r)
    PROVE  IInv'
<1>1. Grows
  BY SameTold DEF FailNotice, host, history
<1>2. NoticeRight'
  BY DEF NoticeRight, IInv, FailNotice
<1> QED
  BY <1>1, <1>2, Frame DEF FailNotice, IInv, ledger, host, wakes, shared

LEMMA RetryNoticeStep ==
    ASSUME IInv, NEW r \in Receipt, RetryNotice(r)
    PROVE  IInv'
<1>1. Grows
  BY SameTold DEF RetryNotice, host, history
<1>2. NoticeRight'
  BY DEF NoticeRight, IInv, RetryNotice
<1> QED
  BY <1>1, <1>2, Frame DEF RetryNotice, IInv, ledger, host, wakes, shared

-----------------------------------------------------------------------------
(* The readings of the hook and of the check. *)

LEMMA ReadingGrows ==
    ASSUME NEW S, NEW T, S \subseteq T, NEW K, NEW L, K \subseteq L, NEW x, ReadingOk(x, S, K)
    PROVE  ReadingOk(x, T, L)
  BY DEF ReadingOk

LEMMA ReadingIntro ==
    ASSUME NEW S, NEW K, NEW at, NEW todo, NEW done, NEW got,
           todo \subseteq Receipt \X S, at = "write" => todo # {}, done \subseteq K
    PROVE  ReadingOk([at |-> at, todo |-> todo, done |-> done, got |-> got], S, K)
  BY DEF ReadingOk

LEMMA ReadingMoves ==
    ASSUME NEW S, NEW K, NEW x, ReadingOk(x, S, K), NEW at, at = "write" => x.todo # {}
    PROVE  ReadingOk([x EXCEPT !.at = at], S, K)
<1>1. x = [at |-> x.at, todo |-> x.todo, done |-> x.done, got |-> x.got]
  BY DEF ReadingOk
<1>2. [x EXCEPT !.at = at] = [at |-> at, todo |-> x.todo, done |-> x.done, got |-> x.got]
  BY <1>1
<1> QED
  BY <1>2, ReadingIntro DEF ReadingOk

LEMMA ReadingSet ==
    ASSUME ReadingRight, Known \subseteq Known', answered \subseteq answered',
           NEW w \in Reader, NEW x,
           reading' = [reading EXCEPT ![w] = x], ReadingOk(x, answered', Known')
    PROVE  ReadingRight'
<1>1. reading' = [v \in Reader |-> reading'[v]]
  BY DEF ReadingRight
<1>2. ASSUME NEW v \in Reader PROVE ReadingOk(reading'[v], answered', Known')
  <2>1. CASE v = w
    <3>1. reading'[v] = x
      BY <2>1 DEF ReadingRight
    <3> QED
      BY <3>1
  <2>2. CASE v # w
    <3>1. reading'[v] = reading[v]
      BY <2>2 DEF ReadingRight
    <3>2. ReadingOk(reading[v], answered, Known)
      BY DEF ReadingRight
    <3> QED
      BY <3>1, <3>2, ReadingGrows
  <2> QED
    BY <2>1, <2>2
<1> QED
  BY <1>1, <1>2 DEF ReadingRight

LEMMA GatherStep ==
    ASSUME IInv, NEW w \in Reader, Gather(w)
    PROVE  IInv'
<1>1. Grows
  BY SameTold DEF Gather, host, history
<1>2. LedgerRight'
  BY <1>1, LedgerPublished DEF IInv, Gather
<1>3. ReadingRight'
  <2> DEFINE todo == {<<r, ref'[r].to>> : r \in {x \in Receipt :
                         ref'[x].is /\ ~ref'[x].acked /\ ref'[x].to \in answered}}
  <2>1. todo \subseteq Receipt \X answered
    OBVIOUS
  <2>2. reading' = [reading EXCEPT ![w] = Settling(todo, {})]
    BY DEF Gather
  <2> HIDE DEF todo
  <2>3. ReadingOk(Settling(todo, {}), answered', Known')
    BY <2>1, ReadingIntro DEF Settling, Gather, host
  <2> QED
    BY <1>1, <2>2, <2>3, ReadingSet DEF Gather, host, IInv, Grows
<1> QED
  BY <1>1, <1>2, <1>3, Frame DEF Gather, IInv, host, wakes, shared

LEMMA TakeAnsweredStep ==
    ASSUME IInv, NEW w \in Reader, TakeAnswered(w)
    PROVE  IInv'
<1>1. Grows
  BY SameTold DEF TakeAnswered, host, history
<1>2. ReadingRight'
  <2>1. answered' = answered /\ Known \subseteq Known' /\ reading[w].todo # {}
    BY <1>1 DEF TakeAnswered, host, Grows
  <2>2. reading' = [reading EXCEPT ![w] = [reading[w] EXCEPT !.at = "write"]]
    BY DEF TakeAnswered
  <2>3. ReadingOk(reading[w], answered', Known')
    BY <2>1, ReadingGrows DEF IInv, ReadingRight
  <2>4. ReadingOk([reading[w] EXCEPT !.at = "write"], answered', Known')
    BY <2>1, <2>3, ReadingMoves
  <2> QED
    BY <1>1, <2>1, <2>2, <2>4, ReadingSet DEF IInv, Grows
<1> QED
  BY <1>1, <1>2, Frame DEF TakeAnswered, IInv, ledger, host, wakes

\* The acknowledged receipt was filed under an answered message: that one
\* names it, or the receipt is misfiled.
LEMMA AcknowledgeAnsweredStep ==
    ASSUME IInv, NEW w \in Reader, AcknowledgeAnswered(w)
    PROVE  IInv'
<1>1. Grows
  BY SameTold DEF AcknowledgeAnswered, host, history
<1>2. PICK p \in reading[w].todo, r \in Receipt :
         p = Next1(w) /\ r = p[1] /\ p[2] \in answered
  BY NextIsThere DEF AcknowledgeAnswered, IInv, ReadingRight, ReadingOk
<1>3. /\ ref[r].to = p[2] /\ ~ref[r].acked
      /\ ref' = [ref EXCEPT ![r].acked = TRUE]
      /\ rec' = IF rec[r].acked THEN rec
                ELSE [rec EXCEPT ![r] = [is |-> TRUE, to |-> p[2], acked |-> TRUE]]
      /\ reading' = [reading EXCEPT ![w] = Settling(reading[w].todo \ {p},
                                                    reading[w].done \cup {r})]
  BY <1>2 DEF AcknowledgeAnswered
<1>4. p[2] \in Places(r) /\ r \in Known
  <2>1. ref[r] \in EntriesOf(Places(r), r \in Known) /\ (r \in Known) \in BOOLEAN
    BY <1>2 DEF IInv, LedgerRight, Entries
  <2>2. p[2] \in Places(r)
    BY <1>3, <2>1, EntryFacts
  <2>3. p[2] \in Message /\ p[2] \in AtHost
    BY <1>2, ThreadFacts DEF IInv
  <2>4. r \in says[p[2]] \cup misfiled
    BY <2>2, <2>3, MessageFacts DEF Places
  <2> QED
    BY <1>2, <2>2, <2>4 DEF Known, Read
<1>5. LedgerRight'
  <2>1. ref[r] \in EntriesOf(Places(r), r \in Known) /\ (r \in Known) \in BOOLEAN
    BY DEF IInv, LedgerRight, Entries
  <2>2. [ref[r] EXCEPT !.acked = TRUE] \in Entries(r)
    BY <1>4, <2>1, EntryAcked DEF Entries
  <2>3. [is |-> TRUE, to |-> p[2], acked |-> TRUE] \in Entries(r)
    BY <1>4, <2>1, EntryIntro DEF Entries
  <2>4. \A x \in Receipt : Entries(x) \subseteq Entries(x)'
    BY <1>1, EntriesGrow
  <2>5. ref' = [ref EXCEPT ![r] = [ref[r] EXCEPT !.acked = TRUE]]
    BY <1>3
  <2> QED
    BY <1>3, <2>2, <2>3, <2>4, <2>5 DEF LedgerRight, IInv
<1>6. ReadingRight'
  <2>1. r \in Known' /\ answered' = answered /\ Known \subseteq Known'
    BY <1>1, <1>4 DEF Grows, AcknowledgeAnswered, host
  <2>2. /\ reading[w].todo \ {p} \subseteq Receipt \X answered
        /\ reading[w].done \cup {r} \subseteq Known'
    BY <2>1 DEF IInv, ReadingRight, ReadingOk
  <2>3. ReadingOk(Settling(reading[w].todo \ {p}, reading[w].done \cup {r}), answered', Known')
    BY <2>1, <2>2, ReadingIntro DEF Settling
  <2> QED
    BY <1>1, <1>3, <2>1, <2>3, ReadingSet DEF IInv, Grows
<1> QED
  BY <1>1, <1>5, <1>6, Frame DEF AcknowledgeAnswered, IInv, host, wakes, shared

LEMMA LeaveAnsweredStep ==
    ASSUME IInv, NEW w \in Reader, LeaveAnswered(w)
    PROVE  IInv'
<1>1. Grows
  BY SameTold DEF LeaveAnswered, host, history
<1>2. ReadingRight'
  <2>1. answered' = answered /\ Known \subseteq Known'
    BY <1>1 DEF Grows, LeaveAnswered, host
  <2>2. /\ reading[w].todo \ {Next1(w)} \subseteq Receipt \X answered
        /\ reading[w].done \subseteq Known'
    BY <2>1 DEF IInv, ReadingRight, ReadingOk
  <2>3. CASE reading' = [reading EXCEPT ![w] = Settling(reading[w].todo \ {Next1(w)},
                                                        reading[w].done)]
    <3>1. ReadingOk(Settling(reading[w].todo \ {Next1(w)}, reading[w].done), answered', Known')
      BY <2>1, <2>2, ReadingIntro DEF Settling
    <3> QED
      BY <1>1, <2>1, <2>3, <3>1, ReadingSet DEF IInv, Grows
  <2>4. CASE reading' = [reading EXCEPT ![w].at = "thrown"]
    <3>1. ReadingOk([reading[w] EXCEPT !.at = "thrown"], answered', Known')
      BY <2>1, ReadingGrows, ReadingMoves DEF IInv, ReadingRight
    <3>2. reading' = [reading EXCEPT ![w] = [reading[w] EXCEPT !.at = "thrown"]]
      BY <2>4
    <3> QED
      BY <1>1, <2>1, <3>1, <3>2, ReadingSet DEF IInv, Grows
  <2> QED
    BY <2>3, <2>4 DEF LeaveAnswered
<1> QED
  BY <1>1, <1>2, Frame DEF LeaveAnswered, IInv, ledger, host

LEMMA ForgetWakeupsFacts ==
    ASSUME WakeRight, NEW R, ForgetWakeups(R)
    PROVE  WakeRight'
  BY DEF WakeRight, ForgetWakeups

LEMMA TellAnsweredStep ==
    ASSUME IInv, NEW w \in Reader, TellAnswered(w)
    PROVE  IInv'
<1>1. Grows
  BY SameTold DEF TellAnswered, host, history
<1>2. WakeRight'
  BY ForgetWakeupsFacts, Frame DEF TellAnswered, IInv, Consume, wakes
<1>3. ConsumedRight'
  <2>1. consumed' \subseteq consumed \cup reading[w].done
    BY DEF TellAnswered, Consume, shared
  <2> QED
    BY <1>1, <2>1 DEF IInv, ConsumedRight, ReadingRight, ReadingOk, Grows
<1>4. ReadingRight'
  <2>1. answered' = answered
    BY DEF TellAnswered, host
  <2>2. reading' = [reading EXCEPT ![w] = [at |-> "done", todo |-> {}, done |-> {},
                                           got |-> Pending]]
    BY DEF TellAnswered
  <2>3. ReadingOk([at |-> "done", todo |-> {}, done |-> {}, got |-> Pending], answered', Known')
    BY ReadingIntro
  <2> QED
    BY <1>1, <2>1, <2>2, <2>3, ReadingSet DEF IInv, Grows
<1> QED
  BY <1>1, <1>2, <1>3, <1>4, Frame DEF TellAnswered, IInv, ledger, host

LEMMA ReadsStep ==
    ASSUME IInv, Reads
    PROVE  IInv'
  BY GatherStep, TakeAnsweredStep, AcknowledgeAnsweredStep, LeaveAnsweredStep, TellAnsweredStep
     DEF Reads

-----------------------------------------------------------------------------
(* A message of the user. *)

LEMMA FreshReading ==
    ASSUME NEW S, NEW K
    PROVE  /\ ReadingOk(NoReading, S, K)
           /\ ReadingOk([NoReading EXCEPT !.at = "begin"], S, K)
<1>1. ReadingOk(NoReading, S, K)
  BY ReadingIntro DEF NoReading
<1> QED
  BY <1>1, ReadingMoves

LEMMA HookBeginsStep ==
    ASSUME IInv, HookBegins
    PROVE  IInv'
<1>1. Grows /\ answered' = answered
  BY SameTold DEF HookBegins, host, history
<1>2. NoticeRight'
  <2>1. CASE recovered
    BY <2>1, Frame DEF HookBegins, IInv
  <2>2. CASE ~recovered
    <3>1. ASSUME NEW r \in Pending PROVE ref[r].to \in Message \cup {None}
      <4>1. ref[r] \in EntriesOf(Places(r), r \in Known) /\ (r \in Known) \in BOOLEAN /\ ~ref[r].acked
        BY DEF Pending, IInv, LedgerRight, Entries
      <4>2. ref[r].to \in Places(r)
        BY <4>1, EntryFacts
      <4> QED
        BY <4>2 DEF Places
    <3>2. notice' = [r \in Receipt |-> IF r \in Pending THEN [at |-> "due", to |-> ref[r].to]
                                                        ELSE notice[r]]
      BY <2>2 DEF HookBegins, Renotified
    <3> QED
      BY <3>1, <3>2 DEF NoticeRight, IInv
  <2> QED
    BY <2>1, <2>2
<1>3. HookRight'
  BY MessageFacts DEF HookRight, HookBegins
<1>4. ReadingRight'
  <2>1. reading' = [reading EXCEPT !["hook"] = [NoReading EXCEPT !.at = "begin"]]
    BY DEF HookBegins
  <2>2. ReadingOk([NoReading EXCEPT !.at = "begin"], answered', Known')
    BY FreshReading
  <2>3. "hook" \in Reader
    BY DEF Reader
  <2> QED
    BY <1>1, <2>1, <2>2, <2>3, ReadingSet DEF IInv, Grows
<1> QED
  BY <1>1, <1>2, <1>3, <1>4, Frame DEF HookBegins, IInv, ledger, host, wakes, shared

LEMMA HookMarksStep ==
    ASSUME IInv, HookMarks
    PROVE  IInv'
<1>1. hook.m \in Message
  BY DEF HookMarks, IInv, HookRight
<1>2. PICK D : D = Deliveries(reading["hook"].got, hook.m, FALSE)
  OBVIOUS
<1>3. MarkDelivered(D)
  BY <1>2 DEF HookMarks
<1>4. \A r \in DOMAIN D \cap Receipt : D[r] \in Message \cup {None}
  BY <1>1, <1>2, DeliveriesAreMessages DEF IInv
<1>5. Grows /\ LedgerRight'
  BY <1>3, <1>4, MarkedIsRight DEF HookMarks, IInv, host
<1>6. HookRight'
  <2>1. hook' = [hook EXCEPT !.at = "marked"] /\ hook.at = "reads"
    BY DEF HookMarks
  <2>2. hook'.m = hook.m
    BY <2>1
  <2> QED
    BY <1>1, <2>2 DEF HookRight
<1> QED
  BY <1>5, <1>6, Frame DEF HookMarks, IInv, host, wakes, shared

LEMMA HookReturnsStep ==
    ASSUME IInv, HookReturns
    PROVE  IInv'
<1>1. hook.m \in Message
  BY DEF HookReturns, IInv, HookRight
<1>2. Submit(hook.m, reading["hook"].got) /\ answered' = answered
  BY DEF HookReturns
<1>3. Known \subseteq Known' /\ LedgerRight' /\ HostRight'
  BY <1>1, <1>2, SubmittedIsRight DEF HookReturns, ledger
<1>4. ReadingRight'
  <2>1. reading' = [reading EXCEPT !["hook"] = NoReading]
    BY DEF HookReturns
  <2> QED
    BY <1>2, <1>3, <2>1, FreshReading, ReadingSet DEF Reader, IInv
<1>5. HookRight'
  BY DEF HookReturns, HookRight, NoHook
<1>6. ConsumedRight'
  BY <1>3 DEF HookReturns, shared, ConsumedRight, IInv
<1> QED
  BY <1>3, <1>4, <1>5, <1>6, Frame DEF HookReturns, IInv, wakes, shared

LEMMA HookFailsStep ==
    ASSUME IInv, HookFails
    PROVE  IInv'
<1>1. Grows /\ answered' = answered
  BY SameTold DEF HookFails, host
<1>2. ReadingRight'
  <2>1. reading' = [reading EXCEPT !["hook"] = NoReading] /\ Known \subseteq Known'
    BY <1>1 DEF HookFails, Grows
  <2> QED
    BY <1>1, <2>1, FreshReading, ReadingSet DEF Reader, IInv, Grows
<1>3. HookRight'
  BY DEF HookFails, HookRight, NoHook
<1> QED
  BY <1>1, <1>2, <1>3, Frame DEF HookFails, IInv, ledger, host, shared

-----------------------------------------------------------------------------
(* The host. *)

LEMMA HostStoresStep ==
    ASSUME IInv, NEW m \in Message, HostStores(m)
    PROVE  IInv'
<1>1. Known' = Known /\ AtHost' \subseteq AtHost /\ answered' = answered
  BY DEF HostStores, Known, Read, AtHost, history
<1>2. Grows
  BY <1>1 DEF Grows, Places, HostStores, history
<1>3. HostRight'
  BY DEF HostStores, HostRight, IInv
<1> QED
  BY <1>1, <1>2, <1>3, Frame DEF HostStores, IInv, ledger, wakes, shared

LEMMA HostStoresPartsStep ==
    ASSUME IInv, NEW m \in Message, HostStoresParts(m)
    PROVE  IInv'
<1>1. thread' \in Seq(Message) /\ thread' # <<>> /\ Range(thread') = Range(thread) \cup {m}
  BY RangeOfAppend DEF HostStoresParts, HostRight, IInv
<1>2. Known' = Known /\ AtHost' = AtHost /\ answered' = answered
  BY <1>1 DEF HostStoresParts, Known, Read, AtHost, history
<1>3. Grows
  BY <1>2 DEF Grows, Places, HostStoresParts, history
<1>4. HostRight'
  BY <1>1 DEF HostStoresParts, HostRight, IInv
<1> QED
  BY <1>2, <1>3, <1>4, Frame DEF HostStoresParts, IInv, ledger, wakes, shared

LEMMA HostStartsStep ==
    ASSUME IInv, HostStarts
    PROVE  IInv'
<1>1. Grows
  BY SameTold DEF HostStarts, history
<1>2. HostRight'
  BY ThreadFacts DEF HostStarts, HostRight, IInv
<1> QED
  BY <1>1, <1>2, Frame DEF HostStarts, IInv, ledger, wakes, shared

LEMMA HostAnswersStep ==
    ASSUME IInv, HostAnswers
    PROVE  IInv'
<1>1. answered \subseteq answered' /\ AtHost' = AtHost
  BY DEF HostAnswers, AtHost
<1>2. Read \subseteq Read'
  BY <1>1 DEF HostAnswers, Read, history
<1>3. Grows
  BY <1>1, <1>2 DEF Grows, Known, Places, HostAnswers, history
<1>4. HostRight'
  BY ThreadFacts DEF HostAnswers, HostRight, IInv, Busy
<1> QED
  BY <1>1, <1>3, <1>4, Frame DEF HostAnswers, IInv, ledger, wakes, shared

LEMMA HostErrsStep ==
    ASSUME IInv, NEW a \in BOOLEAN, HostErrs(a)
    PROVE  IInv'
<1>1. Grows
  BY SameTold DEF HostErrs, history
<1>2. HostRight'
  BY DEF HostErrs, HostRight, IInv
<1> QED
  BY <1>1, <1>2, Frame DEF HostErrs, IInv, ledger, wakes, shared

-----------------------------------------------------------------------------
(* A watch call. *)

LEMMA NoWatchIsRight ==
    ASSUME watch' = NoWatch
    PROVE  WatchRight'
  BY DEF WatchRight, NoWatch

LEMMA ReleasedIsRight ==
    ASSUME NoticeRight, NEW R
    PROVE  /\ Released(R) = [r \in Receipt |-> Released(R)[r]]
           /\ \A r \in Receipt :
                 /\ Released(R)[r] = [at |-> Released(R)[r].at, to |-> Released(R)[r].to]
                 /\ Released(R)[r].to \in Message \cup {None}
<1>1. ASSUME NEW r \in Receipt
      PROVE  /\ Released(R)[r] = [at |-> Released(R)[r].at, to |-> Released(R)[r].to]
             /\ Released(R)[r].to \in Message \cup {None}
  <2>1. Released(R)[r] = IF r \in R /\ notice[r].at = "deferred"
                         THEN [notice[r] EXCEPT !.at = "due"] ELSE notice[r]
    BY DEF Released
  <2>2. /\ notice[r] = [at |-> notice[r].at, to |-> notice[r].to]
        /\ notice[r].to \in Message \cup {None}
    BY DEF NoticeRight
  <2>3. [notice[r] EXCEPT !.at = "due"] = [at |-> "due", to |-> notice[r].to]
    BY <2>2
  <2> QED
    BY <2>1, <2>2, <2>3
<1> QED
  BY <1>1 DEF Released

LEMMA NoticeReleased ==
    ASSUME NoticeRight, NEW R, notice' = Released(R)
    PROVE  NoticeRight'
  BY ReleasedIsRight DEF NoticeRight

LEMMA WatchBeginsStep ==
    ASSUME IInv, WatchBegins
    PROVE  IInv'
<1>1. watch' = [NoWatch EXCEPT !.at = "waiting", !.of = {r \in Receipt : ~rec[r].acked}]
  BY DEF WatchBegins
<1>2. WatchRight' /\ watch'.done = {}
  BY <1>1 DEF WatchRight, NoWatch
<1>3. watch.done = {}
  BY DEF WatchBegins, IInv, WatchRight
<1>4. Grows
  BY <1>2, <1>3, SameTold DEF WatchBegins, host, history
<1> QED
  BY <1>2, <1>4, Frame DEF WatchBegins, IInv, ledger, host, wakes, shared

LEMMA WatchLeavesStep ==
    ASSUME IInv, WatchLeaves
    PROVE  IInv'
<1>1. watch' = NoWatch /\ watch.done = {}
  BY DEF WatchLeaves, IInv, WatchRight
<1>2. Grows
  BY <1>1, SameTold DEF WatchLeaves, host, history, NoWatch
<1>3. NoticeRight'
  BY NoticeReleased DEF WatchLeaves, IInv
<1> QED
  BY <1>1, <1>2, <1>3, NoWatchIsRight, Frame DEF WatchLeaves, IInv, ledger, host, wakes, shared

LEMMA WatchTakesStep ==
    ASSUME IInv, WatchTakes
    PROVE  IInv'
<1>1. PICK R : R = {r \in watch.of : rec[r].is}
  OBVIOUS
<1>2. /\ watch' = [watch EXCEPT !.at = "record", !.todo = R, !.done = R]
      /\ ref' = Published(R)
  BY <1>1 DEF WatchTakes
<1>3. R \subseteq Receipt /\ watch.done = {}
  BY <1>1 DEF IInv, WatchRight, WatchTakes
<1>4. WatchRight' /\ watch'.done = R
  BY <1>2, <1>3 DEF WatchRight, IInv
<1>5. Grows
  BY <1>3 DEF Grows, Known, Read, Places, AtHost, WatchTakes, host, history
<1>6. LedgerRight'
  BY <1>2, <1>5, LedgerPublished DEF WatchTakes, IInv
<1> QED
  BY <1>4, <1>5, <1>6, Frame DEF WatchTakes, IInv, host, wakes

LEMMA WatchRecordsStep ==
    ASSUME IInv, WatchRecords
    PROVE  IInv'
<1>1. PICK r \in Receipt : r = Min(watch.todo) /\ r \in watch.done
  <2>1. watch.todo \subseteq watch.done /\ watch.done \subseteq Receipt /\ watch.todo # {}
    BY DEF IInv, WatchRight, WatchRecords
  <2>2. watch.todo \in SUBSET Nat
    BY <2>1, TaskReceiptsAssumption
  <2> QED
    BY <2>1, <2>2, MinIsThere
<1>2. watch' = [watch EXCEPT !.at = "copy"] /\ watch.at = "record"
  BY DEF WatchRecords
<1>3. WatchRight' /\ watch'.done = watch.done
  BY <1>2 DEF WatchRight, IInv
<1>4. Grows
  BY <1>3, SameTold DEF WatchRecords, host, history
<1>5. LedgerRight'
  <2>1. PICK merged : merged = Merged(ref[r], rec[r])
    OBVIOUS
  <2>2. PICK to : to = IF merged.to = None THEN Call ELSE merged.to
    OBVIOUS
  <2>3. rec' = [rec EXCEPT ![r] = [is |-> TRUE, to |-> to, acked |-> TRUE]] /\ ref' = ref
    BY <1>1, <2>1, <2>2 DEF WatchRecords
  <2>4. merged \in EntriesOf(Places(r), r \in Known) /\ (r \in Known) \in BOOLEAN
    <3>1. /\ ref[r] \in EntriesOf(Places(r), r \in Known)
          /\ rec[r] \in EntriesOf(Places(r), r \in Known)
          /\ (r \in Known) \in BOOLEAN
      BY DEF IInv, LedgerRight, Entries
    <3> QED
      BY <2>1, <3>1, MergedIsEntry
  <2>5. to \in Places(r) \cup {Call}
    BY <2>2, <2>4, EntryFacts
  <2>6. r \in Known
    BY <1>1 DEF Known
  <2>7. [is |-> TRUE, to |-> to, acked |-> TRUE] \in Entries(r)
    BY <2>4, <2>5, <2>6, EntryIntro DEF Entries
  <2>8. \A x \in Receipt : Entries(x) \subseteq Entries(x)'
    BY <1>4, EntriesGrow
  <2> QED
    BY <2>3, <2>7, <2>8 DEF LedgerRight, IInv
<1> QED
  BY <1>3, <1>4, <1>5, Frame DEF WatchRecords, IInv, host, wakes, shared

LEMMA WatchCopiesStep ==
    ASSUME IInv, WatchCopies
    PROVE  IInv'
<1>1. PICK r : r = Min(watch.todo)
  OBVIOUS
<1>2. watch' = [watch EXCEPT !.at = "record", !.todo = watch.todo \ {r}] /\ watch.at = "copy"
  BY <1>1 DEF WatchCopies
<1>3. WatchRight' /\ watch'.done = watch.done
  BY <1>2 DEF WatchRight, IInv
<1>4. Grows
  BY <1>3, SameTold DEF WatchCopies, host, history
<1>5. LedgerRight'
  BY <1>1, <1>4, LedgerPublished DEF WatchCopies, IInv
<1> QED
  BY <1>3, <1>4, <1>5, Frame DEF WatchCopies, IInv, host, wakes, shared

LEMMA WatchFailsStep ==
    ASSUME IInv, WatchFails
    PROVE  IInv'
<1>1. watch' = NoWatch /\ forfeited' = forfeited \cup watch.done
  BY DEF WatchFails
<1>2. Grows
  BY <1>1 DEF Grows, Known, Read, Places, AtHost, WatchFails, host, NoWatch
<1>3. NoticeRight'
  BY NoticeReleased DEF WatchFails, IInv
<1> QED
  BY <1>1, <1>2, <1>3, NoWatchIsRight, Frame DEF WatchFails, IInv, ledger, host

LEMMA WatchReturnsStep ==
    ASSUME IInv, WatchReturns
    PROVE  IInv'
<1>1. watch' = NoWatch /\ returned' = returned \cup watch.done
  BY DEF WatchReturns
<1>2. Grows
  BY <1>1 DEF Grows, Known, Read, Places, AtHost, WatchReturns, host, NoWatch
<1>3. NoticeRight'
  <2>1. notice' = [r \in Receipt |-> IF r \in watch.done THEN Quiet ELSE Released(watch.of)[r]]
    BY DEF WatchReturns
  <2> QED
    BY <2>1, ReleasedIsRight DEF NoticeRight, IInv, Quiet
<1>4. WakeRight'
  BY ForgetWakeupsFacts DEF WatchReturns, Consume, IInv
<1>5. ConsumedRight'
  <2>1. consumed' = consumed \cup watch.done
    BY DEF WatchReturns, Consume
  <2>2. watch.done \subseteq Known'
    BY <1>2 DEF Known, Grows
  <2> QED
    BY <1>2, <2>1, <2>2 DEF ConsumedRight, IInv, Grows
<1> QED
  BY <1>1, <1>2, <1>3, <1>4, <1>5, NoWatchIsRight, Frame DEF WatchReturns, IInv, ledger, host

LEMMA WatchesStep ==
    ASSUME IInv, Watches
    PROVE  IInv'
  BY WatchBeginsStep, WatchLeavesStep, WatchTakesStep, WatchRecordsStep, WatchCopiesStep,
     WatchFailsStep, WatchReturnsStep DEF Watches

-----------------------------------------------------------------------------
(* Restart. *)

LEMMA RestartStep ==
    ASSUME IInv, Restart
    PROVE  IInv'
<1>1. watch' = NoWatch /\ forfeited' = forfeited \cup watch.done
  BY DEF Restart
<1>2. Grows
  BY <1>1 DEF Grows, Known, Read, Places, AtHost, Restart, NoWatch
<1>3. HostRight'
  BY DEF Restart, HostRight, IInv
<1>4. NoticeRight' /\ WakeRight' /\ HookRight' /\ CheckRight' /\ ConsumedRight'
  BY DEF Restart, NoticeRight, WakeRight, HookRight, CheckRight, ConsumedRight, Quiet, NoHook, NoCheck
<1>5. ReadingRight'
  BY FreshReading DEF Restart, ReadingRight
<1> QED
  BY <1>1, <1>2, <1>3, <1>4, <1>5, NoWatchIsRight, Frame DEF Restart, IInv, ledger

-----------------------------------------------------------------------------
(* The check. *)

Ended == check' = NoCheck /\ reading' = [reading EXCEPT !["check"] = NoReading]

LEMMA EndIs ==
    ASSUME NEW result, End(result)
    PROVE  Ended
  BY DEF End, Ended

LEMMA EndBlockedIs ==
    ASSUME EndBlocked
    PROVE  Ended
  BY DEF EndBlocked, End, Ended

LEMMA CheckReadingIs ==
    ASSUME IInv, Grows, answered' = answered,
           \/ reading' = [reading EXCEPT !["check"] = NoReading]
           \/ reading' = [reading EXCEPT !["check"] = [NoReading EXCEPT !.at = "begin"]]
    PROVE  ReadingRight'
<1>1. "check" \in Reader
  BY DEF Reader
<1>2. PICK x : /\ reading' = [reading EXCEPT !["check"] = x]
               /\ ReadingOk(x, answered', Known')
  BY FreshReading
<1> QED
  BY <1>1, <1>2, ReadingSet DEF IInv, Grows

LEMMA EndedIsRight ==
    ASSUME IInv, Grows, answered' = answered, Ended
    PROVE  CheckRight' /\ ReadingRight'
<1>1. CheckRight'
  BY DEF Ended, CheckRight, NoCheck
<1> QED
  BY <1>1, CheckReadingIs DEF Ended

LEMMA AskIsRight ==
    ASSUME CheckRight, NEW caller, Ask(caller)
    PROVE  CheckRight'
<1>1. CASE check.at # "none"
  <2>1. check' = [check EXCEPT !.callers = check.callers \cup {caller}]
    BY <1>1 DEF Ask
  <2> QED
    BY <2>1 DEF CheckRight
<1>2. CASE check.at = "none"
  <2>1. check' = [NoCheck EXCEPT !.at = "status", !.epoch = UserEpoch, !.callers = {caller}]
    BY <1>2 DEF Ask
  <2> QED
    BY <2>1 DEF CheckRight, NoCheck
<1> QED
  BY <1>1, <1>2

LEMMA TimerFiresStep ==
    ASSUME IInv, TimerFires
    PROVE  IInv'
<1>1. Grows
  BY SameTold DEF TimerFires, host, history
<1>2. CheckRight'
  BY AskIsRight, Frame DEF TimerFires, IInv
<1> QED
  BY <1>1, <1>2, Frame DEF TimerFires, IInv, ledger, host, shared

LEMMA CheckBeginsStep ==
    ASSUME IInv, CheckBegins
    PROVE  IInv'
<1>1. Grows /\ answered' = answered
  BY SameTold DEF CheckBegins, host, history
<1>2. Ended \/ (check' = [check EXCEPT !.at = "owner"] /\ reading' = reading)
  BY EndIs DEF CheckBegins
<1>3. CheckRight' /\ ReadingRight'
  <2>1. CASE Ended
    BY <1>1, <2>1, EndedIsRight
  <2>2. CASE check' = [check EXCEPT !.at = "owner"] /\ reading' = reading
    <3>1. CheckRight'
      BY <2>2 DEF CheckRight, IInv
    <3> QED
      BY <1>1, <2>2, <3>1, Frame
  <2> QED
    BY <1>2, <2>1, <2>2
<1> QED
  BY <1>1, <1>3, Frame DEF CheckBegins, IInv, ledger, host

LEMMA CheckReadsOwnerStep ==
    ASSUME IInv, CheckReadsOwner
    PROVE  IInv'
<1>1. Grows /\ answered' = answered
  BY SameTold DEF CheckReadsOwner, host, history
<1>2. PICK again : again = {m \in Message : conts'[m].retry}
  OBVIOUS
<1>3. PICK retry : retry = IF again = {} THEN None ELSE Min(again)
  OBVIOUS
<1>4. retry \in Message \cup {None}
  BY <1>2, <1>3, MinIsThere, MessageFacts
<1>5. /\ wake' = wake /\ wakeTo' = wakeTo
      /\ \/ Ended
         \/ /\ \E anchor, of : check' = [check EXCEPT !.at = "choose", !.anchor = anchor,
                                                      !.retry = retry, !.of = of]
            /\ reading' = [reading EXCEPT !["check"] = [NoReading EXCEPT !.at = "begin"]]
  BY <1>2, <1>3, EndBlockedIs DEF CheckReadsOwner, wakes
<1>6. CheckRight' /\ ReadingRight'
  <2>1. CASE Ended
    BY <1>1, <2>1, EndedIsRight
  <2>2. CASE ~Ended
    <3>1. PICK anchor, of : check' = [check EXCEPT !.at = "choose", !.anchor = anchor,
                                                   !.retry = retry, !.of = of]
      BY <1>5, <2>2
    <3>2. CheckRight'
      BY <1>4, <3>1 DEF CheckRight, IInv
    <3> QED
      BY <1>1, <1>5, <2>2, <3>2, CheckReadingIs
  <2> QED
    BY <2>1, <2>2
<1> QED
  BY <1>1, <1>5, <1>6, Frame DEF CheckReadsOwner, IInv, ledger, host

LEMMA CheckChoosesStep ==
    ASSUME IInv, CheckChooses
    PROVE  IInv'
<1>1. Grows /\ answered' = answered
  BY SameTold DEF CheckChooses, host, history
<1>2. /\ \/ wake' = wake /\ wakeTo' = wakeTo
         \/ wake' = {} /\ wakeTo' = [r \in Receipt |-> None]
      /\ \/ Ended
         \/ /\ \E of : check' = [check EXCEPT !.at = "status2", !.of = of]
            /\ reading' = [reading EXCEPT !["check"] = NoReading]
  BY EndIs, EndBlockedIs DEF CheckChooses
<1>3. WakeRight'
  BY <1>2 DEF WakeRight, IInv
<1>4. CheckRight' /\ ReadingRight'
  <2>1. CASE Ended
    BY <1>1, <2>1, EndedIsRight
  <2>2. CASE ~Ended
    <3>1. PICK of : check' = [check EXCEPT !.at = "status2", !.of = of]
      BY <1>2, <2>2
    <3>2. CheckRight'
      BY <3>1 DEF CheckRight, IInv
    <3> QED
      BY <1>1, <1>2, <2>2, <3>2, CheckReadingIs
  <2> QED
    BY <2>1, <2>2
<1> QED
  BY <1>1, <1>3, <1>4, Frame DEF CheckChooses, IInv, ledger, host

LEMMA CheckAddressesStep ==
    ASSUME IInv, CheckAddresses
    PROVE  IInv'
<1>1. Grows /\ answered' = answered
  BY SameTold DEF CheckAddresses, host, history
<1>2. PICK of : of = {r \in check.of : Wakeable(r)}
  OBVIOUS
<1>3. PICK reused : reused = {wakeTo[r] : r \in of} \ {None}
  OBVIOUS
<1>4. reused \subseteq Message
  BY <1>2, <1>3 DEF Wakeable, IInv, WakeRight
<1>5. Fresh # {} => Min(Fresh) \in Message
  <2>1. Fresh \subseteq Message
    BY MessageFacts DEF Fresh
  <2> QED
    BY <2>1, MinIsThere, MessageFacts
<1>6. \/ Ended
      \/ /\ \E to \in Message : \E kept :
               check' = [check EXCEPT !.at = "mark", !.of = kept, !.to = to]
         /\ reading' = reading
  <2>1. ASSUME NEW to \in IF check.retry # None THEN {check.retry}
                          ELSE IF reused # {} THEN reused
                          ELSE IF Fresh # {} THEN {Min(Fresh)} ELSE {}
        PROVE  to \in Message
    BY <1>4, <1>5 DEF IInv, CheckRight
  <2> QED
    BY <1>2, <1>3, <2>1, EndIs, EndBlockedIs DEF CheckAddresses
<1>7. CheckRight' /\ ReadingRight'
  <2>1. CASE Ended
    BY <1>1, <2>1, EndedIsRight
  <2>2. CASE ~Ended
    <3>1. PICK to \in Message : \E kept :
             check' = [check EXCEPT !.at = "mark", !.of = kept, !.to = to]
      BY <1>6, <2>2
    <3>2. CheckRight'
      BY <3>1 DEF CheckRight, IInv
    <3> QED
      BY <1>1, <1>6, <2>2, <3>2, Frame
  <2> QED
    BY <2>1, <2>2
<1> QED
  BY <1>1, <1>7, Frame DEF CheckAddresses, IInv, ledger, host

LEMMA CheckMarksStep ==
    ASSUME IInv, CheckMarks
    PROVE  IInv'
<1>1. check.to \in Message /\ check.at = "mark"
  BY DEF CheckMarks, IInv, CheckRight
<1>2. PICK D : D = Deliveries(check.of, check.to, TRUE)
  OBVIOUS
<1>3. MarkDelivered(D) /\ answered' = answered
  BY <1>2 DEF CheckMarks, host
<1>4. DOMAIN D = check.of /\ \A r \in DOMAIN D \cap Receipt : D[r] \in Message \cup {None}
  BY <1>1, <1>2, DeliveriesAreMessages DEF IInv
<1>5. Grows /\ LedgerRight'
  BY <1>3, <1>4, MarkedIsRight DEF CheckMarks, IInv, host
<1>6. PICK of : of = {r \in check.of : D[r] = check.to}
  OBVIOUS
<1>7. PICK moved : moved = [r \in Receipt |-> IF r \in (check.of \ of) \cap wake /\ D[r] # None
                                             THEN D[r] ELSE wakeTo[r]]
  OBVIOUS
<1>8. moved \in [Receipt -> Message \cup {None}]
  BY <1>4, <1>7 DEF IInv, WakeRight
<1>9. /\ wake' = wake
      /\ \/ wakeTo' = moved /\ Ended
         \/ /\ wakeTo' = [r \in Receipt |-> IF r \in of THEN check.to ELSE moved[r]]
            /\ check' = [check EXCEPT !.at = "latest", !.of = of]
            /\ reading' = [reading EXCEPT !["check"] = [NoReading EXCEPT !.at = "begin"]]
  BY <1>2, <1>6, <1>7, EndIs, EndBlockedIs DEF CheckMarks
<1>10. WakeRight'
  BY <1>1, <1>8, <1>9 DEF WakeRight, IInv
<1>11. CheckRight' /\ ReadingRight'
  <2>1. CASE Ended
    BY <1>3, <1>5, <2>1, EndedIsRight
  <2>2. CASE ~Ended
    <3>1. check' = [check EXCEPT !.at = "latest", !.of = of]
      BY <1>9, <2>2
    <3>2. CheckRight'
      BY <1>1, <3>1 DEF CheckRight, IInv
    <3> QED
      BY <1>3, <1>5, <1>9, <2>2, <3>2, CheckReadingIs
  <2> QED
    BY <2>1, <2>2
<1> QED
  BY <1>5, <1>10, <1>11, Frame DEF CheckMarks, IInv, host

LEMMA CheckCreatesStep ==
    ASSUME IInv, CheckCreates
    PROVE  IInv'
<1>1. Grows /\ answered' = answered
  BY SameTold DEF CheckCreates, host, history
<1>2. \/ Ended
      \/ /\ \E of : check' = [check EXCEPT !.at = "admit", !.of = of]
         /\ reading' = [reading EXCEPT !["check"] = NoReading]
  BY EndIs, EndBlockedIs DEF CheckCreates
<1>3. CheckRight' /\ ReadingRight'
  <2>1. CASE Ended
    BY <1>1, <2>1, EndedIsRight
  <2>2. CASE ~Ended
    <3>1. PICK of : check' = [check EXCEPT !.at = "admit", !.of = of]
      BY <1>2, <2>2
    <3>2. check.at = "latest"
      BY DEF CheckCreates
    <3>3. CheckRight'
      BY <3>1, <3>2 DEF CheckRight, IInv
    <3> QED
      BY <1>1, <1>2, <2>2, <3>3, CheckReadingIs
  <2> QED
    BY <2>1, <2>2
<1> QED
  BY <1>1, <1>3, Frame DEF CheckCreates, IInv, ledger, host

LEMMA CheckAdmitsStep ==
    ASSUME IInv, CheckAdmits
    PROVE  IInv'
<1>1. Grows /\ answered' = answered
  BY SameTold DEF CheckAdmits, host, history
<1>2. Ended \/ (check' = [check EXCEPT !.at = "owned"] /\ reading' = reading)
  BY EndIs DEF CheckAdmits
<1>3. CheckRight' /\ ReadingRight'
  <2>1. CASE Ended
    BY <1>1, <2>1, EndedIsRight
  <2>2. CASE ~Ended
    <3>1. check' = [check EXCEPT !.at = "owned"] /\ check.at = "admit"
      BY <1>2, <2>2 DEF CheckAdmits
    <3>2. CheckRight'
      BY <3>1 DEF CheckRight, IInv
    <3> QED
      BY <1>1, <1>2, <2>2, <3>2, Frame
  <2> QED
    BY <2>1, <2>2
<1> QED
  BY <1>1, <1>3, Frame DEF CheckAdmits, IInv, host

LEMMA CheckPromptsStep ==
    ASSUME IInv, CheckPrompts
    PROVE  IInv'
<1>1. CASE Ended /\ UNCHANGED <<posted, says, misfiled>>
  <2>1. Grows /\ answered' = answered
    BY <1>1, SameTold DEF CheckPrompts
  <2>2. CheckRight' /\ ReadingRight'
    BY <1>1, <2>1, EndedIsRight
  <2> QED
    BY <1>1, <2>1, <2>2, Frame DEF CheckPrompts, IInv, ledger, host
<1>2. CASE /\ Submit(check.to, conts[check.to].of)
           /\ check' = [check EXCEPT !.at = "sent"] /\ reading' = reading
  <2>1. check.to \in Message /\ check.at = "owned"
    BY DEF CheckPrompts, IInv, CheckRight
  <2>2. Known \subseteq Known' /\ LedgerRight' /\ HostRight'
    BY <1>2, <2>1, SubmittedIsRight DEF CheckPrompts, ledger
  <2>3. CheckRight'
    BY <1>2, <2>1 DEF CheckRight, IInv
  <2>4. ReadingRight'
    BY <1>2, <2>2, ReadingGrows DEF CheckPrompts, ReadingRight, IInv
  <2>5. ConsumedRight'
    BY <2>2 DEF CheckPrompts, ConsumedRight, IInv
  <2> QED
    BY <2>2, <2>3, <2>4, <2>5, Frame DEF CheckPrompts, IInv
<1> QED
  BY <1>1, <1>2, EndIs DEF CheckPrompts

LEMMA CheckIsAnsweredStep ==
    ASSUME IInv, CheckIsAnswered
    PROVE  IInv'
<1>1. Grows /\ answered' = answered
  BY SameTold DEF CheckIsAnswered, host, history
<1>2. Ended
  BY DEF CheckIsAnswered, End, Ended
<1> QED
  BY <1>1, <1>2, EndedIsRight, Frame DEF CheckIsAnswered, IInv, ledger, host

LEMMA CheckErrsStep ==
    ASSUME IInv, CheckErrs
    PROVE  IInv'
<1>1. Grows /\ answered' = answered
  BY SameTold DEF CheckErrs, host, history
<1>2. Ended
  BY EndIs DEF CheckErrs
<1> QED
  BY <1>1, <1>2, EndedIsRight, Frame DEF CheckErrs, IInv, ledger, host

LEMMA CheckFailsStep ==
    ASSUME IInv, CheckFails
    PROVE  IInv'
<1>1. Grows /\ answered' = answered
  BY SameTold DEF CheckFails, host, history
<1>2. Ended
  BY EndIs DEF CheckFails
<1> QED
  BY <1>1, <1>2, EndedIsRight, Frame DEF CheckFails, IInv, host

LEMMA ChecksStep ==
    ASSUME IInv, Checks
    PROVE  IInv'
  BY TimerFiresStep, CheckBeginsStep, CheckReadsOwnerStep, CheckChoosesStep, CheckAddressesStep,
     CheckMarksStep, CheckCreatesStep, CheckAdmitsStep, CheckPromptsStep, CheckIsAnsweredStep,
     CheckErrsStep, CheckFailsStep
     DEF Checks

-----------------------------------------------------------------------------
(* The events of the host. *)

LEMMA ProcessEventStep ==
    ASSUME IInv, ProcessEvent
    PROVE  IInv'
<1>1. \/ watch' = watch
      \/ watch' = [watch EXCEPT !.at = "told"] /\ watch.at = "waiting"
  BY DEF ProcessEvent, ConfirmUser, ConfirmContinuation, SettleStatus, SettleError
<1>2. WatchRight' /\ watch'.done = watch.done
  BY <1>1 DEF WatchRight, IInv
<1>3. Grows
  BY <1>2, SameTold DEF ProcessEvent, host, history
<1>4. \/ wake' = wake /\ wakeTo' = wakeTo
      \/ \E m \in User : /\ wake' = wake \ given[m]
                         /\ wakeTo' = [r \in Receipt |-> IF r \in given[m] THEN None
                                                                          ELSE wakeTo[r]]
  BY DEF ProcessEvent, ConfirmUser, ConfirmContinuation, SettleStatus, SettleError, wakes, Claimed
<1>5. WakeRight'
  BY <1>4 DEF WakeRight, IInv
<1>6. CheckRight'
  BY AskIsRight, Frame DEF ProcessEvent, IInv
<1> QED
  BY <1>2, <1>3, <1>5, <1>6, Frame DEF ProcessEvent, IInv, ledger, host

-----------------------------------------------------------------------------
(* The theorem. *)

LEMMA InitIsRight ==
    ASSUME NEW old \in SUBSET Receipt, InitWith(old)
    PROVE  IInv
<1>1. Known = old
  BY DEF InitWith, FreshPlugin, Known, Read, NoWatch
<1>2. thread \in Seq(Message) /\ thread # <<>> /\ Range(thread) = {First} /\ First \in Message
  BY MessageFacts DEF InitWith, Range
<1>3. ASSUME NEW r \in Receipt PROVE rec[r] \in Entries(r)
  <2>1. (r \in Known) \in BOOLEAN /\ None \in Places(r)
    BY DEF Places
  <2>2. CASE r \in old
    BY <1>1, <2>1, <2>2, EntryIntro DEF InitWith, Entries
  <2>3. CASE r \notin old
    BY <2>1, <2>3, EntryIntro DEF InitWith, Entries, Unended
  <2> QED
    BY <2>2, <2>3
<1>4. LedgerRight
  BY <1>3 DEF LedgerRight, InitWith
<1>5. HostRight
  BY <1>2 DEF HostRight, InitWith
<1>6. NoticeRight /\ WakeRight /\ HookRight /\ CheckRight /\ ConsumedRight
  BY DEF InitWith, FreshPlugin, NoticeRight, WakeRight, HookRight, CheckRight, ConsumedRight,
         Quiet, NoHook, NoCheck
<1>7. ReadingRight /\ WatchRight
  BY FreshReading DEF InitWith, FreshPlugin, ReadingRight, WatchRight, NoWatch
<1> QED
  BY <1>4, <1>5, <1>6, <1>7 DEF IInv

LEMMA StutterStep ==
    ASSUME IInv, UNCHANGED vars
    PROVE  IInv'
<1>1. Grows
  BY SameTold DEF vars, host, history
<1> QED
  BY <1>1, Frame DEF IInv, vars, ledger, host, wakes, shared

LEMMA Step ==
    ASSUME IInv, [Next]_vars
    PROVE  IInv'
<1>1. ASSUME NEW r \in Receipt,
             TaskEnds(r) \/ DeliverNotice(r) \/ FailNotice(r) \/ RetryNotice(r)
      PROVE  IInv'
  BY <1>1, TaskEndsStep, DeliverNoticeStep, FailNoticeStep, RetryNoticeStep
<1>2. ASSUME HookBegins \/ HookMarks \/ HookReturns \/ HookFails
      PROVE  IInv'
  BY <1>2, HookBeginsStep, HookMarksStep, HookReturnsStep, HookFailsStep
<1>3. ASSUME NEW m \in Message, HostStores(m) \/ HostStoresParts(m)
      PROVE  IInv'
  BY <1>3, HostStoresStep, HostStoresPartsStep
<1>4. ASSUME HostStarts \/ HostAnswers \/ \E a \in BOOLEAN : HostErrs(a)
      PROVE  IInv'
  BY <1>4, HostStartsStep, HostAnswersStep, HostErrsStep
<1> QED
  BY <1>1, <1>2, <1>3, <1>4, ReadsStep, ChecksStep, ProcessEventStep, WatchesStep, RestartStep,
     StutterStep DEF Next

\* There are two ways to lose a receipt: what is taken for consumed was read in
\* an answered message or in the result of a watch call, is about to be returned
\* by one, belongs to one that failed half-way (WatchFails), or was filed under a
\* message that does not name it (#pendingReceipts acknowledges by the message a
\* receipt was delivered to, without reading the text).
THEOREM LossesAreTwo == Spec => []NoThirdLoss
<1>1. Init => IInv
  BY InitIsRight DEF Init
<1>2. IInv /\ [Next]_vars => IInv'
  BY Step
<1>3. IInv => NoThirdLoss
  <2>1. ASSUME IInv, NEW r \in Receipt, ref[r].acked \/ rec[r].acked
        PROVE  r \in Known
    <3>1. /\ (r \in Known) \in BOOLEAN
          /\ ref[r] \in EntriesOf(Places(r), r \in Known)
          /\ rec[r] \in EntriesOf(Places(r), r \in Known)
      BY <2>1 DEF IInv, LedgerRight, Entries
    <3> QED
      BY <2>1, <3>1, EntryFacts
  <2> QED
    BY <2>1 DEF NoThirdLoss, IInv, ConsumedRight, Known
<1> QED
  BY <1>1, <1>2, <1>3, PTL DEF Spec

-----------------------------------------------------------------------------
(* The second inductive invariant, for NotToldTwice: who may still be told *)
(* of a receipt, and by which message.                                     *)

\* What the texts of the messages other than m tell of, the message the hook
\* is about to return included.
Shown(m) == {r \in Receipt : \/ \E a \in AtHost \ {m} : r \in says[a]
                             \/ /\ hook.at = "marked" /\ hook.m # m
                                /\ r \in reading["hook"].got}

\* Receipt r is delivered to a message the host has got or is about to get
\* from the hook, for a turn that nobody has given up.
ByHook(r) == hook.at = "marked" /\ ref[r].to = hook.m /\ claim[hook.m] = "active"
Placed(r) == ref[r].to \in AtHost \/ ByHook(r)

\* Messages of the user that nothing refers to yet.
Unborn == {m \in User : m > asked + 1 \/ (hook.at = "reads" /\ m = hook.m)}

Aiming   == {"latest", "admit", "owned"}
Gathered == IF check.at = "latest" THEN check.of ELSE {}

EntryOk(x) == (x.acked => x.to # None) /\ (x.to # None => x.is)
EntryRight == \A r \in Receipt : EntryOk(ref[r]) /\ EntryOk(rec[r])

BornLedger == \A r \in Receipt : ref[r].to \notin Unborn /\ rec[r].to \notin Unborn
BornWake   == \A r \in Receipt : wakeTo[r] \notin Unborn /\ notice[r].to \notin Unborn
BornConts  == \A m \in Unborn : conts[m] = NoCont
BornCheck  == check.retry \notin Unborn /\ check.to \notin Unborn

\* The turns of the user: while a check goes on that found none, there is none.
TurnRight ==
    /\ asked \in Nat
    /\ claim = [m \in User |-> claim[m]] /\ epoch \in [User -> Nat]
    /\ \A m \in User : epoch[m] > 0 => m <= asked + 1
    /\ hook = [at |-> hook.at, m |-> hook.m]
    /\ hook.at # "none" => hook.m \in User /\ hook.m <= asked + 1
    /\ hook.at = "marked" => reading["hook"].at = "done"

EpochRight ==
    /\ check.at # "none" => check.epoch \in Nat /\ check.epoch <= UserEpoch
    /\ check.at \in Aiming /\ UserEpoch = check.epoch => ~HasUserTurn

\* Stored parts are reported of stored messages.
EventOk(e) == e.is = "parts" => e.of \in Range(thread)
EventRight == events \in Seq(Range(events)) /\ \A e \in Range(events) : EventOk(e)

ContOk(m, c) ==
    /\ c = [is |-> c.is, of |-> c.of, persisted |-> c.persisted, retry |-> c.retry]
    /\ c.of \subseteq Receipt
    /\ ~c.is => c.of = {} /\ ~c.persisted
    /\ c.persisted => m \in Range(thread)
    /\ c.of \cap returned \subseteq strayed
    /\ \A r \in c.of : ref[r].to # None

ContRight == conts = [m \in Message |-> conts[m]] /\ \A m \in Message : ContOk(m, conts[m])

CheckOf ==
    /\ check.of \subseteq Receipt
    /\ \A r \in Gathered : ref[r].to # None
    /\ check.at \in {"mark", "latest"} /\ check.to \notin AtHost /\ conts[check.to].is
          => check.of \subseteq conts[check.to].of

\* What a watch call has returned is acknowledged, and told by no check.
ReturnedRight == \A r \in returned \ strayed : r \in Receipt => ref[r].acked
GotRight == reading["check"].at = "done" =>
    reading["check"].got \cap returned \subseteq strayed \cup consumed

\* What is told of is acknowledged, or lies with a message that is on its way.
ShownRight == \A r \in Shown(None) \ strayed : ref[r].acked \/ Placed(r)

\* A hook that has read, and will deliver, delivers whatever a check offers.
OfferRight ==
    hook.at = "reads" /\ reading["hook"].at = "done" /\ claim[hook.m] = "active" =>
        /\ \A m \in Message : \A r \in conts[m].of : r \in reading["hook"].got \/ ref[r].acked
        /\ \A r \in Gathered : r \in reading["hook"].got \/ ref[r].acked

\* Receipts G that were delivered to m together: none has come to an
\* unknown place, and with one that went elsewhere all have left.
Together(m, G) ==
    \A r \in G : r \notin strayed =>
        /\ ref[r].to = m \/ Placed(r)
        /\ r \in Shown(m) \/ ref[r].to # m => \A q \in G : ref[q].acked \/ ref[q].to # m

BunchRight ==
    /\ \A m \in Message : m \notin AtHost => Together(m, conts[m].of)
    /\ check.to \notin AtHost => Together(check.to, Gathered)

\* A check that no turn of the user has disturbed tells of what is still to
\* be told.
AimOk(G) == \A r \in G : r \notin strayed => ref[r].to = check.to /\ r \notin Shown(check.to)
AimRight ==
    check.at \in Aiming /\ UserEpoch = check.epoch /\ check.to \notin AtHost =>
        AimOk(conts[check.to].of) /\ AimOk(Gathered)

BornRight == BornLedger /\ BornWake /\ BornConts /\ BornCheck
HeldRight == CheckOf /\ ReturnedRight /\ GotRight

\* An event that waits for the check is the first one.
DrainRight == "event" \in check.callers => events # <<>> /\ drains

JInv ==
    /\ EntryRight /\ BornRight /\ TurnRight /\ EpochRight /\ EventRight /\ ContRight
    /\ HeldRight /\ ShownRight /\ OfferRight /\ BunchRight /\ AimRight

-----------------------------------------------------------------------------
(* What a step must not do. *)

\* Deliveries and acknowledgements stay, and what is on its way arrives.
Tame ==
    /\ strayed \subseteq strayed' /\ AtHost \subseteq AtHost'
    /\ \A r \in Receipt : /\ ref[r].to # None => ref'[r].to = ref[r].to
                          /\ ref[r].acked => ref'[r].acked
                          /\ Placed(r) => Placed(r)' \/ r \in strayed'

\* Nothing is told of that was not.
Hushed == \A m \in Message \cup {None} : Shown(m)' \subseteq Shown(m) \cup strayed'

\* Continuations are left alone or dropped.
Drops == \A m \in Message : /\ conts'[m].of = {} \/ conts'[m].of = conts[m].of
                            /\ conts'[m].is => conts[m].is /\ conts'[m].of = conts[m].of

\* A check that has addressed a message is left alone, admitted or ends.
Rests == check'.at \in {"mark"} \cup Aiming =>
    /\ check'.at = check.at \/ (check.at = "admit" /\ check'.at = "owned")
    /\ check'.to = check.to /\ check'.of = check.of /\ check'.epoch = check.epoch

\* The references only gain.
Gains == \A r \in Receipt : /\ ref[r].to # None => ref'[r].to = ref[r].to
                            /\ ref[r].acked => ref'[r].acked

LEMMA HostHas ==
    ASSUME IInv
    PROVE  /\ AtHost \subseteq Message /\ None \notin AtHost /\ Range(thread) \subseteq AtHost
           /\ Range(thread) \subseteq Message
<1>1. Range(thread) \subseteq Message
  BY ThreadFacts DEF IInv
<1>2. posted \subseteq Message /\ written \subseteq Message
  BY DEF IInv, HostRight
<1> QED
  BY <1>1, <1>2, MessageFacts DEF AtHost

LEMMA HookMessage ==
    ASSUME JInv, hook.at # "none"
    PROVE  hook.m \in User /\ hook.m \in Message /\ hook.m # None
  BY MessageFacts DEF JInv, TurnRight

LEMMA ToIsMessage ==
    ASSUME IInv, check.at \in {"mark", "latest", "admit", "owned", "sent"}
    PROVE  check.to \in Message
  BY DEF IInv, CheckRight

LEMMA SameHost ==
    ASSUME IInv, JInv, Gains, strayed \subseteq strayed', AtHost' = AtHost,
           UNCHANGED <<hook, claim, says>>,
           hook.at = "marked" => reading'["hook"].got = reading["hook"].got
    PROVE  Tame /\ Hushed
<1>1. ASSUME NEW r \in Receipt, Placed(r) PROVE Placed(r)'
  <2>1. ref[r].to # None
    BY <1>1, HostHas, HookMessage DEF Placed, ByHook
  <2>2. ref'[r].to = ref[r].to
    BY <2>1 DEF Gains
  <2> QED
    BY <1>1, <2>2 DEF Placed, ByHook
<1>2. \A m : Shown(m)' \subseteq Shown(m)
  BY DEF Shown
<1> QED
  BY <1>1, <1>2 DEF Tame, Hushed, Gains

LEMMA ShownStays ==
    ASSUME JInv, Tame, Shown(None)' \subseteq Shown(None) \cup strayed'
    PROVE  ShownRight'
<1>1. ASSUME NEW r \in Shown(None)', r \notin strayed' PROVE ref'[r].acked \/ Placed(r)'
  <2>1. r \in Shown(None) \ strayed /\ r \in Receipt
    BY <1>1 DEF Tame, Shown
  <2>2. ref[r].acked \/ Placed(r)
    BY <2>1 DEF JInv, ShownRight
  <2> QED
    BY <1>1, <2>1, <2>2 DEF Tame
<1> QED
  BY <1>1 DEF ShownRight

LEMMA TogetherStays ==
    ASSUME Tame, NEW m, NEW G, NEW H, H \subseteq G, G \subseteq Receipt,
           \A r \in G : ref[r].to # None,
           Together(m, G),
           \A r \in H : r \in Shown(m)' => r \in Shown(m) \cup strayed'
    PROVE  \A r \in H : r \notin strayed' =>
             /\ ref'[r].to = m \/ Placed(r)'
             /\ r \in Shown(m)' \/ ref'[r].to # m => \A q \in H : ref'[q].acked \/ ref'[q].to # m
<1>1. TAKE r \in H
<1>2. HAVE r \notin strayed'
<1>3. r \in G /\ r \in Receipt /\ r \notin strayed /\ ref'[r].to = ref[r].to
  BY <1>2 DEF Tame
<1>4. ref'[r].to = m \/ Placed(r)'
  BY <1>2, <1>3 DEF Together, Tame
<1>5. ASSUME r \in Shown(m)' \/ ref'[r].to # m, NEW q \in H PROVE ref'[q].acked \/ ref'[q].to # m
  <2>1. r \in Shown(m) \/ ref[r].to # m
    BY <1>2, <1>3, <1>5
  <2>2. ref[q].acked \/ ref[q].to # m
    BY <1>3, <2>1 DEF Together
  <2>3. q \in Receipt /\ ref'[q].to = ref[q].to
    BY DEF Tame
  <2> QED
    BY <2>2, <2>3 DEF Tame
<1> QED
  BY <1>4, <1>5

LEMMA BunchContsStay ==
    ASSUME JInv, Tame, Hushed, Drops
    PROVE  \A m \in Message : m \notin AtHost' => Together(m, conts[m].of)'
<1>1. ASSUME NEW m \in Message, m \notin AtHost' PROVE Together(m, conts[m].of)'
  <2>1. m \notin AtHost /\ ContOk(m, conts[m]) /\ Together(m, conts[m].of)
    BY <1>1 DEF Tame, JInv, ContRight, BunchRight
  <2>2. conts'[m].of \subseteq conts[m].of /\ conts[m].of \subseteq Receipt
        /\ \A r \in conts[m].of : ref[r].to # None
    BY <2>1 DEF Drops, ContOk
  <2>3. \A r \in conts'[m].of : r \in Shown(m)' => r \in Shown(m) \cup strayed'
    BY DEF Hushed
  <2>4. \A r \in conts'[m].of : r \notin strayed' =>
             /\ ref'[r].to = m \/ Placed(r)'
             /\ r \in Shown(m)' \/ ref'[r].to # m =>
                   \A q \in conts'[m].of : ref'[q].acked \/ ref'[q].to # m
    BY <2>1, <2>2, <2>3, TogetherStays
  <2> QED
    BY <2>4 DEF Together
<1> QED
  BY <1>1

LEMMA BunchStays ==
    ASSUME IInv, JInv, Tame, Hushed, Drops, Rests
    PROVE  BunchRight'
<1>1. \A m \in Message : m \notin AtHost' => Together(m, conts[m].of)'
  BY BunchContsStay
<1>2. ASSUME check'.to \notin AtHost' PROVE Together(check.to, Gathered)'
  <2>1. CASE check'.at # "latest"
    BY <2>1 DEF Together, Gathered
  <2>2. CASE check'.at = "latest"
    <3>1. check.at = "latest" /\ check'.to = check.to /\ Gathered' = Gathered
      BY <2>2 DEF Rests, Aiming, Gathered
    <3>2. /\ Together(check.to, Gathered) /\ Gathered \subseteq Receipt /\ check.to \in Message
          /\ \A r \in Gathered : ref[r].to # None
      BY <1>2, <3>1, ToIsMessage DEF Tame, JInv, HeldRight, CheckOf, BunchRight, Gathered
    <3>3. \A r \in Gathered : r \in Shown(check.to)' => r \in Shown(check.to) \cup strayed'
      BY <3>1, <3>2 DEF Hushed
    <3>4. \A r \in Gathered : r \notin strayed' =>
             /\ ref'[r].to = check.to \/ Placed(r)'
             /\ r \in Shown(check.to)' \/ ref'[r].to # check.to =>
                   \A q \in Gathered : ref'[q].acked \/ ref'[q].to # check.to
      BY <3>1, <3>2, <3>3, TogetherStays
    <3> QED
      BY <3>1, <3>4 DEF Together
  <2> QED
    BY <2>1, <2>2
<1> QED
  BY <1>1, <1>2 DEF BunchRight

\* What the check has in hand is as it was, or nothing.
LEMMA GatheredStays ==
    ASSUME Rests
    PROVE  Gathered' = {} \/ (Gathered' = Gathered /\ check.at = "latest" /\ check'.to = check.to)
  BY DEF Rests, Gathered, Aiming

LEMMA AimStays ==
    ASSUME IInv, JInv, Tame, Hushed, Drops, Rests,
           check'.at \in Aiming /\ UserEpoch' = check'.epoch => UserEpoch = check.epoch
    PROVE  AimRight'
<1> SUFFICES ASSUME check'.at \in Aiming, UserEpoch' = check'.epoch, check'.to \notin AtHost'
             PROVE  AimOk(conts[check.to].of)' /\ AimOk(Gathered)'
  BY DEF AimRight
<1>1. check.at \in Aiming /\ check'.to = check.to /\ UserEpoch = check.epoch
  BY DEF Rests, Aiming
<1>2. check.to \in Message /\ check.to \notin AtHost
  BY <1>1, ToIsMessage DEF Aiming, Tame
<1>3. AimOk(conts[check.to].of) /\ AimOk(Gathered) /\ ContOk(check.to, conts[check.to])
  BY <1>1, <1>2 DEF JInv, AimRight, ContRight
<1>4. conts'[check.to].of \subseteq conts[check.to].of /\ Gathered' \subseteq Gathered
  BY <1>2, GatheredStays DEF Drops
<1>5. ASSUME NEW r \in conts[check.to].of \cup Gathered, r \notin strayed'
      PROVE  ref'[r].to = check.to /\ r \notin Shown(check.to)'
  <2>1. r \in Receipt /\ ref[r].to # None
    BY <1>3 DEF ContOk, JInv, HeldRight, CheckOf, Gathered
  <2>2. r \notin strayed /\ ref'[r].to = ref[r].to
    BY <1>5, <2>1 DEF Tame
  <2>3. ref[r].to = check.to /\ r \notin Shown(check.to)
    BY <1>3, <2>2 DEF AimOk
  <2>4. Shown(check.to)' \subseteq Shown(check.to) \cup strayed'
    BY <1>1, <1>2 DEF Hushed
  <2> QED
    BY <1>5, <2>2, <2>3, <2>4
<1> QED
  BY <1>1, <1>4, <1>5 DEF AimOk

LEMMA OfferStays ==
    ASSUME JInv, Gains, Drops, Rests, hook' = hook,
           reading'["hook"].at = "done" =>
               reading["hook"].at = "done" /\ reading'["hook"].got = reading["hook"].got,
           hook.at # "none" /\ claim'[hook.m] = "active" => claim[hook.m] = "active"
    PROVE  OfferRight'
<1> SUFFICES ASSUME hook.at = "reads", reading'["hook"].at = "done", claim'[hook.m] = "active"
             PROVE  /\ \A m \in Message : \A r \in conts'[m].of : r \in reading'["hook"].got \/ ref'[r].acked
                    /\ \A r \in Gathered' : r \in reading'["hook"].got \/ ref'[r].acked
  BY DEF OfferRight
<1>1. /\ \A m \in Message : \A r \in conts[m].of : r \in reading["hook"].got \/ ref[r].acked
      /\ \A r \in Gathered : r \in reading["hook"].got \/ ref[r].acked
  BY DEF JInv, OfferRight
<1>2. /\ \A m \in Message : conts[m].of \subseteq Receipt /\ conts'[m].of \subseteq conts[m].of
      /\ Gathered \subseteq Receipt /\ Gathered' \subseteq Gathered
  BY GatheredStays DEF Drops, JInv, ContRight, ContOk, HeldRight, CheckOf, Gathered
<1>3. \A r \in Receipt : ref[r].acked => ref'[r].acked
  BY DEF Gains
<1> QED
  BY <1>1, <1>2, <1>3

LEMMA CheckOfStays ==
    ASSUME IInv, JInv, Gains, Drops, Rests, AtHost \subseteq AtHost', check'.of \subseteq Receipt
    PROVE  CheckOf'
<1>1. \A r \in Gathered' : ref'[r].to # None
  BY GatheredStays DEF JInv, HeldRight, CheckOf, Gains, Gathered
<1>2. ASSUME check'.at \in {"mark", "latest"}, check'.to \notin AtHost', conts'[check'.to].is
      PROVE  check'.of \subseteq conts'[check'.to].of
  <2>1. check.at \in {"mark", "latest"} /\ check'.to = check.to /\ check'.of = check.of
    BY <1>2 DEF Rests, Aiming
  <2> check.to \in Message
    BY <2>1, ToIsMessage
  <2>2. conts[check.to].is /\ conts'[check.to].of = conts[check.to].of
    BY <1>2, <2>1 DEF Drops
  <2> QED
    BY <1>2, <2>1, <2>2 DEF JInv, HeldRight, CheckOf
<1> QED
  BY <1>1, <1>2 DEF CheckOf

LEMMA ContsStay ==
    ASSUME JInv, Gains, strayed \subseteq strayed', Range(thread) \subseteq Range(thread)',
           \A m \in Message : conts'[m].of \cap returned' \subseteq returned \cup strayed',
           conts' = [m \in Message |-> conts'[m]],
           \A m \in Message : \/ conts'[m] = NoCont
                              \/ \E b : conts'[m] = [conts[m] EXCEPT !.retry = b]
    PROVE  ContRight' /\ Drops
<1>1. ASSUME NEW m \in Message
      PROVE  /\ ContOk(m, conts[m])'
             /\ conts'[m].of = {} \/ conts'[m].of = conts[m].of
             /\ conts'[m].is => conts[m].is /\ conts'[m].of = conts[m].of
  <2>1. CASE conts'[m] = NoCont
    BY <2>1 DEF NoCont, ContOk
  <2>2. CASE \E b : conts'[m] = [conts[m] EXCEPT !.retry = b]
    <3>1. PICK b : conts'[m] = [conts[m] EXCEPT !.retry = b]
      BY <2>2
    <3>2. ContOk(m, conts[m])
      BY DEF JInv, ContRight
    <3>3. conts[m] = [is |-> conts[m].is, of |-> conts[m].of, persisted |-> conts[m].persisted,
                      retry |-> conts[m].retry]
      BY <3>2 DEF ContOk
    <3>4. conts'[m] = [is |-> conts[m].is, of |-> conts[m].of, persisted |-> conts[m].persisted,
                       retry |-> b]
      BY <3>1, <3>3
    <3>5. /\ conts'[m].is = conts[m].is /\ conts'[m].of = conts[m].of
          /\ conts'[m].persisted = conts[m].persisted /\ conts'[m].retry = b
      BY <3>4
    <3>6. \A r \in conts[m].of : ref'[r].to # None
      BY <3>2 DEF ContOk, Gains
    <3> QED
      BY <3>2, <3>4, <3>5, <3>6 DEF ContOk
  <2> QED
    BY <1>1, <2>1, <2>2
<1> QED
  BY <1>1 DEF ContRight, Drops

LEMMA ReturnedStays ==
    ASSUME JInv, Gains, strayed \subseteq strayed',
           \A r \in returned' \ returned : r \in strayed' \/ ref[r].acked
    PROVE  ReturnedRight'
  BY DEF JInv, HeldRight, ReturnedRight, Gains

LEMMA GotStays ==
    ASSUME JInv, strayed \subseteq strayed', consumed \subseteq consumed',
           returned' \subseteq returned \cup consumed',
           reading'["check"].at = "done" =>
               reading["check"].at = "done" /\ reading'["check"].got = reading["check"].got
    PROVE  GotRight'
  BY DEF JInv, HeldRight, GotRight

LEMMA EventsStay ==
    ASSUME JInv, Range(thread) \subseteq Range(thread)', UNCHANGED events
    PROVE  EventRight'
  BY DEF JInv, EventRight, EventOk

LEMMA UserEpochIsNat ==
    ASSUME NEW e
    PROVE  IsFiniteSet({m \in User : e[m] > 0}) /\ Cardinality({m \in User : e[m] > 0}) \in Nat
<1>1. IsFiniteSet(User)
  BY FS_Interval, TaskReceiptsAssumption DEF User
<1>2. IsFiniteSet({m \in User : e[m] > 0})
  BY <1>1, FS_Subset
<1> QED
  BY <1>2, FS_CardinalityType

\* Most steps: the hook, the turns of the user and the host's texts are left
\* alone, and a check that has addressed a message is left alone or ends.
Easy ==
    /\ strayed \subseteq strayed' /\ consumed \subseteq consumed'
    /\ \A m \in Message : conts'[m].of \cap returned' \subseteq returned \cup strayed'
    /\ \A r \in returned' \ returned : r \in consumed' /\ (r \in strayed' \/ ref[r].acked)
    /\ UNCHANGED <<hook, claim, epoch, asked, says>>
    /\ AtHost' = AtHost /\ Range(thread) \subseteq Range(thread)'
    /\ Gains
    /\ conts' = [m \in Message |-> conts'[m]]
    /\ \A m \in Message : \/ conts'[m] = NoCont
                          \/ \E b : conts'[m] = [conts[m] EXCEPT !.retry = b]
    /\ Rests /\ check'.of \subseteq Receipt
    /\ check'.at # "none" => \/ check.at # "none" /\ check'.epoch = check.epoch
                             \/ check'.epoch = UserEpoch
    /\ \A w \in Reader : reading'[w].at = "done" =>
            reading[w].at = "done" /\ reading'[w].got = reading[w].got
    /\ hook.at = "marked" => reading'["hook"] = reading["hook"]

LEMMA EasyStep ==
    ASSUME IInv, JInv, Easy, EntryRight', BornRight', EventRight'
    PROVE  JInv'
<1>1. Tame /\ Hushed
  BY SameHost DEF Easy
<1>2. ContRight' /\ Drops
  BY ContsStay DEF Easy
<1>3. UserEpoch' = UserEpoch /\ UserEpoch \in Nat
  BY UserEpochIsNat DEF UserEpoch, Easy
<1>4. TurnRight'
  BY DEF TurnRight, JInv, Easy
<1>5. EpochRight'
  <2>1. HasUserTurn' = HasUserTurn
    BY DEF HasUserTurn, Claimed, Easy
  <2>2. ASSUME check'.at # "none" PROVE check'.epoch \in Nat /\ check'.epoch <= UserEpoch'
    BY <1>3, <2>2 DEF Easy, JInv, EpochRight
  <2>3. ASSUME check'.at \in Aiming, UserEpoch' = check'.epoch PROVE ~HasUserTurn'
    BY <1>3, <2>1, <2>3 DEF Easy, JInv, EpochRight, Rests, Aiming
  <2> QED
    BY <2>2, <2>3 DEF EpochRight
<1>6. HeldRight'
  BY <1>2, CheckOfStays, ReturnedStays, GotStays DEF HeldRight, Easy, Reader
<1>7. ShownRight' /\ BunchRight'
  BY <1>1, <1>2, ShownStays, BunchStays DEF Hushed, Easy
<1>8. OfferRight'
  BY <1>2, OfferStays DEF Easy, Reader
<1>9. AimRight'
  BY <1>1, <1>2, <1>3, AimStays DEF Easy, Rests, Aiming
<1> QED
  BY <1>2, <1>4, <1>5, <1>6, <1>7, <1>8, <1>9 DEF JInv

-----------------------------------------------------------------------------
(* The ledger. *)

LEMMA MergedIsOk ==
    ASSUME NEW x, NEW y, EntryOk(x), EntryOk(y),
           x = [is |-> x.is, to |-> x.to, acked |-> x.acked]
    PROVE  /\ EntryOk(Merged(x, y))
           /\ Merged(x, y).to \in {x.to, y.to}
           /\ x.to # None => Merged(x, y).to = x.to
           /\ x.acked = TRUE => Merged(x, y).acked = TRUE
           /\ x.to # None /\ x.to = y.to /\ y.acked = TRUE => Merged(x, y).acked = TRUE
<1>1. CASE ~x.is \/ x.to = None
  BY <1>1 DEF Merged, EntryOk
<1>2. CASE x.is /\ x.to # None /\ x.to # y.to
  BY <1>2 DEF Merged, EntryOk
<1>3. CASE x.is /\ x.to # None /\ x.to = y.to
  <2>1. Merged(x, y) = [x EXCEPT !.acked = x.acked \/ y.acked]
    BY <1>3 DEF Merged
  <2>2. Merged(x, y) = [is |-> x.is, to |-> x.to, acked |-> x.acked \/ y.acked]
    BY <2>1
  <2> HIDE <2>1
  <2>3. Merged(x, y).is = x.is /\ Merged(x, y).to = x.to
        /\ Merged(x, y).acked = (x.acked \/ y.acked)
    BY <2>2
  <2> QED
    BY <1>3, <2>3 DEF EntryOk
<1> QED
  BY <1>1, <1>2, <1>3

LEMMA EntryShape ==
    ASSUME IInv, NEW r \in Receipt
    PROVE  /\ ref[r] = [is |-> ref[r].is, to |-> ref[r].to, acked |-> ref[r].acked]
           /\ rec[r] = [is |-> rec[r].is, to |-> rec[r].to, acked |-> rec[r].acked]
           /\ ref[r].acked \in BOOLEAN /\ rec[r].acked \in BOOLEAN
           /\ ref[r].is \in BOOLEAN /\ rec[r].is \in BOOLEAN
           /\ ref[r].to \in Message \cup {None, Call} /\ rec[r].to \in Message \cup {None, Call}
           /\ ~ref[r].acked => ref[r].to \in Message \cup {None}
           /\ ref = [x \in Receipt |-> ref[x]] /\ rec = [x \in Receipt |-> rec[x]]
<1>1. /\ (r \in Known) \in BOOLEAN
      /\ ref[r] \in EntriesOf(Places(r), r \in Known)
      /\ rec[r] \in EntriesOf(Places(r), r \in Known)
      /\ ref = [x \in Receipt |-> ref[x]] /\ rec = [x \in Receipt |-> rec[x]]
  BY DEF IInv, LedgerRight, Entries
<1>2. Places(r) \subseteq Message \cup {None}
  BY DEF Places
<1>3. /\ ref[r] = [is |-> ref[r].is, to |-> ref[r].to, acked |-> ref[r].acked]
      /\ ref[r].is \in BOOLEAN /\ ref[r].acked \in BOOLEAN
      /\ ref[r].acked => ref[r].to \in Places(r) \cup {Call}
      /\ ~ref[r].acked => ref[r].to \in Places(r)
  BY <1>1, EntryFacts
<1>4. /\ rec[r] = [is |-> rec[r].is, to |-> rec[r].to, acked |-> rec[r].acked]
      /\ rec[r].is \in BOOLEAN /\ rec[r].acked \in BOOLEAN
      /\ rec[r].acked => rec[r].to \in Places(r) \cup {Call}
      /\ ~rec[r].acked => rec[r].to \in Places(r)
  BY <1>1, EntryFacts
<1> QED
  BY <1>1, <1>2, <1>3, <1>4

\* The references are published from the records.
LEMMA PublishedIsOk ==
    ASSUME IInv, JInv, NEW R, ref' = Published(R), UNCHANGED <<rec, hook, asked>>
    PROVE  /\ EntryRight' /\ Gains /\ BornLedger'
           /\ \A r \in R \cap Receipt : ref[r].to # None /\ ref[r].to = rec[r].to /\ rec[r].acked
                                          /\ rec[r].is => ref'[r].acked
<1>1. ASSUME NEW r \in Receipt
      PROVE  /\ EntryOk(ref'[r]) /\ EntryOk(rec'[r])
             /\ ref[r].to # None => ref'[r].to = ref[r].to
             /\ ref[r].acked => ref'[r].acked
             /\ ref'[r].to \notin Unborn /\ rec'[r].to \notin Unborn
             /\ r \in R /\ ref[r].to # None /\ ref[r].to = rec[r].to /\ rec[r].acked /\ rec[r].is
                  => ref'[r].acked
  <2>1. ref'[r] = IF r \in R /\ rec[r].is THEN Merged(ref[r], rec[r]) ELSE ref[r]
    BY DEF Published
  <2>2. /\ EntryOk(ref[r]) /\ EntryOk(rec[r])
        /\ ref[r].to \notin Unborn /\ rec[r].to \notin Unborn
    BY DEF JInv, EntryRight, BornRight, BornLedger
  <2>3. ref[r].acked \in BOOLEAN /\ rec[r].acked \in BOOLEAN
        /\ ref[r] = [is |-> ref[r].is, to |-> ref[r].to, acked |-> ref[r].acked]
    BY EntryShape
  <2>4. /\ EntryOk(Merged(ref[r], rec[r]))
        /\ Merged(ref[r], rec[r]).to \in {ref[r].to, rec[r].to}
        /\ ref[r].to # None => Merged(ref[r], rec[r]).to = ref[r].to
        /\ ref[r].acked = TRUE => Merged(ref[r], rec[r]).acked = TRUE
        /\ ref[r].to # None /\ ref[r].to = rec[r].to /\ rec[r].acked = TRUE
             => Merged(ref[r], rec[r]).acked = TRUE
    BY <2>2, <2>3, MergedIsOk
  <2> QED
    BY <2>1, <2>2, <2>3, <2>4
<1>2. Unborn' = Unborn
  BY DEF Unborn
<1> QED
  BY <1>1, <1>2 DEF EntryRight, Gains, BornLedger

LEMMA LedgerStays ==
    ASSUME JInv, UNCHANGED <<ref, rec>>
    PROVE  EntryRight' /\ Gains
  BY DEF JInv, EntryRight, EntryOk, Gains

\* What refers to messages is as it was, or refers to less.
LEMMA BornStays ==
    ASSUME JInv, UNCHANGED <<hook, asked>>
    PROVE  /\ Unborn' = Unborn
           /\ UNCHANGED <<ref, rec>> => BornLedger'
           /\ (\A r \in Receipt : wakeTo'[r] \in {wakeTo[r], None, notice[r].to} /\
                                  notice'[r].to \in {notice[r].to, None, ref[r].to}) => BornWake'
           /\ UNCHANGED conts => BornConts'
           /\ check'.to \in {check.to, None} /\ check'.retry \in {check.retry, None} => BornCheck'
<1>1. Unborn' = Unborn
  BY DEF Unborn
<1>2. None \notin Unborn
  BY MessageFacts DEF Unborn
<1> QED
  BY <1>1, <1>2 DEF JInv, BornRight, BornLedger, BornWake, BornConts, BornCheck

LEMMA EventAdded ==
    ASSUME JInv, Range(thread) \subseteq Range(thread)', NEW e, EventOk(e)', events' = Append(events, e)
    PROVE  EventRight'
<1> DEFINE S == Range(events) \cup {e}
<1>1. events \in Seq(Range(events)) /\ \A x \in Range(events) : EventOk(x)'
  BY DEF JInv, EventRight, EventOk
<1>2. Range(events) \subseteq S
  OBVIOUS
<1>3. events \in Seq(S)
  BY <1>1, <1>2
<1>4. Range(events') = S /\ events' \in Seq(S)
  BY <1>3, RangeOfAppend
<1> QED
  BY <1>1, <1>4 DEF EventRight

LEMMA ContsSame ==
    ASSUME JInv, UNCHANGED conts
    PROVE  /\ conts' = [m \in Message |-> conts'[m]]
           /\ \A m \in Message : \E b : conts'[m] = [conts[m] EXCEPT !.retry = b]
<1>1. ASSUME NEW m \in Message PROVE conts'[m] = [conts[m] EXCEPT !.retry = conts[m].retry]
  <2>1. conts[m] = [is |-> conts[m].is, of |-> conts[m].of, persisted |-> conts[m].persisted,
                    retry |-> conts[m].retry]
    BY DEF JInv, ContRight, ContOk
  <2>2. [conts[m] EXCEPT !.retry = conts[m].retry] =
           [is |-> conts[m].is, of |-> conts[m].of, persisted |-> conts[m].persisted,
            retry |-> conts[m].retry]
    BY <2>1
  <2> QED
    BY <2>1, <2>2
<1> QED
  BY <1>1 DEF JInv, ContRight

LEMMA CheckSame ==
    ASSUME JInv, UNCHANGED check
    PROVE  /\ Rests /\ check'.of \subseteq Receipt
           /\ check'.at # "none" => check.at # "none" /\ check'.epoch = check.epoch
  BY DEF Rests, JInv, HeldRight, CheckOf

\* A step of the ledger, the host or a watch call.
LEMMA StillStep ==
    ASSUME IInv, JInv,
           UNCHANGED <<hook, claim, epoch, asked, says, conts, check, reading,
                       strayed, returned, consumed>>,
           AtHost' = AtHost, Range(thread) \subseteq Range(thread)',
           Gains, EntryRight', BornLedger', BornWake', EventRight'
    PROVE  JInv'
<1>1. BornRight'
  BY BornStays DEF BornRight
<1>2. Easy
  BY ContsSame, CheckSame DEF Easy
<1> QED
  BY <1>1, <1>2, EasyStep

LEMMA TaskEndsTells ==
    ASSUME IInv, JInv, NEW r \in Receipt, TaskEnds(r)
    PROVE  JInv'
<1>1. AtHost' = AtHost /\ Range(thread)' = Range(thread)
  BY DEF TaskEnds, host, AtHost
<1>2. Gains
  BY DEF TaskEnds, Gains
<1>3. ASSUME NEW x \in Receipt
      PROVE  EntryOk(rec'[x]) /\ rec'[x].to \in {rec[x].to, None}
  <2>1. rec' = [rec EXCEPT ![r] = Delivered(None)] /\ rec = [y \in Receipt |-> rec[y]]
    BY EntryShape DEF TaskEnds
  <2>2. rec'[x] = IF x = r THEN Delivered(None) ELSE rec[x]
    BY <2>1
  <2>3. EntryOk(rec[x])
    BY DEF JInv, EntryRight
  <2> QED
    BY <2>2, <2>3 DEF Delivered, EntryOk
<1>4. EntryRight'
  BY <1>3 DEF EntryRight, JInv, TaskEnds, EntryOk
<1>5. BornLedger'
  <2>1. Unborn' = Unborn
    BY BornStays DEF TaskEnds, bounds
  <2> QED
    BY <1>3, <2>1, MessageFacts DEF BornLedger, JInv, BornRight, Unborn, TaskEnds
<1>6. BornWake'
  <2>1. notice = [x \in Receipt |-> notice[x]]
    BY DEF IInv, NoticeRight
  <2>2. \A x \in Receipt : notice'[x].to \in {notice[x].to, None}
    BY <2>1 DEF TaskEnds
  <2> QED
    BY <2>2, BornStays DEF TaskEnds, wakes, bounds
<1>7. EventRight'
  BY EventsStay DEF TaskEnds, host, queue
<1> QED
  BY <1>1, <1>2, <1>4, <1>5, <1>6, <1>7, StillStep DEF TaskEnds, turns, host, shared, history, bounds

LEMMA DeliverNoticeTells ==
    ASSUME IInv, JInv, NEW r \in Receipt, DeliverNotice(r)
    PROVE  JInv'
<1>1. AtHost' = AtHost /\ Range(thread)' = Range(thread)
  BY DEF DeliverNotice, host, AtHost
<1>2. EntryRight' /\ Gains /\ BornLedger'
  BY PublishedIsOk DEF DeliverNotice, bounds
<1>3. BornWake'
  <2>1. notice = [x \in Receipt |-> notice[x]] /\ wakeTo = [x \in Receipt |-> wakeTo[x]]
    BY DEF IInv, NoticeRight, WakeRight
  <2>2. \A x \in Receipt : notice'[x].to \in {notice[x].to, None}
    BY <2>1 DEF DeliverNotice, Quiet
  <2>3. \A x \in Receipt : wakeTo'[x] \in {wakeTo[x], notice[x].to}
    BY <2>1 DEF DeliverNotice, Waken
  <2> QED
    BY <2>2, <2>3, BornStays DEF DeliverNotice, bounds
<1>4. EventRight'
  BY EventsStay DEF DeliverNotice, host, queue
<1> QED
  BY <1>1, <1>2, <1>3, <1>4, StillStep DEF DeliverNotice, turns, host, shared, history, bounds

LEMMA NoticeTells ==
    ASSUME IInv, JInv, NEW r \in Receipt, FailNotice(r) \/ RetryNotice(r)
    PROVE  JInv'
<1>1. AtHost' = AtHost /\ Range(thread)' = Range(thread)
  BY DEF FailNotice, RetryNotice, host, AtHost
<1>2. EntryRight' /\ Gains
  BY LedgerStays DEF FailNotice, RetryNotice, ledger
<1>3. BornWake' /\ BornLedger'
  <2>1. notice = [x \in Receipt |-> notice[x]] /\ notice[r] = [at |-> notice[r].at, to |-> notice[r].to]
    BY DEF IInv, NoticeRight
  <2>2. PICK a : notice' = [notice EXCEPT ![r].at = a]
    BY DEF FailNotice, RetryNotice
  <2>3. ASSUME NEW x \in Receipt PROVE notice'[x].to = notice[x].to
    <3>1. notice'[x] = IF x = r THEN [notice[r] EXCEPT !.at = a] ELSE notice[x]
      BY <2>1, <2>2
    <3>2. [notice[r] EXCEPT !.at = a] = [at |-> a, to |-> notice[r].to]
      BY <2>1
    <3> QED
      BY <3>1, <3>2
  <2> QED
    BY <2>3, BornStays DEF FailNotice, RetryNotice, bounds, wakes, ledger
<1>4. EventRight'
  BY EventsStay DEF FailNotice, RetryNotice, host, queue
<1> QED
  BY <1>1, <1>2, <1>3, <1>4, StillStep
     DEF FailNotice, RetryNotice, turns, host, shared, history, bounds

-----------------------------------------------------------------------------
(* pendingReceipts. *)

\* A reading that goes on does not touch what another has got.
LEMMA ReadingOn ==
    ASSUME IInv, JInv, NEW w \in Reader, NEW x, reading' = [reading EXCEPT ![w] = x],
           reading[w].at # "done"
    PROVE  /\ \A v \in Reader : v # w => reading'[v] = reading[v]
           /\ reading'[w] = x
           /\ hook.at = "marked" => w = "check" /\ reading'["hook"] = reading["hook"]
<1>1. reading = [v \in Reader |-> reading[v]]
  BY DEF IInv, ReadingRight
<1>2. hook.at = "marked" => reading["hook"].at = "done"
  BY DEF JInv, TurnRight
<1> QED
  BY <1>1, <1>2 DEF Reader

LEMMA GatherTells ==
    ASSUME IInv, JInv, NEW w \in Reader, Gather(w)
    PROVE  JInv'
<1>1. AtHost' = AtHost /\ Range(thread)' = Range(thread)
  BY DEF Gather, host, AtHost
<1>2. EntryRight' /\ Gains /\ BornLedger'
  BY PublishedIsOk DEF Gather, bounds
<1>3. BornRight'
  BY <1>2, BornStays DEF Gather, wakes, shared, bounds, BornRight
<1>4. EventRight'
  BY EventsStay DEF Gather, host, queue
<1>5. PICK x : reading' = [reading EXCEPT ![w] = x] /\ x.at = "settle" /\ reading[w].at # "done"
  BY DEF Gather, Settling
<1>6. /\ \A v \in Reader : v # w => reading'[v] = reading[v]
      /\ reading'[w].at = "settle"
      /\ hook.at = "marked" => reading'["hook"] = reading["hook"]
  BY <1>5, ReadingOn
<1>7. Easy
  BY <1>1, <1>2, <1>6, ContsSame, CheckSame DEF Easy, Gather, turns, host, shared, history, bounds
<1> QED
  BY <1>2, <1>3, <1>4, <1>7, EasyStep

LEMMA TakeAnsweredTells ==
    ASSUME IInv, JInv, NEW w \in Reader, TakeAnswered(w)
    PROVE  JInv'
<1>1. AtHost' = AtHost /\ Range(thread)' = Range(thread)
  BY DEF TakeAnswered, host, AtHost
<1>2. EntryRight' /\ Gains
  BY LedgerStays DEF TakeAnswered, ledger
<1>3. BornRight'
  BY BornStays DEF TakeAnswered, wakes, ledger, bounds, BornRight
<1>4. EventRight'
  BY EventsStay DEF TakeAnswered, host, queue
<1>5. reading[w].at = "settle" /\ reading' = [reading EXCEPT ![w] = [reading[w] EXCEPT !.at = "write"]]
  BY DEF TakeAnswered
<1>6. /\ \A v \in Reader : v # w => reading'[v] = reading[v]
      /\ reading'[w] = [reading[w] EXCEPT !.at = "write"]
      /\ hook.at = "marked" => reading'["hook"] = reading["hook"]
  BY <1>5, ReadingOn
<1>7. reading'[w].at = "write"
  BY <1>6 DEF IInv, ReadingRight, ReadingOk
<1>8. Easy
  BY <1>1, <1>2, <1>6, <1>7, ContsSame, CheckSame DEF Easy, TakeAnswered, turns, host, history, bounds
<1> QED
  BY <1>2, <1>3, <1>4, <1>8, EasyStep

LEMMA AckedEntry ==
    ASSUME NEW x, x = [is |-> x.is, to |-> x.to, acked |-> x.acked]
    PROVE  [x EXCEPT !.acked = TRUE] = [is |-> x.is, to |-> x.to, acked |-> TRUE]
<1>1. ASSUME NEW v PROVE [x EXCEPT !.acked = v] = [is |-> x.is, to |-> x.to, acked |-> v]
  OBVIOUS
<1> QED
  BY <1>1

LEMMA AcknowledgeAnsweredTells ==
    ASSUME IInv, JInv, NEW w \in Reader, AcknowledgeAnswered(w)
    PROVE  JInv'
<1>1. AtHost' = AtHost /\ Range(thread)' = Range(thread)
  BY DEF AcknowledgeAnswered, host, AtHost
<1>2. PICK p : p = Next1(w) /\ p[1] \in Receipt /\ p[2] \in answered
  <2>1. ReadingOk(reading[w], answered, Known) /\ reading[w].at = "write"
    BY DEF IInv, ReadingRight, AcknowledgeAnswered
  <2> QED
    BY <2>1, NextIsThere DEF ReadingOk
<1>3. PICK r \in Receipt : r = p[1]
  BY <1>2
<1>4. /\ ref[r].to = p[2] /\ ~ref[r].acked
      /\ ref' = [ref EXCEPT ![r].acked = TRUE]
      /\ rec' = IF rec[r].acked THEN rec ELSE [rec EXCEPT ![r] = [is |-> TRUE, to |-> p[2], acked |-> TRUE]]
      /\ reading[w].at = "write"
  BY <1>2, <1>3 DEF AcknowledgeAnswered
<1>5. ref[r].to # None
  BY <1>2, <1>4, ThreadFacts, MessageFacts DEF IInv
<1>6. ASSUME NEW x \in Receipt
      PROVE  /\ EntryOk(ref'[x]) /\ EntryOk(rec'[x])
             /\ ref'[x].to = ref[x].to
             /\ ref[x].acked => ref'[x].acked
             /\ rec'[x].to \in {rec[x].to, ref[x].to}
  <2>1. EntryOk(ref[x]) /\ EntryOk(rec[x])
    BY DEF JInv, EntryRight
  <2>2. ref = [y \in Receipt |-> ref[y]] /\ rec = [y \in Receipt |-> rec[y]]
    BY EntryShape
  <2>3. ref'[x] = IF x = r THEN [ref[r] EXCEPT !.acked = TRUE] ELSE ref[x]
    BY <1>4, <2>2
  <2>4. [ref[r] EXCEPT !.acked = TRUE] = [is |-> ref[r].is, to |-> ref[r].to, acked |-> TRUE]
    BY EntryShape, AckedEntry
  <2>5. \/ rec'[x] = rec[x]
        \/ x = r /\ rec'[x] = [is |-> TRUE, to |-> p[2], acked |-> TRUE]
    BY <1>4, <2>2
  <2>6. EntryOk(ref'[x]) /\ ref'[x].to = ref[x].to /\ (ref[x].acked => ref'[x].acked)
    BY <1>5, <2>1, <2>3, <2>4 DEF EntryOk
  <2>7. EntryOk(rec'[x]) /\ rec'[x].to \in {rec[x].to, ref[x].to}
    BY <1>4, <1>5, <2>1, <2>5 DEF EntryOk
  <2> QED
    BY <2>6, <2>7
<1>7. EntryRight' /\ Gains
  BY <1>6 DEF EntryRight, Gains
<1>8. Unborn' = Unborn
  BY BornStays DEF AcknowledgeAnswered, bounds
<1>9. BornRight'
  <2>1. BornLedger'
    BY <1>6, <1>8 DEF BornLedger, JInv, BornRight
  <2> QED
    BY <2>1, BornStays DEF AcknowledgeAnswered, wakes, shared, bounds, BornRight
<1>10. EventRight'
  BY EventsStay DEF AcknowledgeAnswered, host, queue
<1>11. PICK x : reading' = [reading EXCEPT ![w] = x] /\ x.at = "settle" /\ reading[w].at # "done"
  BY <1>4 DEF AcknowledgeAnswered, Settling
<1>12. /\ \A v \in Reader : v # w => reading'[v] = reading[v]
       /\ reading'[w].at = "settle"
       /\ hook.at = "marked" => reading'["hook"] = reading["hook"]
  BY <1>11, ReadingOn
<1>13. Easy
  BY <1>1, <1>7, <1>12, ContsSame, CheckSame
     DEF Easy, AcknowledgeAnswered, turns, host, shared, history, bounds
<1> QED
  BY <1>7, <1>9, <1>10, <1>13, EasyStep

LEMMA LeaveAnsweredTells ==
    ASSUME IInv, JInv, NEW w \in Reader, LeaveAnswered(w)
    PROVE  JInv'
<1>1. AtHost' = AtHost /\ Range(thread)' = Range(thread)
  BY DEF LeaveAnswered, host, AtHost
<1>2. EntryRight' /\ Gains
  BY LedgerStays DEF LeaveAnswered, ledger
<1>3. BornRight'
  BY BornStays DEF LeaveAnswered, ledger, BornRight
<1>4. EventRight'
  BY EventsStay DEF LeaveAnswered, host, queue
<1>5. PICK x : reading' = [reading EXCEPT ![w] = x] /\ x.at # "done" /\ reading[w].at # "done"
  <2>1. reading[w].at = "write"
    BY DEF LeaveAnswered
  <2>2. reading[w] = [at |-> reading[w].at, todo |-> reading[w].todo, done |-> reading[w].done,
                      got |-> reading[w].got]
    BY DEF IInv, ReadingRight, ReadingOk
  <2>3. [reading[w] EXCEPT !.at = "thrown"].at = "thrown"
    BY <2>2
  <2>4. \/ reading' = [reading EXCEPT ![w] = Settling(reading[w].todo \ {Next1(w)}, reading[w].done)]
        \/ reading' = [reading EXCEPT ![w] = [reading[w] EXCEPT !.at = "thrown"]]
    BY DEF LeaveAnswered
  <2> QED
    BY <2>1, <2>3, <2>4 DEF Settling
<1>6. /\ \A v \in Reader : v # w => reading'[v] = reading[v]
      /\ reading'[w].at # "done"
      /\ hook.at = "marked" => reading'["hook"] = reading["hook"]
  BY <1>5, ReadingOn
<1>7. Easy
  BY <1>1, <1>2, <1>6, ContsSame, CheckSame DEF Easy, LeaveAnswered, turns, host, history
<1> QED
  BY <1>2, <1>3, <1>4, <1>7, EasyStep

LEMMA ConsumeDrops ==
    ASSUME JInv, NEW R, Consume(R)
    PROVE  /\ conts' = [m \in Message |-> conts'[m]] /\ consumed \subseteq consumed'
           /\ \A m \in Message : \/ conts'[m] = NoCont
                                 \/ \E b : conts'[m] = [conts[m] EXCEPT !.retry = b]
           /\ \A m \in Message : conts'[m].of \cap R = {}
           /\ BornConts /\ UNCHANGED <<hook, asked>> => BornConts'
<1>1. /\ conts' = [m \in Message |-> IF conts[m].of \cap R # {} THEN NoCont ELSE conts[m]]
      /\ consumed' = consumed \cup R
  BY DEF Consume
<1>2. ASSUME NEW m \in Message
      PROVE  /\ conts'[m] = IF conts[m].of \cap R # {} THEN NoCont ELSE conts[m]
             /\ conts[m] = [conts[m] EXCEPT !.retry = conts[m].retry]
  <2>1. conts[m] = [is |-> conts[m].is, of |-> conts[m].of, persisted |-> conts[m].persisted,
                    retry |-> conts[m].retry]
    BY DEF JInv, ContRight, ContOk
  <2>2. [conts[m] EXCEPT !.retry = conts[m].retry] =
           [is |-> conts[m].is, of |-> conts[m].of, persisted |-> conts[m].persisted,
            retry |-> conts[m].retry]
    BY <2>1
  <2> QED
    BY <1>1, <2>1, <2>2
<1>3. conts' = [m \in Message |-> conts'[m]] /\ consumed \subseteq consumed'
  BY <1>1
<1>4. \A m \in Message : conts'[m].of \cap R = {}
  BY <1>1 DEF NoCont
<1>5. ASSUME BornConts, UNCHANGED <<hook, asked>> PROVE BornConts'
  <2>1. Unborn' = Unborn /\ Unborn \subseteq Message
    BY <1>5, MessageFacts DEF Unborn
  <2> QED
    BY <1>2, <1>5, <2>1 DEF BornConts
<1> QED
  BY <1>2, <1>3, <1>4, <1>5

\* What a reading tells of is pending: not acknowledged, and known.
LEMMA TellAnsweredTells ==
    ASSUME IInv, JInv, NEW w \in Reader, TellAnswered(w)
    PROVE  JInv'
<1>1. AtHost' = AtHost /\ Range(thread)' = Range(thread)
  BY DEF TellAnswered, host, AtHost
<1>2. EntryRight' /\ Gains
  BY LedgerStays DEF TellAnswered, ledger
<1>3. \/ UNCHANGED <<wakes, shared, follow>>
      \/ Consume(reading[w].done)
  BY DEF TellAnswered
<1>4. /\ conts' = [m \in Message |-> conts'[m]] /\ consumed \subseteq consumed'
      /\ \A m \in Message : \/ conts'[m] = NoCont
                            \/ \E b : conts'[m] = [conts[m] EXCEPT !.retry = b]
  BY <1>3, ContsSame, ConsumeDrops DEF shared
<1>5. BornRight'
  <2>1. BornConts'
    BY <1>3, ConsumeDrops, BornStays DEF shared, TellAnswered, bounds, JInv, BornRight
  <2>2. \A r \in Receipt : wakeTo'[r] \in {wakeTo[r], None, notice[r].to}
    BY <1>3 DEF wakes, Consume, ForgetWakeups
  <2> QED
    BY <2>1, <2>2, BornStays DEF TellAnswered, ledger, bounds, BornRight
<1>6. EventRight'
  BY EventsStay DEF TellAnswered, host, queue
<1>7. reading[w].at = "settle" /\ \E x : reading' = [reading EXCEPT ![w] = x] /\ x.got = Pending
  <2> DEFINE x == [at |-> "done", todo |-> {}, done |-> {}, got |-> Pending]
  <2>1. reading' = [reading EXCEPT ![w] = x] /\ x.got = Pending /\ reading[w].at = "settle"
    BY DEF TellAnswered
  <2> QED
    BY <2>1
<1>8. PICK x : reading' = [reading EXCEPT ![w] = x] /\ x.got = Pending
  BY <1>7
<1>9. /\ \A v \in Reader : v # w => reading'[v] = reading[v]
      /\ reading'[w].got = Pending
      /\ hook.at = "marked" => w = "check" /\ reading'["hook"] = reading["hook"]
  BY <1>7, <1>8, ReadingOn
<1>10. /\ strayed' = strayed /\ returned' = returned
       /\ UNCHANGED <<hook, check, claim, epoch, asked, says, thread>>
  BY DEF TellAnswered, history, turns, bounds, host
<1>11. Tame /\ Hushed
  BY <1>1, <1>2, <1>9, <1>10, SameHost
<1>12. ContRight' /\ Drops
  BY <1>1, <1>2, <1>4, <1>10, ContsStay
<1>13. Rests /\ check'.of \subseteq Receipt
  BY <1>10, CheckSame
<1>14. TurnRight' /\ EpochRight'
  <2>1. UserEpoch' = UserEpoch /\ HasUserTurn' = HasUserTurn
    BY <1>10 DEF UserEpoch, HasUserTurn, Claimed
  <2>2. hook.at = "marked" => reading'["hook"].at = "done"
    BY <1>9 DEF JInv, TurnRight
  <2>3. TurnRight'
    BY <1>10, <2>2 DEF TurnRight, JInv
  <2> QED
    BY <1>10, <2>1, <2>3 DEF EpochRight, JInv
<1>15. HeldRight'
  <2>1. CheckOf' /\ ReturnedRight'
    BY <1>1, <1>2, <1>10, <1>12, <1>13, CheckOfStays, ReturnedStays
  <2>2. CASE w = "hook"
    BY <1>4, <1>9, <1>10, <2>1, <2>2, GotStays DEF HeldRight, Reader
  <2>3. CASE w = "check"
    <3>1. \A r \in Pending : r \in Receipt /\ ~ref[r].acked
      BY DEF Pending
    <3>2. Pending \cap returned \subseteq strayed
      BY <3>1 DEF JInv, HeldRight, ReturnedRight
    <3> QED
      BY <1>9, <1>10, <2>1, <2>3, <3>2 DEF HeldRight, GotRight
  <2> QED
    BY <2>2, <2>3 DEF Reader
<1>16. ShownRight' /\ BunchRight'
  BY <1>11, <1>12, <1>13, ShownStays, BunchStays DEF Hushed
<1>17. OfferRight'
  <2>1. CASE w = "check"
    BY <1>2, <1>9, <1>10, <1>12, <1>13, <2>1, OfferStays DEF Reader
  <2>2. CASE w = "hook"
    <3>1. \A r \in Receipt : ref[r].to # None => r \in Pending \/ ref[r].acked
      BY DEF Pending, JInv, EntryRight, EntryOk
    <3>2. ASSUME NEW m \in Message, NEW r \in conts'[m].of PROVE r \in Pending \/ ref[r].acked
      BY <1>12, <3>1 DEF Drops, JInv, ContRight, ContOk
    <3>3. \A r \in Gathered : r \in Pending \/ ref[r].acked
      BY <3>1 DEF JInv, HeldRight, CheckOf, Gathered
    <3>4. Gathered' = Gathered /\ ref' = ref
      BY <1>10 DEF Gathered, TellAnswered, ledger
    <3> QED
      BY <1>9, <1>10, <2>2, <3>2, <3>3, <3>4 DEF OfferRight
  <2> QED
    BY <2>1, <2>2 DEF Reader
<1>18. AimRight'
  <2>1. check'.at \in Aiming /\ UserEpoch' = check'.epoch => UserEpoch = check.epoch
    BY <1>10 DEF UserEpoch
  <2> QED
    BY <1>11, <1>12, <1>13, <2>1, AimStays
<1> QED
  BY <1>2, <1>5, <1>6, <1>12, <1>14, <1>15, <1>16, <1>17, <1>18 DEF JInv

-----------------------------------------------------------------------------
(* The chat.message hook. *)

LEMMA HookStep ==
    ASSUME IInv, JInv, Tame, Hushed,
           UNCHANGED <<ref, rec, conts, check, returned, consumed, thread, events, wakeTo>>,
           hook'.at = "none" \/ reading'["hook"].at # "done",
           reading'["check"] = reading["check"],
           Unborn' \subseteq Unborn,
           \A r \in Receipt : notice'[r].to \in {notice[r].to, ref[r].to},
           \/ UserEpoch' = UserEpoch + 1
           \/ UserEpoch' = UserEpoch /\ (HasUserTurn' => HasUserTurn),
           TurnRight'
    PROVE  JInv'
<1>1. EntryRight' /\ Gains
  BY LedgerStays
<1>2. BornRight'
  BY DEF JInv, BornRight, BornLedger, BornWake, BornConts, BornCheck
<1>3. UserEpoch \in Nat /\ UserEpoch' \in Nat
  BY UserEpochIsNat DEF UserEpoch
<1>4. EpochRight'
  <2>1. /\ check.at # "none" => check.epoch \in Nat /\ check.epoch <= UserEpoch
        /\ check.at \in Aiming /\ UserEpoch = check.epoch => ~HasUserTurn
    BY DEF JInv, EpochRight
  <2>2. check.at # "none" => check.epoch \in Nat /\ check.epoch <= UserEpoch'
    BY <1>3, <2>1
  <2>3. ASSUME check.at \in Aiming, UserEpoch' = check.epoch PROVE ~HasUserTurn'
    <3>1. check.at # "none"
      BY <2>3 DEF Aiming
    <3>2. UserEpoch' # UserEpoch + 1
      BY <1>3, <2>1, <2>3, <3>1
    <3> QED
      BY <2>1, <2>3, <3>2
  <2> QED
    BY <2>2, <2>3 DEF EpochRight
<1>5. EventRight'
  BY EventsStay
<1>6. ContRight' /\ Drops
  BY <1>1, ContsSame, ContsStay DEF Tame
<1>7. Rests /\ check'.of \subseteq Receipt
  BY CheckSame
<1>8. HeldRight'
  BY <1>1, <1>6, <1>7, CheckOfStays, ReturnedStays, GotStays DEF HeldRight, Tame
<1>9. ShownRight' /\ BunchRight'
  BY <1>6, <1>7, ShownStays, BunchStays DEF Hushed
<1>10. OfferRight'
  BY DEF OfferRight
<1>11. AimRight'
  <2>1. check'.at \in Aiming /\ UserEpoch' = check'.epoch => UserEpoch = check.epoch
    BY <1>3 DEF JInv, EpochRight, Aiming
  <2> QED
    BY <1>6, <1>7, <2>1, AimStays
<1> QED
  BY <1>1, <1>2, <1>4, <1>5, <1>6, <1>8, <1>9, <1>10, <1>11 DEF JInv

\* One more turn of the user.
LEMMA OneMoreTurn ==
    ASSUME NEW m \in User, epoch' = [epoch EXCEPT ![m] = UserEpoch + 1],
           epoch \in [User -> Nat], ~(epoch[m] > 0)
    PROVE  UserEpoch' = UserEpoch + 1 /\ epoch' \in [User -> Nat]
<1> DEFINE S == {x \in User : epoch[x] > 0}
<1>1. IsFiniteSet(S) /\ Cardinality(S) \in Nat
  BY UserEpochIsNat
<1>2. UserEpoch = Cardinality(S)
  BY DEF UserEpoch
<1>3. epoch' \in [User -> Nat]
  BY <1>1, <1>2
<1>4. {x \in User : epoch'[x] > 0} = S \cup {m}
  BY <1>1, <1>2
<1>5. m \notin S
  OBVIOUS
<1>6. Cardinality(S \cup {m}) = Cardinality(S) + 1
  BY <1>1, <1>5, FS_AddElement
<1> QED
  BY <1>2, <1>3, <1>4, <1>6 DEF UserEpoch

LEMMA HookBeginsTells ==
    ASSUME IInv, JInv, HookBegins
    PROVE  JInv'
<1>1. PICK m \in User : m = asked + 2
  BY DEF HookBegins
<1>2. /\ hook.at = "none" /\ asked' = asked + 1 /\ hook' = [at |-> "reads", m |-> m]
      /\ claim' = [claim EXCEPT ![m] = "active"] /\ epoch' = [epoch EXCEPT ![m] = UserEpoch + 1]
      /\ reading' = [reading EXCEPT !["hook"] = [NoReading EXCEPT !.at = "begin"]]
  BY <1>1 DEF HookBegins
<1>3. AtHost' = AtHost /\ ref' = ref /\ strayed' = strayed /\ says' = says
  BY DEF HookBegins, host, AtHost, ledger, history
<1>4. Tame /\ Hushed
  BY <1>2, <1>3 DEF Tame, Hushed, Placed, ByHook, Shown
<1>5. /\ asked \in Nat /\ epoch \in [User -> Nat] /\ claim = [x \in User |-> claim[x]]
      /\ \A x \in User : epoch[x] > 0 => x <= asked + 1
  BY DEF JInv, TurnRight
<1>6. m \in Nat /\ ~(epoch[m] > 0)
  BY <1>1, <1>5, MessageFacts
<1>7. UserEpoch' = UserEpoch + 1 /\ epoch' \in [User -> Nat]
  BY <1>2, <1>5, <1>6, OneMoreTurn
<1>8. reading'["hook"].at = "begin" /\ reading'["check"] = reading["check"]
  BY <1>2 DEF IInv, ReadingRight, Reader, NoReading
<1>9. TurnRight'
  <2>1. \A x \in User : epoch'[x] > 0 => x <= asked' + 1
    <3>1. ASSUME NEW x \in User, epoch'[x] > 0 PROVE x <= asked' + 1
      <4>1. CASE x = m
        BY <1>1, <1>2, <1>5, <4>1
      <4>2. CASE x # m
        <5>1. x <= asked + 1 /\ x \in Nat
          BY <1>2, <1>5, <3>1, <4>2, MessageFacts
        <5> QED
          BY <1>2, <1>5, <5>1
      <4> QED
        BY <4>1, <4>2
    <3> QED
      BY <3>1
  <2>2. claim' = [x \in User |-> claim'[x]]
    BY <1>2, <1>5
  <2>3. asked' \in Nat /\ hook'.m \in User /\ hook'.m <= asked' + 1 /\ hook'.at = "reads"
        /\ hook' = [at |-> hook'.at, m |-> hook'.m]
    BY <1>1, <1>2, <1>5
  <2> QED
    BY <1>7, <2>1, <2>2, <2>3 DEF TurnRight
<1>10. Unborn' = Unborn
  <2>1. \A x \in User : x \in Nat
    BY MessageFacts
  <2>2. \A x \in User : x > asked' + 1 \/ x = m <=> x > asked + 1
    BY <1>1, <1>2, <1>5, <2>1
  <2>3. Unborn' = {x \in User : x > asked' + 1 \/ x = m}
    BY <1>2 DEF Unborn
  <2>4. Unborn = {x \in User : x > asked + 1}
    BY <1>2 DEF Unborn
  <2> QED
    BY <2>2, <2>3, <2>4
<1>11. \A r \in Receipt : notice'[r].to \in {notice[r].to, ref[r].to}
  BY DEF HookBegins, Renotified
<1> QED
  BY <1>4, <1>7, <1>8, <1>9, <1>10, <1>11, HookStep
     DEF HookBegins, ledger, shared, history, wakes, queue, host

LEMMA HookReturnsTells ==
    ASSUME IInv, JInv, HookReturns
    PROVE  JInv'
<1>1. hook.at = "marked" /\ hook' = NoHook /\ reading' = [reading EXCEPT !["hook"] = NoReading]
      /\ Submit(hook.m, reading["hook"].got)
  BY DEF HookReturns
<1>2. hook.m \in Message /\ hook.m # None
  BY <1>1, HookMessage
<1>3. AtHost' = AtHost \cup {hook.m}
  BY <1>1 DEF Submit, AtHost, HookReturns
<1>4. /\ hook.m \in AtHost => says' = says
      /\ hook.m \notin AtHost => says' = [says EXCEPT ![hook.m] = reading["hook"].got]
  BY <1>1 DEF Submit
<1>5. ref' = ref /\ strayed' = strayed
  BY DEF HookReturns, ledger
<1>6. Tame
  BY <1>3, <1>5 DEF Tame, Placed, ByHook
<1>7. Hushed
  <2>1. ASSUME NEW m \in Message \cup {None}, NEW r \in Shown(m)' PROVE r \in Shown(m)
    <3>1. r \in Receipt /\ \E a \in AtHost' \ {m} : r \in says'[a]
      BY <1>1 DEF Shown, NoHook
    <3>2. PICK a \in AtHost' \ {m} : r \in says'[a]
      BY <3>1
    <3>3. CASE a \in AtHost /\ says'[a] = says[a]
      BY <3>1, <3>2, <3>3 DEF Shown
    <3>4. CASE a = hook.m /\ hook.m \notin AtHost
      <4>1. says'[a] = reading["hook"].got
        BY <1>2, <1>4, <3>4 DEF IInv, HostRight
      <4> QED
        BY <1>1, <3>1, <3>2, <3>4, <4>1 DEF Shown
    <3>5. \/ a \in AtHost /\ says'[a] = says[a]
          \/ a = hook.m /\ hook.m \notin AtHost
      <4>1. a \in AtHost \/ (a = hook.m /\ hook.m \notin AtHost)
        BY <1>3, <3>2
      <4>2. ASSUME a \in AtHost PROVE says'[a] = says[a]
        <5>1. a \in Message
          BY <4>2, HostHas
        <5>2. says = [m1 \in Message |-> says[m1]]
          BY DEF IInv, HostRight
        <5>3. hook.m \notin AtHost => a # hook.m
          BY <4>2
        <5> QED
          BY <1>4, <5>1, <5>2, <5>3
      <4> QED
        BY <4>1, <4>2
    <3> QED
      BY <3>3, <3>4, <3>5
  <2> QED
    BY <2>1 DEF Hushed
<1>8. TurnRight'
  BY <1>1 DEF HookReturns, turns, bounds, JInv, TurnRight, NoHook
<1>9. Unborn' \subseteq Unborn
  BY <1>1 DEF Unborn, NoHook, HookReturns, bounds
<1>10. reading'["check"] = reading["check"]
  BY <1>1 DEF IInv, ReadingRight, Reader
<1>11. UserEpoch' = UserEpoch /\ HasUserTurn' = HasUserTurn
  BY DEF HookReturns, turns, UserEpoch, HasUserTurn, Claimed
<1>12. \A r \in Receipt : notice'[r].to \in {notice[r].to, ref[r].to}
  BY DEF HookReturns
<1> QED
  BY <1>1, <1>6, <1>7, <1>8, <1>9, <1>10, <1>11, <1>12, HookStep
     DEF HookReturns, ledger, shared, wakes, queue, NoHook

LEMMA HookFailsTells ==
    ASSUME IInv, JInv, HookFails
    PROVE  JInv'
<1>1. /\ hook' = NoHook /\ reading' = [reading EXCEPT !["hook"] = NoReading]
      /\ claim' = [claim EXCEPT ![hook.m] = "gone"]
      /\ strayed' = strayed \cup {r \in Receipt : ref[r].to = hook.m}
  BY DEF HookFails
<1>2. AtHost' = AtHost /\ ref' = ref /\ says' = says
  BY DEF HookFails, host, ledger, AtHost
<1>3. Tame /\ Hushed
  BY <1>1, <1>2 DEF Tame, Hushed, Shown, Placed, ByHook, NoHook
<1>4. TurnRight'
  BY <1>1 DEF HookFails, bounds, JInv, TurnRight, NoHook
<1>5. Unborn' \subseteq Unborn
  BY <1>1 DEF Unborn, NoHook, HookFails
<1>6. reading'["check"] = reading["check"]
  BY <1>1 DEF IInv, ReadingRight, Reader
<1>7. UserEpoch' = UserEpoch /\ (HasUserTurn' => HasUserTurn)
  BY <1>1 DEF HookFails, UserEpoch, HasUserTurn, Claimed, JInv, TurnRight
<1>8. \A r \in Receipt : notice'[r].to \in {notice[r].to, ref[r].to}
  BY DEF HookFails
<1> QED
  BY <1>1, <1>3, <1>4, <1>5, <1>6, <1>7, <1>8, HookStep
     DEF HookFails, ledger, shared, wakes, queue, host, NoHook

\* Where a delivery to m puts the receipts R.
LEMMA MarkedLedger ==
    ASSUME IInv, JInv, NEW R, NEW m \in Message, NEW keep \in BOOLEAN,
           MarkDelivered(Deliveries(R, m, keep))
    PROVE  /\ EntryRight'
           /\ \A r \in Receipt : r \notin R \/ ref[r].acked => ref'[r] = ref[r]
           /\ \A r \in Receipt \cap R : ~ref[r].acked =>
                 ref'[r] = Delivered(IF keep /\ ref[r].to # None THEN ref[r].to ELSE m)
           /\ \A r \in Receipt : rec'[r].to \in {rec[r].to, ref[r].to, m}
<1>1. m # None
  BY MessageFacts
<1>2. ASSUME NEW r \in Receipt
      PROVE  /\ r \notin R \/ ref[r].acked => ref'[r] = ref[r] /\ rec'[r] = rec[r]
             /\ r \in R /\ ~ref[r].acked =>
                  ref'[r] = Delivered(IF keep /\ ref[r].to # None THEN ref[r].to ELSE m)
             /\ r \in R /\ ~ref[r].acked => rec'[r] \in {rec[r], ref'[r]}
  <2> DEFINE D == Deliveries(R, m, keep)
             T == IF keep /\ ref[r].to # None THEN ref[r].to ELSE m
  <2>1. /\ ref'[r] = IF r \in DOMAIN D /\ D[r] # None THEN Delivered(D[r]) ELSE ref[r]
        /\ rec'[r] = IF r \in DOMAIN D /\ D[r] # None /\ ~rec[r].acked THEN Delivered(D[r]) ELSE rec[r]
    BY DEF MarkDelivered
  <2>2. /\ DOMAIN D = R
        /\ r \in R => D[r] = IF ref[r].acked THEN None ELSE T
    BY DEF Deliveries
  <2>3. T # None
    BY <1>1
  <2> HIDE DEF D, T
  <2>4. CASE r \notin R \/ ref[r].acked
    BY <2>1, <2>2, <2>4
  <2>5. CASE r \in R /\ ~ref[r].acked
    BY <2>1, <2>2, <2>3, <2>5 DEF T
  <2> QED
    BY <2>4, <2>5
<1>3. \A t : t # None => EntryOk(Delivered(t)) /\ Delivered(t).to = t
  BY DEF EntryOk, Delivered
<1>4. ASSUME NEW r \in Receipt
      PROVE  EntryOk(ref[r])' /\ EntryOk(rec[r])' /\ rec'[r].to \in {rec[r].to, ref[r].to, m}
  <2>1. EntryOk(ref[r]) /\ EntryOk(rec[r])
    BY DEF JInv, EntryRight
  <2>2. CASE r \notin R \/ ref[r].acked
    BY <1>2, <2>1, <2>2 DEF EntryOk
  <2>3. CASE r \in R /\ ~ref[r].acked
    <3>1. PICK t : t # None /\ ref'[r] = Delivered(t) /\ rec'[r] \in {rec[r], Delivered(t)}
                   /\ t \in {ref[r].to, m}
      BY <1>1, <1>2, <2>3
    <3> QED
      BY <1>3, <2>1, <3>1 DEF EntryOk
  <2> QED
    BY <2>2, <2>3
<1> QED
  BY <1>2, <1>4 DEF EntryRight

LEMMA HookMarksTells ==
    ASSUME IInv, JInv, HookMarks
    PROVE  JInv'
<1> DEFINE m == hook.m
           G == reading["hook"].got
<1>1. m \in User /\ m \in Message /\ m # None /\ m \in Nat /\ asked \in Nat /\ m <= asked + 1
  BY HookMessage, MessageFacts DEF HookMarks, JInv, TurnRight
<1>2. /\ hook.at = "reads" /\ reading["hook"].at = "done"
      /\ hook'.at = "marked" /\ hook'.m = m /\ hook' = [at |-> hook'.at, m |-> hook'.m]
  BY DEF HookMarks, JInv, TurnRight
<1>3. MarkDelivered(Deliveries(G, m, FALSE))
  BY DEF HookMarks
<1>4. /\ EntryRight'
      /\ \A r \in Receipt : r \notin G \/ ref[r].acked => ref'[r] = ref[r]
      /\ \A r \in Receipt \cap G : ~ref[r].acked => ref'[r] = Delivered(m)
      /\ \A r \in Receipt : rec'[r].to \in {rec[r].to, ref[r].to, m}
  <2> HIDE DEF m, G
  <2>1. /\ EntryRight'
        /\ \A r \in Receipt : r \notin G \/ ref[r].acked => ref'[r] = ref[r]
        /\ \A r \in Receipt \cap G : ~ref[r].acked =>
              ref'[r] = Delivered(IF FALSE /\ ref[r].to # None THEN ref[r].to ELSE m)
        /\ \A r \in Receipt : rec'[r].to \in {rec[r].to, ref[r].to, m}
    BY <1>1, <1>3, MarkedLedger
  <2> QED
    BY <2>1
<1>5. \A r \in Receipt \cap G : ~ref[r].acked => ref'[r].to = m /\ ref'[r].to # None
  BY <1>1, <1>4 DEF Delivered
<1>6. strayed \subseteq strayed' /\ (claim[m] = "active" => strayed' = strayed)
      /\ (claim[m] # "active" => G \subseteq strayed')
  BY DEF HookMarks, Deliveries
<1>7. /\ AtHost' = AtHost /\ says' = says /\ thread' = thread
      /\ UNCHANGED <<claim, epoch, reading, conts, check, returned, consumed, events, asked, notice, wakeTo>>
  BY DEF HookMarks, host, AtHost, shared, queue, bounds, wakes
<1> HIDE DEF m, G
<1>8. Unborn' \subseteq Unborn /\ m \in Unborn /\ m \notin Unborn'
  BY <1>1, <1>2, <1>7 DEF Unborn, m
<1>9. BornRight'
  <2>1. \A r \in Receipt : ref[r].to \notin Unborn /\ rec[r].to \notin Unborn
    BY DEF JInv, BornRight, BornLedger
  <2>2. \A r \in Receipt : ref'[r].to \in {ref[r].to, m}
    BY <1>4, <1>5
  <2>3. BornLedger'
    BY <1>4, <1>8, <2>1, <2>2 DEF BornLedger
  <2>4. BornWake' /\ BornConts' /\ BornCheck'
    BY <1>7, <1>8 DEF JInv, BornRight, BornWake, BornConts, BornCheck
  <2> QED
    BY <2>3, <2>4 DEF BornRight
<1>10. TurnRight'
  BY <1>1, <1>2, <1>7 DEF JInv, TurnRight
<1>11. UserEpoch' = UserEpoch /\ HasUserTurn' = HasUserTurn
  BY <1>7 DEF UserEpoch, HasUserTurn, Claimed
<1>12. EpochRight' /\ EventRight'
  BY <1>7, <1>11, EventsStay DEF JInv, EpochRight
<1>13. ContRight'
  <2>1. ASSUME NEW x \in Message PROVE ContOk(x, conts[x])'
    <3>1. ContOk(x, conts[x])
      BY DEF JInv, ContRight
    <3>2. \A r \in conts[x].of : ref'[r].to # None
      BY <1>4, <1>5, <3>1 DEF ContOk
    <3> QED
      BY <1>6, <1>7, <3>1, <3>2 DEF ContOk
  <2> QED
    BY <1>7, <2>1 DEF JInv, ContRight
<1>14. HeldRight'
  <2>1. \A r \in Gathered' : ref'[r].to # None
    BY <1>4, <1>5, <1>7 DEF JInv, HeldRight, CheckOf, Gathered
  <2>2. CheckOf'
    BY <1>7, <2>1 DEF JInv, HeldRight, CheckOf
  <2>3. ReturnedRight'
    <3>1. ASSUME NEW r \in returned, r \notin strayed', r \in Receipt PROVE ref'[r].acked
      <4>1. ref[r].acked
        BY <1>6, <3>1 DEF JInv, HeldRight, ReturnedRight
      <4> QED
        BY <1>4, <3>1, <4>1
    <3> QED
      BY <1>7, <3>1 DEF ReturnedRight
  <2>4. GotRight'
    BY <1>6, <1>7, GotStays
  <2> QED
    BY <2>2, <2>3, <2>4 DEF HeldRight
<1>15. \A x : Shown(x)' \subseteq Shown(x) \cup G
  BY <1>2, <1>7 DEF Shown, G
<1>16. \A r \in Receipt : Placed(r) <=> ref[r].to \in AtHost
  BY <1>2 DEF Placed, ByHook
<1>17. \A r \in Receipt : Placed(r)' <=>
          ref'[r].to \in AtHost \/ (ref'[r].to = m /\ claim[m] = "active")
  BY <1>2, <1>7 DEF Placed, ByHook
<1>18. ShownRight'
  <2>1. ASSUME NEW r \in Shown(None)', r \notin strayed' PROVE ref'[r].acked \/ Placed(r)'
    <3>1. r \in Receipt /\ r \notin strayed
      BY <1>6, <2>1 DEF Shown
    <3>2. CASE r \in G /\ ~ref[r].acked
      BY <1>5, <1>6, <1>17, <2>1, <3>1, <3>2
    <3>3. CASE ref[r].acked
      BY <1>4, <3>1, <3>3
    <3>4. CASE r \notin G
      <4>1. ref[r].acked \/ Placed(r)
        BY <1>15, <2>1, <3>1, <3>4 DEF JInv, ShownRight
      <4> QED
        BY <1>4, <1>16, <1>17, <3>1, <3>4, <4>1
    <3> QED
      BY <3>2, <3>3, <3>4
  <2> QED
    BY <2>1 DEF ShownRight
<1>19. OfferRight'
  BY <1>2 DEF OfferRight
<1>20. \* what was delivered together to another message is claimed together
       ASSUME NEW x, x # m, NEW S, S \subseteq Receipt, Together(x, S), \A r \in S : ref[r].to # None,
              claim[m] = "active" => \A r \in S : r \in G \/ ref[r].acked
       PROVE  \A r \in S : r \notin strayed' =>
                /\ ref'[r].to = x \/ Placed(r)'
                /\ r \in Shown(x)' \/ ref'[r].to # x => \A q \in S : ref'[q].acked \/ ref'[q].to # x
  <2>1. ASSUME NEW r \in S, r \notin strayed' PROVE ref'[r].to = x \/ Placed(r)'
    <3>1. r \in Receipt /\ r \notin strayed
      BY <1>6, <1>20, <2>1
    <3>2. ref[r].to = x \/ Placed(r)
      BY <1>20, <3>1 DEF Together
    <3>3. CASE r \in G /\ ~ref[r].acked
      BY <1>5, <1>6, <1>17, <2>1, <3>1, <3>3
    <3>4. CASE ~(r \in G /\ ~ref[r].acked)
      BY <1>4, <1>16, <1>17, <3>1, <3>2, <3>4
    <3> QED
      BY <3>3, <3>4
  <2>2. ASSUME NEW r \in S, r \notin strayed', r \in Shown(x)' \/ ref'[r].to # x, NEW q \in S
        PROVE  ref'[q].acked \/ ref'[q].to # x
    <3>1. r \in Receipt /\ q \in Receipt /\ r \notin strayed
      BY <1>6, <1>20, <2>2
    <3>2. CASE q \in G /\ ~ref[q].acked
      BY <1>5, <1>20, <3>1, <3>2
    <3>3. CASE ref[q].acked
      BY <1>4, <3>1, <3>3
    <3>4. CASE q \notin G /\ ~ref[q].acked
      <4>1. claim[m] # "active" /\ r \notin G
        BY <1>6, <1>20, <2>2, <3>4
      <4>2. ref'[r] = ref[r] /\ ref'[q] = ref[q]
        BY <1>4, <3>1, <3>4, <4>1
      <4>3. r \in Shown(x) \/ ref[r].to # x
        BY <1>15, <2>2, <4>1, <4>2
      <4> QED
        BY <1>20, <3>1, <4>2, <4>3 DEF Together
    <3> QED
      BY <3>2, <3>3, <3>4
  <2> QED
    BY <2>1, <2>2
<1>21. claim[m] = "active" =>
         /\ \A x \in Message : \A r \in conts[x].of : r \in G \/ ref[r].acked
         /\ \A r \in Gathered : r \in G \/ ref[r].acked
  BY <1>2 DEF JInv, OfferRight, m, G
<1>22. BunchRight'
  <2>1. ASSUME NEW x \in Message, x \notin AtHost PROVE Together(x, conts[x].of)'
    <3>1. CASE x = m
      <4>1. conts[x].of = {}
        BY <1>8, <3>1 DEF JInv, BornRight, BornConts, NoCont
      <4> QED
        BY <1>7, <4>1 DEF Together
    <3>2. CASE x # m
      <4>1. /\ conts[x].of \subseteq Receipt /\ Together(x, conts[x].of)
            /\ \A r \in conts[x].of : ref[r].to # None
        BY <2>1 DEF JInv, ContRight, ContOk, BunchRight
      <4>2. \A r \in conts[x].of : r \notin strayed' =>
                /\ ref'[r].to = x \/ Placed(r)'
                /\ r \in Shown(x)' \/ ref'[r].to # x =>
                      \A q \in conts[x].of : ref'[q].acked \/ ref'[q].to # x
        BY <1>20, <1>21, <3>2, <4>1
      <4> QED
        BY <1>7, <4>2 DEF Together
    <3> QED
      BY <3>1, <3>2
  <2>2. ASSUME check.to \notin AtHost PROVE Together(check.to, Gathered)'
    <3>1. check.to # m
      BY <1>8 DEF JInv, BornRight, BornCheck
    <3>2. Gathered \subseteq Receipt /\ Together(check.to, Gathered) /\ \A r \in Gathered : ref[r].to # None
      BY <2>2 DEF JInv, HeldRight, CheckOf, BunchRight, Gathered
    <3>3. \A r \in Gathered : r \notin strayed' =>
             /\ ref'[r].to = check.to \/ Placed(r)'
             /\ r \in Shown(check.to)' \/ ref'[r].to # check.to =>
                   \A q \in Gathered : ref'[q].acked \/ ref'[q].to # check.to
      BY <1>7, <1>20, <1>21, <3>1, <3>2
    <3>4. Gathered' = Gathered /\ check' = check
      BY <1>7 DEF Gathered
    <3> QED
      BY <3>3, <3>4 DEF Together
  <2> QED
    BY <1>7, <2>1, <2>2 DEF BunchRight
<1>23. AimRight'
  <2> SUFFICES ASSUME check.at \in Aiming, UserEpoch = check.epoch, check.to \notin AtHost
               PROVE  AimOk(conts[check.to].of)' /\ AimOk(Gathered)'
    BY <1>7, <1>11 DEF AimRight
  <2>1. claim[m] # "active"
    <3>1. ~HasUserTurn
      BY DEF JInv, EpochRight
    <3> QED
      BY <1>1, <3>1 DEF HasUserTurn, Claimed
  <2>2. AimOk(conts[check.to].of) /\ AimOk(Gathered)
    BY DEF JInv, AimRight
  <2>3. conts[check.to].of \subseteq Receipt /\ Gathered \subseteq Receipt
    BY ToIsMessage DEF JInv, ContRight, ContOk, HeldRight, CheckOf, Gathered, Aiming
  <2>4. ASSUME NEW r \in conts[check.to].of \cup Gathered, r \notin strayed'
        PROVE  ref'[r].to = check.to /\ r \notin Shown(check.to)'
    <3>1. r \in Receipt /\ r \notin G /\ r \notin strayed
      BY <1>6, <2>1, <2>3, <2>4
    <3>2. ref[r].to = check.to /\ r \notin Shown(check.to)
      BY <2>2, <3>1 DEF AimOk
    <3> QED
      BY <1>4, <1>7, <1>15, <3>1, <3>2
  <2>5. Gathered' = Gathered
    BY <1>7 DEF Gathered
  <2> QED
    BY <1>7, <2>4, <2>5 DEF AimOk
<1> QED
  BY <1>4, <1>9, <1>10, <1>12, <1>13, <1>14, <1>18, <1>19, <1>22, <1>23 DEF JInv

-----------------------------------------------------------------------------
(* The host. *)

LEMMA TwoAppended ==
    ASSUME NEW S, NEW s \in Seq(S), NEW d \in S, NEW e \in S
    PROVE  s \o <<d, e>> = Append(Append(s, d), e)
<1> DEFINE u == <<d, e>>
           t == Append(Append(s, d), e)
<1>1. u \in Seq(S) /\ Len(u) = 2 /\ u[1] = d /\ u[2] = e
  OBVIOUS
<1> HIDE DEF u
<1>2. PICK n \in Nat : n = Len(s)
  OBVIOUS
<1>3. /\ s \o u \in Seq(S) /\ Len(s \o u) = n + 2
      /\ \A i \in 1..(n + 2) : (s \o u)[i] = IF i <= n THEN s[i] ELSE u[i - n]
  <2>1. /\ s \o u \in Seq(S) /\ Len(s \o u) = Len(s) + Len(u)
        /\ \A i \in 1..(Len(s) + Len(u)) :
              (s \o u)[i] = IF i <= Len(s) THEN s[i] ELSE u[i - Len(s)]
    BY <1>1, ConcatProperties
  <2> QED
    BY <1>1, <1>2, <2>1
<1>4. /\ Append(s, d) \in Seq(S) /\ Len(Append(s, d)) = n + 1
      /\ \A i \in 1..n : Append(s, d)[i] = s[i]
      /\ Append(s, d)[n + 1] = d
  BY <1>2, AppendProperties
<1>5. /\ t \in Seq(S) /\ Len(t) = n + 2
      /\ \A i \in 1..(n + 1) : t[i] = Append(s, d)[i]
      /\ t[n + 2] = e
  BY <1>2, <1>4, AppendProperties
<1> HIDE DEF t
<1>6. \A i \in 1..(n + 2) : (s \o u)[i] = t[i]
  <2>1. TAKE i \in 1..(n + 2)
  <2>2. CASE i \in 1..n
    BY <1>2, <1>3, <1>4, <1>5, <2>2
  <2>3. CASE i = n + 1
    BY <1>1, <1>2, <1>3, <1>4, <1>5, <2>3
  <2>4. CASE i = n + 2
    BY <1>1, <1>2, <1>3, <1>5, <2>4
  <2>5. i \in 1..n \/ i = n + 1 \/ i = n + 2
    BY <1>2, <2>1
  <2> QED
    BY <2>2, <2>3, <2>4, <2>5
<1>7. s \o u = t
  BY <1>3, <1>5, <1>6, SeqEqual
<1> QED
  BY <1>7 DEF u, t

LEMMA EventsAdded ==
    ASSUME JInv, Range(thread) \subseteq Range(thread)', NEW d, NEW e, EventOk(d)', EventOk(e)',
           events' = events \o <<d, e>>
    PROVE  EventRight'
<1> DEFINE S == Range(events) \cup {d, e}
<1>1. events \in Seq(Range(events)) /\ \A x \in Range(events) : EventOk(x)'
  BY DEF JInv, EventRight, EventOk
<1>2. events \in Seq(S) /\ d \in S /\ e \in S
  BY <1>1
<1> HIDE DEF S
<1>3. events' = Append(Append(events, d), e)
  BY <1>2, TwoAppended
<1>4. /\ Append(events, d) \in Seq(S) /\ Range(Append(events, d)) = Range(events) \cup {d}
  BY <1>2, RangeOfAppend
<1>5. events' \in Seq(S) /\ Range(events') = Range(events) \cup {d} \cup {e}
  <2> DEFINE f == Append(events, d)
  <2>1. f \in Seq(S) /\ e \in S /\ events' = Append(f, e) /\ Range(f) = Range(events) \cup {d}
    BY <1>2, <1>3, <1>4
  <2> HIDE DEF f
  <2>2. Append(f, e) \in Seq(S) /\ Range(Append(f, e)) = Range(f) \cup {e}
    BY <2>1, RangeOfAppend
  <2> QED
    BY <2>1, <2>2
<1> QED
  BY <1>1, <1>5 DEF EventRight, S

LEMMA StampedIsOk ==
    ASSUME NEW kind \in {"busy", "idle", "error", "aborted"}
    PROVE  Stamped(kind).is # "parts"
  BY DEF Stamped

\* What the host does is reported, and tells of nothing.
LEMMA HostStep ==
    ASSUME IInv, JInv,
           UNCHANGED <<ledger, says, conts, consumed, wakeTo, notice, turns, reading, hook, check,
                       history, asked>>,
           AtHost' = AtHost, Range(thread) \subseteq Range(thread)', EventRight'
    PROVE  JInv'
<1>1. EntryRight' /\ Gains
  BY LedgerStays DEF ledger
<1>2. BornLedger' /\ BornWake'
  BY BornStays DEF ledger
<1> QED
  BY <1>1, <1>2, StillStep DEF turns, history

LEMMA HostStoresTells ==
    ASSUME IInv, JInv, NEW m \in Message, HostStores(m)
    PROVE  JInv'
<1>1. AtHost' = AtHost /\ thread' = thread
  BY DEF HostStores, AtHost
<1>2. EventRight'
  <2>1. CASE events' = events
    BY <1>1, <2>1, EventsStay
  <2>2. CASE events' = Append(events, [is |-> "message", of |-> m])
    <3>1. PICK e : e = [is |-> "message", of |-> m]
      OBVIOUS
    <3>2. EventOk(e)' /\ events' = Append(events, e)
      BY <2>2, <3>1 DEF EventOk
    <3> QED
      BY <1>1, <3>2, EventAdded
  <2> QED
    BY <2>1, <2>2 DEF HostStores
<1> QED
  BY <1>1, <1>2, HostStep DEF HostStores, wakes, shared, bounds

LEMMA HostStoresPartsTells ==
    ASSUME IInv, JInv, NEW m \in Message, HostStoresParts(m)
    PROVE  JInv'
<1>1. Range(thread)' = Range(thread) \cup {m}
  BY RangeOfAppend DEF HostStoresParts, IInv, HostRight
<1>2. AtHost' = AtHost
  BY <1>1 DEF HostStoresParts, AtHost
<1>3. EventRight'
  <2>1. PICK e : e = [is |-> "parts", of |-> m]
    OBVIOUS
  <2>2. EventOk(e)' /\ events' = Append(events, e)
    BY <1>1, <2>1 DEF EventOk, HostStoresParts
  <2> QED
    BY <1>1, <2>2, EventAdded
<1> QED
  BY <1>1, <1>2, <1>3, HostStep DEF HostStoresParts, wakes, shared, bounds

LEMMA HostStartsTells ==
    ASSUME IInv, JInv, HostStarts
    PROVE  JInv'
<1>1. AtHost' = AtHost /\ thread' = thread
  BY DEF HostStarts, AtHost
<1>2. EventRight'
  <2>1. PICK e : e = Stamped("busy") /\ e.is # "parts"
    BY StampedIsOk
  <2>2. EventOk(e)' /\ (events' = events \/ events' = Append(events, e))
    BY <2>1 DEF EventOk, HostStarts
  <2> QED
    BY <1>1, <2>2, EventAdded, EventsStay
<1> QED
  BY <1>1, <1>2, HostStep DEF HostStarts, wakes, shared, bounds

LEMMA HostAnswersTells ==
    ASSUME IInv, JInv, HostAnswers
    PROVE  JInv'
<1>1. AtHost' = AtHost /\ thread' = thread
  BY DEF HostAnswers, AtHost
<1>2. EventRight'
  <2>1. PICK e : e = Stamped("idle") /\ e.is # "parts"
    BY StampedIsOk
  <2>2. EventOk(e)' /\ (events' = events \/ events' = events \o <<e, e>>)
    BY <2>1 DEF EventOk, HostAnswers, Idle
  <2> QED
    BY <1>1, <2>2, EventsAdded, EventsStay
<1> QED
  BY <1>1, <1>2, HostStep DEF HostAnswers, wakes, shared, bounds

LEMMA HostErrsTells ==
    ASSUME IInv, JInv, NEW a \in BOOLEAN, HostErrs(a)
    PROVE  JInv'
<1>1. AtHost' = AtHost /\ thread' = thread
  BY DEF HostErrs, AtHost
<1>2. EventRight'
  <2>1. PICK d : d = Stamped(IF a THEN "aborted" ELSE "error") /\ d.is # "parts"
    BY StampedIsOk
  <2>2. PICK e : e = Stamped("idle") /\ e.is # "parts"
    BY StampedIsOk
  <2> DEFINE S == Range(events) \cup {d}
             mid == Append(events, d)
  <2>3. events' = mid \o <<e, e>>
    BY <2>1, <2>2 DEF HostErrs, Idle
  <2>4. events \in Seq(Range(events)) /\ \A x \in Range(events) : EventOk(x)'
    BY <1>1 DEF JInv, EventRight, EventOk
  <2>5. events \in Seq(S)
    BY <2>4
  <2>6. mid \in Seq(S) /\ Range(mid) = Range(events) \cup {d}
    BY <2>5, RangeOfAppend
  <2> HIDE DEF mid, S
  <2>7. mid \in Seq(S \cup {e}) /\ e \in S \cup {e}
    BY <2>6
  <2>8. events' = Append(Append(mid, e), e)
    BY <2>3, <2>7, TwoAppended
  <2>9. Append(mid, e) \in Seq(S \cup {e}) /\ Range(Append(mid, e)) = Range(mid) \cup {e}
    BY <2>7, RangeOfAppend
  <2>10. events' \in Seq(S \cup {e}) /\ Range(events') = Range(mid) \cup {e}
    <3> DEFINE f == Append(mid, e)  T == S \cup {e}
    <3>1. f \in Seq(T) /\ e \in T /\ events' = Append(f, e) /\ Range(f) = Range(mid) \cup {e}
      BY <2>7, <2>8, <2>9
    <3> HIDE DEF f, T
    <3>2. Append(f, e) \in Seq(T) /\ Range(Append(f, e)) = Range(f) \cup {e}
      BY <3>1, RangeOfAppend
    <3>3. events' \in Seq(T) /\ Range(events') = Range(mid) \cup {e}
      BY <3>1, <3>2
    <3> QED
      BY <3>3 DEF T
  <2>11. EventOk(d)' /\ EventOk(e)'
    BY <2>1, <2>2 DEF EventOk
  <2>12. Range(events') = S \cup {e}
    BY <2>6, <2>10 DEF S
  <2> QED
    BY <2>4, <2>10, <2>11, <2>12 DEF EventRight, S
<1> QED
  BY <1>1, <1>2, HostStep DEF HostErrs, wakes, shared, bounds

-----------------------------------------------------------------------------
(* A watch call. *)

LEMMA ReleasedTo ==
    ASSUME IInv, NEW R, NEW r \in Receipt
    PROVE  Released(R)[r].to = notice[r].to
<1>1. Released(R)[r] = IF r \in R /\ notice[r].at = "deferred"
                       THEN [notice[r] EXCEPT !.at = "due"] ELSE notice[r]
  BY DEF Released
<1>2. notice[r] = [at |-> notice[r].at, to |-> notice[r].to]
  BY DEF IInv, NoticeRight
<1>3. [notice[r] EXCEPT !.at = "due"].to = notice[r].to
  BY <1>2
<1> QED
  BY <1>1, <1>3

\* A step of the call that changes at most the ledger.
LEMMA WatchStep ==
    ASSUME IInv, JInv,
           UNCHANGED <<host, events, conts, consumed, wakeTo, turns, reading, hook, check, history, asked>>,
           notice' = notice \/ \E R : notice' = Released(R),
           EntryRight', Gains, BornLedger'
    PROVE  JInv'
<1>1. AtHost' = AtHost /\ thread' = thread /\ says' = says
  BY DEF host, AtHost
<1>2. BornWake'
  <2>1. \A r \in Receipt : notice'[r].to = notice[r].to
    BY ReleasedTo
  <2> QED
    BY <2>1, BornStays
<1>3. EventRight'
  BY <1>1, EventsStay
<1> QED
  BY <1>1, <1>2, <1>3, StillStep DEF turns, history

LEMMA WatchBeginsTells ==
    ASSUME IInv, JInv, WatchBegins
    PROVE  JInv'
<1>1. EntryRight' /\ Gains /\ BornLedger'
  BY LedgerStays, BornStays DEF WatchBegins, ledger
<1> QED
  BY <1>1, WatchStep DEF WatchBegins, queue, shared, wakes

LEMMA WatchLeavesTells ==
    ASSUME IInv, JInv, WatchLeaves
    PROVE  JInv'
<1>1. EntryRight' /\ Gains /\ BornLedger'
  BY LedgerStays, BornStays DEF WatchLeaves, ledger, bounds
<1> QED
  BY <1>1, WatchStep DEF WatchLeaves, queue, shared, wakes, bounds

LEMMA WatchTakesTells ==
    ASSUME IInv, JInv, WatchTakes
    PROVE  JInv'
<1>1. EntryRight' /\ Gains /\ BornLedger'
  BY PublishedIsOk DEF WatchTakes, bounds
<1> QED
  BY <1>1, WatchStep DEF WatchTakes, queue, wakes, bounds

LEMMA WatchCopiesTells ==
    ASSUME IInv, JInv, WatchCopies
    PROVE  JInv'
<1>1. EntryRight' /\ Gains /\ BornLedger'
  BY PublishedIsOk DEF WatchCopies, bounds
<1> QED
  BY <1>1, WatchStep DEF WatchCopies, queue, wakes, shared, bounds

LEMMA WatchRecordsTells ==
    ASSUME IInv, JInv, WatchRecords
    PROVE  JInv'
<1> DEFINE r == Min(watch.todo)
           merged == Merged(ref[r], rec[r])
<1>1. PICK to : /\ to = IF merged.to = None THEN Call ELSE merged.to
                /\ rec' = [rec EXCEPT ![r] = [is |-> TRUE, to |-> to, acked |-> TRUE]]
  BY DEF WatchRecords
<1>2. watch.todo \in SUBSET Nat /\ watch.todo # {} /\ watch.todo \subseteq Receipt
  BY TaskReceiptsAssumption DEF WatchRecords, IInv, WatchRight
<1>3. r \in Receipt
  BY <1>2, MinIsThere
<1> HIDE DEF r
<1>4. merged.to \in {ref[r].to, rec[r].to}
  <2>1. EntryOk(ref[r]) /\ EntryOk(rec[r])
    BY <1>3 DEF JInv, EntryRight
  <2>2. ref[r] = [is |-> ref[r].is, to |-> ref[r].to, acked |-> ref[r].acked]
    BY <1>3, EntryShape
  <2> QED
    BY <2>1, <2>2, MergedIsOk
<1> HIDE DEF merged
<1>5. to # None /\ to \in {ref[r].to, rec[r].to, Call}
  BY <1>1, <1>4, MessageFacts
<1>6. Call \notin Unborn
  BY MessageFacts DEF Unborn
<1>7. ASSUME NEW x \in Receipt
      PROVE  EntryOk(rec'[x]) /\ rec'[x].to \in {rec[x].to, ref[x].to, Call}
  <2>1. EntryOk(rec[x]) /\ rec = [y \in Receipt |-> rec[y]]
    BY EntryShape DEF JInv, EntryRight
  <2>2. rec'[x] = IF x = r THEN [is |-> TRUE, to |-> to, acked |-> TRUE] ELSE rec[x]
    BY <1>1, <2>1
  <2> QED
    BY <1>5, <2>1, <2>2 DEF EntryOk
<1>8. EntryRight' /\ Gains
  BY <1>7 DEF EntryRight, EntryOk, JInv, Gains, WatchRecords
<1>9. BornLedger'
  <2>1. Unborn' = Unborn /\ ref' = ref
    BY BornStays DEF WatchRecords, bounds
  <2> QED
    BY <1>6, <1>7, <2>1 DEF BornLedger, JInv, BornRight
<1> QED
  BY <1>8, <1>9, WatchStep DEF WatchRecords, queue, wakes, shared, bounds

LEMMA WatchFailsTells ==
    ASSUME IInv, JInv, WatchFails
    PROVE  JInv'
<1>1. EntryRight' /\ Gains
  BY LedgerStays DEF WatchFails, ledger
<1>2. AtHost' = AtHost /\ thread' = thread /\ says' = says
  BY DEF WatchFails, host, AtHost
<1>3. BornLedger' /\ BornWake'
  <2>1. \A r \in Receipt : notice'[r].to = notice[r].to
    BY ReleasedTo DEF WatchFails
  <2> QED
    BY <2>1, BornStays DEF WatchFails, ledger
<1>4. EventRight'
  BY <1>2, EventsStay DEF WatchFails, queue
<1> QED
  BY <1>1, <1>2, <1>3, <1>4, StillStep DEF WatchFails, turns

LEMMA WatchReturnsTells ==
    ASSUME IInv, JInv, WatchReturns
    PROVE  JInv'
<1>1. EntryRight' /\ Gains
  BY LedgerStays DEF WatchReturns, ledger
<1>2. AtHost' = AtHost /\ thread' = thread /\ says' = says
  BY DEF WatchReturns, host, AtHost
<1>3. /\ Consume(watch.done)
      /\ returned' = returned \cup watch.done /\ watch.done \subseteq Receipt
      /\ strayed' = strayed \cup {r \in watch.done : ~ref[r].acked}
  BY DEF WatchReturns, IInv, WatchRight
<1>4. /\ conts' = [m \in Message |-> conts'[m]] /\ consumed \subseteq consumed'
      /\ \A m \in Message : \/ conts'[m] = NoCont
                            \/ \E b : conts'[m] = [conts[m] EXCEPT !.retry = b]
      /\ \A m \in Message : conts'[m].of \cap watch.done = {}
      /\ BornConts /\ UNCHANGED <<hook, asked>> => BornConts'
  BY <1>3, ConsumeDrops
<1>5. BornRight'
  <2>1. \A r \in Receipt : wakeTo'[r] \in {wakeTo[r], None}
    BY <1>3 DEF Consume, ForgetWakeups
  <2>2. \A r \in Receipt : notice'[r].to \in {notice[r].to, None}
    BY ReleasedTo DEF WatchReturns, Quiet
  <2> QED
    BY <1>4, <2>1, <2>2, BornStays DEF WatchReturns, ledger, bounds, JInv, BornRight
<1>6. EventRight'
  BY <1>2, EventsStay DEF WatchReturns, queue
<1>7. consumed' = consumed \cup watch.done
  BY <1>3 DEF Consume
<1>8. Easy
  BY <1>1, <1>2, <1>3, <1>4, <1>7, CheckSame DEF Easy, WatchReturns, turns, bounds
<1> QED
  BY <1>1, <1>5, <1>6, <1>8, EasyStep

-----------------------------------------------------------------------------
(* The check: the steps that address no message and tell of nothing. *)

LEMMA EventsTail ==
    ASSUME JInv, events # <<>>, Range(thread) \subseteq Range(thread)', events' = Tail(events)
    PROVE  EventRight'
<1> DEFINE S == Range(events)
<1>1. events \in Seq(S) /\ \A x \in S : EventOk(x)'
  BY DEF JInv, EventRight, EventOk
<1>2. Tail(events) \in Seq(S)
  BY <1>1
<1>3. Range(Tail(events)) \subseteq S
  BY <1>2, RangeIsTyped
<1>4. Tail(events) \in Seq(Range(Tail(events)))
  BY <1>2, SeqOfRange
<1> QED
  BY <1>1, <1>3, <1>4 DEF EventRight

LEMMA EndEvents ==
    ASSUME JInv, DrainRight, UNCHANGED thread, EndBlocked \/ \E result : End(result)
    PROVE  EventRight' /\ Ended
<1>1. Ended
  BY EndIs, EndBlockedIs
<1>2. events' = events \/ (events # <<>> /\ events' = Tail(events))
  BY DEF EndBlocked, End, queue, DrainRight
<1>3. Range(thread)' = Range(thread)
  OBVIOUS
<1> QED
  BY <1>1, <1>2, <1>3, EventsStay, EventsTail

\* A step of the check that goes on, or ends.
LEMMA CheckStep ==
    ASSUME IInv, JInv,
           UNCHANGED <<rec, ref, host, notice, consumed, turns, hook, history, asked>>,
           conts' = [m \in Message |-> conts'[m]],
           \A m \in Message : \/ conts'[m] = NoCont
                              \/ \E b : conts'[m] = [conts[m] EXCEPT !.retry = b],
           BornConts', \A r \in Receipt : wakeTo'[r] \in {wakeTo[r], None},
           EventRight',
           \/ Ended
           \/ /\ Rests /\ check'.of \subseteq Receipt
              /\ check'.at # "none" => \/ check.at # "none" /\ check'.epoch = check.epoch
                                       \/ check'.epoch = UserEpoch
              /\ BornCheck'
              /\ \/ reading' = reading
                 \/ reading' = [reading EXCEPT !["check"] = NoReading]
                 \/ reading' = [reading EXCEPT !["check"] = [NoReading EXCEPT !.at = "begin"]]
    PROVE  JInv'
<1>1. EntryRight' /\ Gains
  BY LedgerStays
<1>2. AtHost' = AtHost /\ thread' = thread /\ says' = says
  BY DEF host, AtHost
<1>3. None \notin Unborn
  BY MessageFacts DEF Unborn
<1>4. /\ Rests /\ check'.of \subseteq Receipt
      /\ check'.at # "none" => \/ check.at # "none" /\ check'.epoch = check.epoch
                               \/ check'.epoch = UserEpoch
      /\ BornCheck'
  <2>1. CASE Ended
    <3>1. check'.at = "none" /\ check'.of = {} /\ check'.to = None /\ check'.retry = None
      BY <2>1 DEF Ended, NoCheck
    <3>2. None \notin Unborn'
      BY <1>3 DEF Unborn
    <3> QED
      BY <3>1, <3>2 DEF Rests, Aiming, BornCheck
  <2> QED
    BY <2>1
<1>5. BornRight'
  BY <1>4, BornStays DEF BornRight
<1>6. /\ reading'["hook"] = reading["hook"]
      /\ reading'["check"].at = "done" => reading'["check"] = reading["check"]
  BY DEF IInv, ReadingRight, Reader, Ended, NoReading
<1>7. Easy
  BY <1>1, <1>2, <1>4, <1>6 DEF Easy, turns, history, Reader
<1> QED
  BY <1>1, <1>5, <1>7, EasyStep

LEMMA BornContsStay ==
    ASSUME JInv, UNCHANGED <<hook, asked>>, UNCHANGED conts
    PROVE  BornConts'
  BY BornStays

LEMMA AskTells ==
    ASSUME IInv, JInv, NEW caller, Ask(caller), UNCHANGED <<hook, asked>>
    PROVE  /\ Rests /\ check'.of \subseteq Receipt
           /\ check'.at # "none" => \/ check.at # "none" /\ check'.epoch = check.epoch
                                    \/ check'.epoch = UserEpoch
           /\ BornCheck'
<1>1. Unborn' = Unborn /\ None \notin Unborn
  BY MessageFacts DEF Unborn
<1>2. CASE check.at # "none"
  <2>1. /\ check'.at = check.at /\ check'.of = check.of /\ check'.to = check.to
        /\ check'.retry = check.retry /\ check'.epoch = check.epoch
    BY <1>2 DEF Ask, IInv, CheckRight
  <2> QED
    BY <1>1, <1>2, <2>1 DEF Rests, JInv, HeldRight, CheckOf, BornRight, BornCheck
<1>3. CASE check.at = "none"
  <2>1. /\ check'.at = "status" /\ check'.of = {} /\ check'.to = None
        /\ check'.retry = None /\ check'.epoch = UserEpoch
    BY <1>3 DEF Ask, NoCheck
  <2> QED
    BY <1>1, <2>1 DEF Rests, Aiming, BornCheck
<1> QED
  BY <1>2, <1>3

LEMMA TimerFiresTells ==
    ASSUME IInv, JInv, TimerFires
    PROVE  JInv'
<1>1. /\ conts' = conts /\ wakeTo' = wakeTo /\ reading' = reading
      /\ UNCHANGED <<rec, ref, host, notice, consumed, turns, hook, history, asked, events>>
  BY DEF TimerFires, shared, ledger, bounds, queue
<1>2. EventRight' /\ BornConts'
  BY <1>1, EventsStay, BornContsStay DEF host
<1>3. /\ Rests /\ check'.of \subseteq Receipt
      /\ check'.at # "none" => \/ check.at # "none" /\ check'.epoch = check.epoch
                               \/ check'.epoch = UserEpoch
      /\ BornCheck'
  <2>1. CASE check' = check
    BY <1>1, <2>1, CheckSame, BornStays
  <2>2. CASE Ask("timer")
    BY <1>1, <2>2, AskTells
  <2> QED
    BY <2>1, <2>2 DEF TimerFires
<1> QED
  BY <1>1, <1>2, <1>3, CheckStep, ContsSame

\* The fields of a check.
LEMMA CheckFields ==
    ASSUME IInv
    PROVE  \A a : [check EXCEPT !.at = a] = [at |-> a, epoch |-> check.epoch, anchor |-> check.anchor,
                     of |-> check.of, to |-> check.to, retry |-> check.retry, callers |-> check.callers]
<1>1. ASSUME NEW a
      PROVE  [check EXCEPT !.at = a] = [at |-> a, epoch |-> check.epoch, anchor |-> check.anchor,
                     of |-> check.of, to |-> check.to, retry |-> check.retry, callers |-> check.callers]
  BY DEF IInv, CheckRight
<1> QED
  BY <1>1

LEMMA CheckBeginsTells ==
    ASSUME IInv, JInv, DrainRight, CheckBegins
    PROVE  JInv'
<1>1. /\ conts' = conts /\ wakeTo' = wakeTo /\ check.at = "status"
      /\ UNCHANGED <<rec, ref, host, notice, consumed, turns, hook, history, asked, thread>>
  BY DEF CheckBegins, ledger, bounds, host
<1>2. BornConts'
  BY <1>1, BornContsStay
<1>3. CASE End("blocked")
  BY <1>1, <1>2, <1>3, EndEvents, CheckStep, ContsSame
<1>4. CASE check' = [check EXCEPT !.at = "owner"] /\ UNCHANGED <<timer, reading, queue>>
  <2>1. /\ check'.at = "owner" /\ check'.of = check.of /\ check'.to = check.to
        /\ check'.retry = check.retry /\ check'.epoch = check.epoch
    BY <1>4, CheckFields
  <2>2. Rests /\ check'.of \subseteq Receipt
    BY <2>1 DEF Rests, Aiming, JInv, HeldRight, CheckOf
  <2>3. BornCheck' /\ EventRight'
    BY <1>1, <1>4, <2>1, BornStays, EventsStay DEF queue
  <2> QED
    BY <1>1, <1>2, <1>4, <2>1, <2>2, <2>3, CheckStep, ContsSame
<1> QED
  BY <1>3, <1>4 DEF CheckBegins

LEMMA CheckReadsOwnerTells ==
    ASSUME IInv, JInv, DrainRight, CheckReadsOwner
    PROVE  JInv'
<1>1. /\ check.at = "owner"
      /\ UNCHANGED <<rec, ref, host, notice, consumed, turns, hook, history, asked, thread>>
  BY DEF CheckReadsOwner, ledger, bounds, host
<1>2. PICK b \in BOOLEAN :
        conts' = [m \in Message |-> IF b /\ conts[m].persisted /\ m \notin answered
                                     THEN [conts[m] EXCEPT !.retry = TRUE] ELSE conts[m]]
  BY DEF CheckReadsOwner
<1>3. ASSUME NEW m \in Message
      PROVE  /\ \E c : conts'[m] = [conts[m] EXCEPT !.retry = c]
             /\ conts'[m].of = conts[m].of
             /\ ~conts[m].persisted => conts'[m] = conts[m]
  <2>1. conts[m] = [is |-> conts[m].is, of |-> conts[m].of, persisted |-> conts[m].persisted,
                    retry |-> conts[m].retry]
    BY DEF JInv, ContRight, ContOk
  <2>2. conts[m] = [conts[m] EXCEPT !.retry = conts[m].retry]
    BY <2>1
  <2>3. conts'[m] = [conts[m] EXCEPT !.retry = TRUE] \/ conts'[m] = conts[m]
    BY <1>2
  <2>4. [conts[m] EXCEPT !.retry = TRUE].of = conts[m].of
    BY <2>1
  <2> QED
    BY <1>2, <2>2, <2>3, <2>4
<1>4. conts' = [m \in Message |-> conts'[m]]
  BY <1>2
<1>5. \A m \in Unborn : conts'[m] = NoCont
  BY <1>3, MessageFacts DEF JInv, BornRight, BornConts, NoCont, Unborn
<1>6. BornConts'
  BY <1>1, <1>5 DEF BornConts, Unborn
<1> DEFINE again == {m \in Message : conts'[m].retry}
           retry == IF again = {} THEN None ELSE Min(again)
<1>7. retry \in again \cup {None} /\ (retry \in again => retry \in Message)
  BY MinIsThere, MessageFacts
<1>8. retry \notin Unborn
  <2>1. ASSUME retry \in Unborn PROVE FALSE
    <3>1. retry # None
      BY <2>1, MessageFacts DEF Unborn
    <3>2. conts'[retry].retry
      BY <1>7, <3>1
    <3>3. conts'[retry].retry = FALSE
      BY <1>5, <2>1 DEF NoCont
    <3> QED
      BY <3>2, <3>3
  <2> QED
    BY <2>1
<1>9. \/ EndBlocked
      \/ /\ check' = [check EXCEPT !.at = "choose", !.anchor = Cardinality(answered), !.retry = retry,
                                   !.of = IF retry = None THEN {} ELSE conts'[retry].of]
         /\ reading' = [reading EXCEPT !["check"] = [NoReading EXCEPT !.at = "begin"]]
         /\ UNCHANGED <<wakes, follow, queue>>
  BY DEF CheckReadsOwner
<1>10. wakeTo' = wakeTo
  BY DEF CheckReadsOwner, wakes
<1> HIDE DEF again, retry
<1>11. CASE EndBlocked
  BY <1>1, <1>3, <1>4, <1>6, <1>10, <1>11, EndEvents, CheckStep
<1>12. CASE /\ check' = [check EXCEPT !.at = "choose", !.anchor = Cardinality(answered), !.retry = retry,
                                   !.of = IF retry = None THEN {} ELSE conts'[retry].of]
            /\ reading' = [reading EXCEPT !["check"] = [NoReading EXCEPT !.at = "begin"]]
            /\ UNCHANGED <<wakes, follow, queue>>
  <2>1. /\ check'.at = "choose" /\ check'.to = check.to /\ check'.retry = retry
        /\ check'.of = IF retry = None THEN {} ELSE conts'[retry].of
        /\ check'.epoch = check.epoch
    BY <1>12 DEF IInv, CheckRight
  <2>2. Rests
    BY <2>1 DEF Rests, Aiming
  <2>3. check'.of \subseteq Receipt
    BY <1>3, <1>7, <2>1 DEF again, JInv, ContRight, ContOk
  <2>4. BornCheck'
    BY <1>1, <1>8, <2>1 DEF BornCheck, JInv, BornRight, Unborn
  <2>5. EventRight'
    BY <1>1, <1>12, EventsStay DEF queue
  <2> QED
    BY <1>1, <1>3, <1>4, <1>6, <1>10, <1>12, <2>1, <2>2, <2>3, <2>4, <2>5, CheckStep
<1> QED
  BY <1>9, <1>11, <1>12

\* The check ends, and leaves the continuations and the addresses alone.
LEMMA EndStep ==
    ASSUME IInv, JInv, DrainRight, EndBlocked \/ \E result : End(result),
           UNCHANGED <<rec, ref, host, notice, consumed, turns, hook, history, asked, conts, wakeTo>>
    PROVE  JInv'
<1>1. thread' = thread
  BY DEF host
<1>2. BornConts'
  BY BornContsStay
<1> QED
  BY <1>1, <1>2, EndEvents, CheckStep, ContsSame

LEMMA CheckChoosesTells ==
    ASSUME IInv, JInv, DrainRight, CheckChooses
    PROVE  JInv'
<1> DEFINE base    == {r \in reading["check"].got : Wakeable(r)}
           over(m) == conts[m].persisted /\ conts[m].of \cap base = {}
           claimed == UNION {conts[m].of : m \in {x \in Message :
                                conts[x].persisted /\ ~over(x) /\ ~conts[x].retry}}
           of      == IF check.retry # None THEN base \cap check.of ELSE base \ claimed
<1>1. /\ check.at = "choose"
      /\ UNCHANGED <<rec, ref, host, notice, consumed, turns, hook, history, asked, thread>>
  BY DEF CheckChooses, ledger, bounds, host
<1>2. \/ conts' = conts
      \/ conts' = [m \in Message |-> IF over(m) THEN NoCont ELSE conts[m]]
  BY DEF CheckChooses
<1>3. of \subseteq Receipt
  BY DEF Wakeable, IInv, WakeRight
<1>4. \/ EndBlocked
      \/ End("retry")
      \/ /\ check' = [check EXCEPT !.at = "status2", !.of = of]
         /\ reading' = [reading EXCEPT !["check"] = NoReading]
         /\ UNCHANGED <<timer, queue>>
  BY DEF CheckChooses
<1>5. wakeTo' = wakeTo \/ wakeTo' = [r \in Receipt |-> None]
  BY DEF CheckChooses
<1> HIDE DEF of
<1>6. /\ conts' = [m \in Message |-> conts'[m]]
      /\ \A m \in Message : conts'[m] = NoCont \/ conts'[m] = conts[m]
  BY <1>2 DEF JInv, ContRight
<1>7. \A m \in Message : \/ conts'[m] = NoCont
                         \/ \E b : conts'[m] = [conts[m] EXCEPT !.retry = b]
  <2>1. TAKE m \in Message
  <2>2. conts[m] = [is |-> conts[m].is, of |-> conts[m].of, persisted |-> conts[m].persisted,
                    retry |-> conts[m].retry]
    BY DEF JInv, ContRight, ContOk
  <2>3. conts[m] = [conts[m] EXCEPT !.retry = conts[m].retry]
    BY <2>2
  <2> QED
    BY <1>6, <2>3
<1>8. BornConts'
  <2>1. Unborn' = Unborn /\ Unborn \subseteq Message
    BY <1>1, MessageFacts DEF Unborn
  <2> QED
    BY <1>6, <2>1 DEF BornConts, JInv, BornRight
<1>9. \A r \in Receipt : wakeTo'[r] \in {wakeTo[r], None}
  BY <1>5
<1>10. CASE EndBlocked \/ End("retry")
  BY <1>1, <1>6, <1>7, <1>8, <1>9, <1>10, EndEvents, CheckStep
<1>11. CASE /\ check' = [check EXCEPT !.at = "status2", !.of = of]
            /\ reading' = [reading EXCEPT !["check"] = NoReading]
            /\ UNCHANGED <<timer, queue>>
  <2>1. /\ check'.at = "status2" /\ check'.to = check.to /\ check'.retry = check.retry
        /\ check'.of = of /\ check'.epoch = check.epoch
    BY <1>11 DEF IInv, CheckRight
  <2>2. Rests
    BY <2>1 DEF Rests, Aiming
  <2>3. BornCheck' /\ EventRight'
    BY <1>1, <1>11, <2>1, BornStays, EventsStay DEF queue
  <2> QED
    BY <1>1, <1>3, <1>6, <1>7, <1>8, <1>9, <1>11, <2>1, <2>2, <2>3, CheckStep
<1> QED
  BY <1>4, <1>10, <1>11

LEMMA CheckAdmitsTells ==
    ASSUME IInv, JInv, DrainRight, CheckAdmits
    PROVE  JInv'
<1>1. /\ check.at = "admit" /\ conts' = conts /\ wakeTo' = wakeTo
      /\ UNCHANGED <<rec, ref, host, notice, consumed, turns, hook, history, asked, thread>>
  BY DEF CheckAdmits, bounds, host
<1>2. \/ End("retry")
      \/ check' = [check EXCEPT !.at = "owned"] /\ UNCHANGED <<enabled, processed, timer, reading, queue>>
  BY DEF CheckAdmits
<1>3. CASE End("retry")
  BY <1>1, <1>3, EndStep
<1>4. CASE check' = [check EXCEPT !.at = "owned"] /\ UNCHANGED <<enabled, processed, timer, reading, queue>>
  <2>1. /\ check'.at = "owned" /\ check'.of = check.of /\ check'.to = check.to
        /\ check'.retry = check.retry /\ check'.epoch = check.epoch
    BY <1>4, CheckFields
  <2>2. Rests /\ check'.of \subseteq Receipt
    BY <1>1, <2>1 DEF Rests, Aiming, JInv, HeldRight, CheckOf
  <2>3. BornCheck' /\ EventRight' /\ BornConts'
    BY <1>1, <1>4, <2>1, BornStays, EventsStay DEF queue
  <2> QED
    BY <1>1, <1>4, <2>1, <2>2, <2>3, CheckStep, ContsSame
<1> QED
  BY <1>2, <1>3, <1>4

LEMMA CheckIsAnsweredTells ==
    ASSUME IInv, JInv, DrainRight, CheckIsAnswered
    PROVE  JInv'
<1>1. /\ check.at = "sent" /\ wakeTo' = wakeTo
      /\ conts' = [conts EXCEPT ![check.to].retry = FALSE]
      /\ UNCHANGED <<rec, ref, host, notice, consumed, turns, hook, history, asked, thread>>
  BY DEF CheckIsAnswered, ledger, bounds, host
<1>2. check.to \in Message /\ check.to \notin Unborn
  BY <1>1, ToIsMessage DEF JInv, BornRight, BornCheck
<1>3. conts = [m \in Message |-> conts[m]]
  BY DEF JInv, ContRight
<1>4. \A m \in Message : conts'[m] = IF m = check.to THEN [conts[m] EXCEPT !.retry = FALSE] ELSE conts[m]
  BY <1>1, <1>3
<1>5. conts' = [m \in Message |-> conts'[m]]
  BY <1>1, <1>3
<1>6. \A m \in Message : \E b : conts'[m] = [conts[m] EXCEPT !.retry = b]
  <2>1. TAKE m \in Message
  <2>2. conts[m] = [is |-> conts[m].is, of |-> conts[m].of, persisted |-> conts[m].persisted,
                    retry |-> conts[m].retry]
    BY DEF JInv, ContRight, ContOk
  <2>3. conts[m] = [conts[m] EXCEPT !.retry = conts[m].retry]
    BY <2>2
  <2> QED
    BY <1>4, <2>3
<1>7. BornConts'
  <2>1. Unborn' = Unborn /\ Unborn \subseteq Message
    BY <1>1, MessageFacts DEF Unborn
  <2> QED
    BY <1>2, <1>4, <2>1 DEF BornConts, JInv, BornRight
<1>8. EventRight' /\ Ended
  BY <1>1, EndEvents DEF CheckIsAnswered
<1> QED
  BY <1>1, <1>5, <1>6, <1>7, <1>8, CheckStep

LEMMA CheckErrsTells ==
    ASSUME IInv, JInv, DrainRight, CheckErrs
    PROVE  JInv'
  BY EndStep DEF CheckErrs, ledger

LEMMA CheckFailsTells ==
    ASSUME IInv, JInv, DrainRight, CheckFails
    PROVE  JInv'
  BY EndStep DEF CheckFails

-----------------------------------------------------------------------------
(* The check: the steps that address a message and tell of receipts. *)

LEMMA UserIsNotSynthetic == User \cap Synthetic = {}
  BY TaskReceiptsAssumption DEF User, Synthetic

LEMMA CheckAddressesTells ==
    ASSUME IInv, JInv, DrainRight, CheckAddresses
    PROVE  JInv'
<1> DEFINE of     == {r \in check.of : Wakeable(r)}
           reused == {wakeTo[r] : r \in of} \ {None}
<1>1. /\ check.at = "status2" /\ conts' = conts /\ wakeTo' = wakeTo
      /\ UNCHANGED <<rec, ref, host, notice, consumed, turns, hook, history, asked, thread>>
  BY DEF CheckAddresses, ledger, bounds, host
<1>2. of \subseteq Receipt
  BY DEF JInv, HeldRight, CheckOf
<1>3. \/ EndBlocked
      \/ End("retry")
      \/ \E to \in IF check.retry # None THEN {check.retry}
                   ELSE IF reused # {} THEN reused
                   ELSE IF Fresh # {} THEN {Min(Fresh)} ELSE {} :
           \E same \in SUBSET of :
             LET kept == IF conts[to].is /\ ~conts[to].persisted
                         THEN same \cap conts[to].of ELSE same IN
             /\ check' = [check EXCEPT !.at = "mark", !.of = kept, !.to = to]
             /\ UNCHANGED <<timer, reading, queue>>
  <2>1. CASE Busy \/ ~Current
    BY <2>1 DEF CheckAddresses
  <2>2. CASE of = {}
    BY <2>2 DEF CheckAddresses
  <2>3. CASE ~(Busy \/ ~Current) /\ of # {}
    <3>1. PICK to \in IF check.retry # None THEN {check.retry}
                      ELSE IF reused # {} THEN reused
                      ELSE IF Fresh # {} THEN {Min(Fresh)} ELSE {} :
             LET same == {r \in of : Cardinality(reused) > 1 => wakeTo[r] \in {None, to}}
                 kept == IF conts[to].is /\ ~conts[to].persisted
                         THEN same \cap conts[to].of ELSE same IN
             \/ End("retry")
             \/ /\ check' = [check EXCEPT !.at = "mark", !.of = kept, !.to = to]
                /\ UNCHANGED <<timer, reading, queue>>
      BY <2>3 DEF CheckAddresses
    <3>2. {r \in of : Cardinality(reused) > 1 => wakeTo[r] \in {None, to}} \in SUBSET of
      OBVIOUS
    <3> HIDE DEF of, reused
    <3> QED
      BY <3>1, <3>2
  <2> QED
    BY <2>1, <2>2, <2>3
<1>4. CASE EndBlocked \/ End("retry")
  BY <1>1, <1>4, EndStep
<1>5. ASSUME NEW to \in IF check.retry # None THEN {check.retry}
                        ELSE IF reused # {} THEN reused
                        ELSE IF Fresh # {} THEN {Min(Fresh)} ELSE {},
             NEW same \in SUBSET of, NEW kept,
             kept = IF conts[to].is /\ ~conts[to].persisted THEN same \cap conts[to].of ELSE same,
             check' = [check EXCEPT !.at = "mark", !.of = kept, !.to = to],
             UNCHANGED <<timer, reading, queue>>
      PROVE  JInv'
  <2>1. to \in Message /\ to \notin Unborn
    <3>1. CASE check.retry # None
      BY <1>5, <3>1 DEF JInv, BornRight, BornCheck, IInv, CheckRight
    <3>2. CASE check.retry = None /\ reused # {}
      BY <1>2, <1>5, <3>2 DEF JInv, BornRight, BornWake, IInv, WakeRight
    <3>3. CASE check.retry = None /\ reused = {}
      <4>1. Fresh # {} /\ to = Min(Fresh) /\ Fresh \in SUBSET Nat /\ Fresh \subseteq Synthetic
        BY <1>5, <3>3, MessageFacts DEF Fresh
      <4>2. to \in Synthetic
        BY <4>1, MinIsThere
      <4> QED
        BY <4>2, UserIsNotSynthetic, MessageFacts DEF Unborn
    <3> QED
      BY <3>1, <3>2, <3>3
  <2>2. kept \subseteq Receipt
    BY <1>2, <1>5
  <2>3. /\ check'.at = "mark" /\ check'.of = kept /\ check'.to = to
        /\ check'.retry = check.retry /\ check'.epoch = check.epoch
    BY <1>5 DEF IInv, CheckRight
  <2>4. Gathered' = {}
    BY <2>3 DEF Gathered
  <2>5. AtHost' = AtHost /\ says' = says
    BY <1>1 DEF AtHost, host
  <2>6. CheckOf'
    <3>1. ASSUME to \notin AtHost, conts[to].is PROVE kept \subseteq conts[to].of
      <4>1. ~conts[to].persisted
        BY <2>1, <3>1 DEF JInv, ContRight, ContOk, AtHost
      <4> QED
        BY <1>5, <3>1, <4>1
    <3> QED
      BY <1>1, <2>2, <2>3, <2>4, <2>5, <3>1 DEF CheckOf
  <2>7. EntryRight' /\ Gains
    BY <1>1, LedgerStays
  <2>8. BornRight'
    <3>1. BornCheck'
      BY <1>1, <2>1, <2>3 DEF BornCheck, JInv, BornRight, Unborn
    <3> QED
      BY <1>1, <3>1, BornStays DEF BornRight
  <2>9. UserEpoch' = UserEpoch /\ HasUserTurn' = HasUserTurn
    BY <1>1 DEF turns, UserEpoch, HasUserTurn, Claimed
  <2>10. TurnRight' /\ EpochRight' /\ EventRight'
    <3>1. TurnRight'
      BY <1>1, <1>5 DEF turns, TurnRight, JInv
    <3>2. EpochRight'
      BY <1>1, <2>3, <2>9 DEF EpochRight, JInv, Aiming
    <3> QED
      BY <1>1, <1>5, <3>1, <3>2, EventsStay DEF queue
  <2>11. ContRight'
    BY <1>1, <2>7, ContsSame, ContsStay DEF history
  <2>12. HeldRight'
    BY <1>1, <1>5, <2>6, <2>7, ReturnedStays, GotStays DEF HeldRight, history
  <2>13. Tame /\ Hushed
    BY <1>1, <1>5, <2>5, <2>7, SameHost DEF turns, history
  <2>14. ShownRight'
    BY <2>13, ShownStays DEF Hushed
  <2>15. OfferRight'
    BY <1>1, <1>5, <2>4 DEF OfferRight, JInv, turns
  <2>16. (\A m : Shown(m)' = Shown(m)) /\ (\A r : Placed(r)' <=> Placed(r))
    BY <1>1, <1>5, <2>5 DEF Shown, Placed, ByHook, turns
  <2>17. BunchRight'
    <3>1. ASSUME NEW m \in Message, m \notin AtHost PROVE Together(m, conts[m].of)'
      <4>1. Together(m, conts[m].of)
        BY <3>1 DEF JInv, BunchRight
      <4>2. UNCHANGED <<conts, ref, strayed>>
        BY <1>1 DEF history
      <4> QED
        BY <2>16, <4>1, <4>2 DEF Together
    <3> QED
      BY <2>4, <2>5, <3>1 DEF BunchRight, Together
  <2>18. AimRight'
    BY <2>3 DEF AimRight, Aiming
  <2> QED
    BY <2>7, <2>8, <2>10, <2>11, <2>12, <2>14, <2>15, <2>17, <2>18 DEF JInv
<1> QED
  <2> HIDE DEF of, reused
  <2> QED
    BY <1>3, <1>4, <1>5

LEMMA ShownToAll ==
    ASSUME IInv, JInv, NEW m
    PROVE  Shown(m) \subseteq Shown(None) /\ Shown(m) \subseteq Receipt
  BY HostHas, HookMessage DEF Shown

LEMMA CheckMarksTells ==
    ASSUME IInv, JInv, DrainRight, CheckMarks
    PROVE  JInv'
<1> DEFINE to == check.to
           D     == Deliveries(check.of, check.to, TRUE)
           of    == {r \in check.of : D[r] = check.to}
           moved == [r \in Receipt |-> IF r \in (check.of \ of) \cap wake /\ D[r] # None
                                   THEN D[r] ELSE wakeTo[r]]
<1>1. /\ check.at = "mark" /\ conts' = conts
      /\ UNCHANGED <<host, notice, consumed, turns, hook, asked, thread, strayed, returned>>
  BY DEF CheckMarks, bounds, host
<1>2. to \in Message /\ to # None /\ to \notin Unborn /\ check.of \subseteq Receipt
  BY <1>1, ToIsMessage, MessageFacts DEF JInv, BornRight, BornCheck, HeldRight, CheckOf
<1>3. /\ EntryRight'
      /\ \A r \in Receipt : r \notin check.of \/ ref[r].acked => ref'[r] = ref[r]
      /\ \A r \in Receipt \cap check.of : ~ref[r].acked =>
            ref'[r] = Delivered(IF TRUE /\ ref[r].to # None THEN ref[r].to ELSE to)
      /\ \A r \in Receipt : rec'[r].to \in {rec[r].to, ref[r].to, to}
  <2>1. MarkDelivered(Deliveries(check.of, to, TRUE))
    BY DEF CheckMarks
  <2> HIDE DEF to
  <2> QED
    BY <1>2, <2>1, MarkedLedger
<1>4. \A r \in check.of : D[r] = IF ref[r].acked THEN None
                                 ELSE IF ref[r].to # None THEN ref[r].to ELSE to
  BY DEF Deliveries
<1>4a. /\ \A r \in Receipt : r \notin check.of \/ ref[r].acked => ref'[r] = ref[r]
       /\ \A r \in Receipt \cap check.of : ~ref[r].acked =>
             ref'[r].to = IF ref[r].to # None THEN ref[r].to ELSE to
  <2>1. \A t : Delivered(t).to = t
    BY DEF Delivered
  <2> QED
    BY <1>3, <2>1
<1>5. \A r \in of : /\ r \in Receipt /\ ~ref[r].acked /\ ref[r].to \in {None, to}
                    /\ ref'[r].to = to
  <2> HIDE DEF D, to
  <2> QED
    BY <1>2, <1>4, <1>4a DEF to
<1>6. \A r \in Receipt : /\ ref[r].to # None => ref'[r].to = ref[r].to
                         /\ ref'[r].to \in {ref[r].to, to}
                         /\ ref[r].acked => ref'[r].acked
  <2> HIDE DEF to
  <2>1. TAKE r \in Receipt
  <2>2. CASE r \notin check.of \/ ref[r].acked
    BY <1>4a, <2>2
  <2>3. CASE r \in check.of /\ ~ref[r].acked
    BY <1>4a, <2>3
  <2> QED
    BY <2>2, <2>3
<1>7. Gains
  BY <1>6 DEF Gains
<1>8. \A r \in Receipt : wakeTo'[r] \in {wakeTo[r], ref[r].to, to, None}
  <2>1. \/ wakeTo' = moved
        \/ wakeTo' = [r \in Receipt |-> IF r \in of THEN check.to ELSE moved[r]]
    BY DEF CheckMarks
  <2>2. \A r \in Receipt : moved[r] \in {wakeTo[r], ref[r].to, to, None}
    BY <1>4
  <2> HIDE DEF moved, of
  <2> QED
    BY <2>1, <2>2
<1>9. \/ EndBlocked
      \/ End("retry")
      \/ /\ of # {} /\ Current
         /\ check' = [check EXCEPT !.at = "latest", !.of = of]
         /\ reading' = [reading EXCEPT !["check"] = [NoReading EXCEPT !.at = "begin"]]
         /\ UNCHANGED <<processed, timer, queue>>
  BY DEF CheckMarks
<1> HIDE DEF D, of, moved
<1>10. BornLedger' /\ BornWake' /\ BornConts'
  <2>1. Unborn' = Unborn /\ None \notin Unborn
    BY <1>1, MessageFacts DEF Unborn
  <2>2. BornLedger'
    BY <1>2, <1>3, <1>6, <2>1 DEF BornLedger, JInv, BornRight
  <2>3. BornWake'
    BY <1>1, <1>2, <1>8, <2>1 DEF BornWake, JInv, BornRight, BornLedger
  <2> QED
    BY <1>1, <2>2, <2>3, BornStays
<1>11. AtHost' = AtHost /\ says' = says
  BY <1>1 DEF AtHost, host
<1>12. CASE EndBlocked \/ End("retry")
  <2>1. EventRight' /\ Ended
    BY <1>1, <1>12, EndEvents
  <2>2. check'.at = "none" /\ check'.of = {} /\ check'.to = None /\ check'.retry = None
    BY <2>1 DEF Ended, NoCheck
  <2>3. BornRight'
    <3>1. None \notin Unborn'
      BY MessageFacts DEF Unborn
    <3> QED
      BY <1>10, <2>2, <3>1 DEF BornRight, BornCheck
  <2>4. /\ reading'["hook"] = reading["hook"]
        /\ reading'["check"].at # "done"
    BY <2>1 DEF IInv, ReadingRight, Reader, Ended, NoReading
  <2>5. Rests
    BY <2>2 DEF Rests, Aiming
  <2>6. Easy
    BY <1>1, <1>7, <1>11, <2>2, <2>4, <2>5, ContsSame DEF Easy, turns, Reader
  <2> QED
    BY <1>3, <2>1, <2>3, <2>6, EasyStep
<1>13. CASE /\ of # {} /\ Current
            /\ check' = [check EXCEPT !.at = "latest", !.of = of]
            /\ reading' = [reading EXCEPT !["check"] = [NoReading EXCEPT !.at = "begin"]]
            /\ UNCHANGED <<processed, timer, queue>>
  <2>1. /\ check'.at = "latest" /\ check'.of = of /\ check'.to = to
        /\ check'.retry = check.retry /\ check'.epoch = check.epoch
    BY <1>13 DEF IInv, CheckRight
  <2>2. Gathered' = of
    BY <2>1 DEF Gathered
  <2>3. /\ reading'["hook"] = reading["hook"]
        /\ reading'["check"].at # "done"
    BY <1>13 DEF IInv, ReadingRight, Reader, NoReading
  <2>4. UserEpoch' = UserEpoch /\ HasUserTurn' = HasUserTurn /\ UserEpoch = check.epoch /\ ~HasUserTurn
    BY <1>1, <1>13 DEF turns, UserEpoch, HasUserTurn, Claimed, Current
  <2>5. hook.at # "none" => claim[hook.m] # "active"
    BY <2>4, HookMessage DEF HasUserTurn, Claimed
  <2>6. Tame /\ Hushed
    BY <1>1, <1>7, <1>11, <2>3, SameHost DEF turns
  <2>7. BornRight'
    <3>1. BornCheck'
      BY <1>1, <1>2, <2>1 DEF BornCheck, JInv, BornRight, Unborn
    <3> QED
      BY <1>10, <3>1 DEF BornRight
  <2>8. TurnRight' /\ EpochRight' /\ EventRight'
    <3>1. TurnRight'
      BY <1>1, <2>3 DEF turns, TurnRight, JInv
    <3>2. EpochRight'
      BY <1>1, <2>1, <2>4 DEF EpochRight, JInv
    <3> QED
      BY <1>1, <1>13, <3>1, <3>2, EventsStay DEF queue
  <2>9. ContRight' /\ Drops
    BY <1>1, <1>7, ContsSame, ContsStay
  <2>10. HeldRight'
    <3>1. CheckOf'
      <4>1. ASSUME to \notin AtHost, conts[to].is PROVE of \subseteq conts[to].of
        BY <1>1, <4>1 DEF JInv, HeldRight, CheckOf, of
      <4> QED
        BY <1>1, <1>2, <1>5, <1>11, <2>1, <2>2, <4>1 DEF CheckOf
    <3> QED
      BY <1>1, <1>7, <2>3, <3>1, ReturnedStays, GotStays DEF HeldRight
  <2>11. ShownRight'
    BY <2>6, ShownStays DEF Hushed
  <2>12. OfferRight'
    BY <1>1, <2>5 DEF OfferRight, turns
  <2>13. \A r \in Shown(None) \ strayed : ~ref[r].acked => ref[r].to \in AtHost
    BY <2>5 DEF JInv, ShownRight, Placed, ByHook
  <2>14. ASSUME to \notin AtHost, NEW r \in of, r \notin strayed PROVE r \notin Shown(to)
    <3>1. ref[r].to \notin AtHost /\ ~ref[r].acked
      BY <1>5, <2>14, HostHas
    <3> QED
      BY <2>13, <2>14, <3>1, ShownToAll
  <2>15. Shown(to)' \subseteq Shown(to) \cup strayed
    BY <1>1, <1>2, <2>1, <2>6 DEF Hushed
  <2>16. BunchRight'
    <3>1. \A m \in Message : m \notin AtHost' => Together(m, conts[m].of)'
      BY <2>6, <2>9, BunchContsStay
    <3>2. ASSUME to \notin AtHost PROVE Together(check.to, Gathered)'
      <4>1. \A r \in of : r \notin strayed => r \notin Shown(to)' /\ ref'[r].to = to
        BY <1>5, <2>14, <2>15, <3>2
      <4> QED
        BY <1>1, <2>1, <2>2, <4>1 DEF Together
    <3> QED
      BY <1>11, <2>1, <3>1, <3>2 DEF BunchRight
  <2>17. ASSUME to \notin AtHost PROVE AimOk(conts[to].of)' /\ AimOk(Gathered)'
    <3>1. ASSUME NEW r \in conts[to].of, r \notin strayed
          PROVE  ref'[r].to = to /\ r \notin Shown(to)
      <4>1. ContOk(to, conts[to]) /\ Together(to, conts[to].of)
        BY <1>2, <2>17 DEF JInv, ContRight, BunchRight
      <4>2. conts[to].is /\ r \in Receipt /\ ref[r].to # None
        BY <3>1, <4>1 DEF ContOk
      <4>3. PICK q \in of : q \in check.of /\ q \in conts[to].of
        BY <1>1, <1>13, <2>17, <4>2 DEF JInv, HeldRight, CheckOf, of
      <4>4. ~ref[q].acked /\ ref[q].to = to
        BY <1>5, <4>1, <4>3 DEF ContOk
      <4>5. r \notin Shown(to) /\ ref[r].to = to
        BY <3>1, <4>1, <4>3, <4>4 DEF Together
      <4> QED
        BY <1>6, <4>2, <4>5
    <3>2. \A r \in conts[to].of \cup of : r \notin strayed => r \notin Shown(to)' /\ ref'[r].to = to
      BY <1>5, <2>14, <2>15, <2>17, <3>1
    <3> QED
      BY <1>1, <2>1, <2>2, <3>2 DEF AimOk
  <2>18. AimRight'
    BY <1>1, <1>11, <2>1, <2>17 DEF AimRight
  <2> QED
    BY <1>3, <2>7, <2>8, <2>9, <2>10, <2>11, <2>12, <2>16, <2>18 DEF JInv
<1> QED
  BY <1>9, <1>12, <1>13

LEMMA ContOf ==
    ASSUME NEW S
    PROVE  [NoCont EXCEPT !.is = TRUE, !.of = S] =
              [is |-> TRUE, of |-> S, persisted |-> FALSE, retry |-> FALSE]
<1>1. ASSUME NEW x, NEW y, NEW v,
             x = [is |-> x.is, of |-> x.of, persisted |-> x.persisted, retry |-> x.retry],
             y = [x EXCEPT !.is = v, !.of = S]
      PROVE  y = [is |-> v, of |-> S, persisted |-> x.persisted, retry |-> x.retry]
  <2>1. y.is = v /\ y.of = S /\ y.persisted = x.persisted /\ y.retry = x.retry
    BY <1>1
  <2>2. y = [is |-> y.is, of |-> y.of, persisted |-> y.persisted, retry |-> y.retry]
    BY <1>1
  <2> QED
    BY <2>1, <2>2
<1>2. NoCont = [is |-> NoCont.is, of |-> NoCont.of, persisted |-> NoCont.persisted,
                retry |-> NoCont.retry]
      /\ NoCont.persisted = FALSE /\ NoCont.retry = FALSE
  BY DEF NoCont
<1> QED
  BY <1>1, <1>2

LEMMA CheckCreatesTells ==
    ASSUME IInv, JInv, DrainRight, CheckCreates
    PROVE  JInv'
<1> DEFINE to   == check.to
           left == check.of \cap reading["check"].got
           c    == conts[check.to]
           of   == IF c.is THEN left \cap c.of ELSE left
<1>1. /\ check.at = "latest" /\ reading["check"].at = "done" /\ wakeTo' = wakeTo
      /\ UNCHANGED <<rec, ref, host, notice, consumed, turns, hook, asked, thread, returned>>
      /\ strayed' = strayed \cup (of \cap consumed)
  BY DEF CheckCreates, ledger, bounds, host
<1>2. to \in Message /\ to \notin Unborn /\ check.of \subseteq Receipt /\ Gathered = check.of
  BY <1>1, ToIsMessage DEF JInv, BornRight, BornCheck, HeldRight, CheckOf, Gathered
<1>3. ContOk(to, conts[to]) /\ conts = [m \in Message |-> conts[m]]
  BY <1>2 DEF JInv, ContRight
<1>4. EntryRight' /\ Gains
  BY <1>1, LedgerStays
<1>5. AtHost' = AtHost /\ says' = says
  BY <1>1 DEF AtHost, host
<1>6. \/ conts' = conts /\ (EndBlocked \/ End("retry"))
      \/ /\ of # {}
         /\ conts' = IF c.is THEN conts
                     ELSE [conts EXCEPT ![check.to] = [NoCont EXCEPT !.is = TRUE, !.of = of]]
         /\ check' = [check EXCEPT !.at = "admit", !.of = of]
         /\ reading' = [reading EXCEPT !["check"] = NoReading]
         /\ UNCHANGED <<timer, queue>>
  BY DEF CheckCreates
<1>7. CASE conts' = conts /\ (EndBlocked \/ End("retry"))
  <2>1. EventRight' /\ Ended
    BY <1>1, <1>7, EndEvents
  <2>2. check'.at = "none" /\ check'.of = {} /\ check'.to = None /\ check'.retry = None
    BY <2>1 DEF Ended, NoCheck
  <2>3. BornRight'
    <3>1. None \notin Unborn'
      BY MessageFacts DEF Unborn
    <3> QED
      BY <1>1, <1>7, <2>2, <3>1, BornStays DEF BornRight, BornCheck
  <2>4. /\ reading'["hook"] = reading["hook"]
        /\ reading'["check"].at # "done"
    BY <2>1 DEF IInv, ReadingRight, Reader, Ended, NoReading
  <2>5. Rests
    BY <2>2 DEF Rests, Aiming
  <2>6. strayed \subseteq strayed'
    BY <1>1
  <2>7. Easy
    BY <1>1, <1>4, <1>5, <1>7, <2>2, <2>4, <2>5, <2>6, ContsSame DEF Easy, turns, Reader
  <2> QED
    BY <1>4, <2>1, <2>3, <2>7, EasyStep
<1>8. ASSUME of # {},
             conts' = IF c.is THEN conts
                      ELSE [conts EXCEPT ![check.to] = [NoCont EXCEPT !.is = TRUE, !.of = of]],
             check' = [check EXCEPT !.at = "admit", !.of = of],
             reading' = [reading EXCEPT !["check"] = NoReading],
             UNCHANGED <<timer, queue>>
      PROVE  JInv'
  <2>1. /\ check'.at = "admit" /\ check'.of = of /\ check'.to = to
        /\ check'.retry = check.retry /\ check'.epoch = check.epoch
    BY <1>8 DEF IInv, CheckRight
  <2>2. Gathered' = {}
    BY <2>1 DEF Gathered
  <2>3. /\ reading'["hook"] = reading["hook"]
        /\ reading'["check"].at # "done"
    BY <1>8 DEF IInv, ReadingRight, Reader, NoReading
  <2>4. UserEpoch' = UserEpoch /\ HasUserTurn' = HasUserTurn
    BY <1>1 DEF turns, UserEpoch, HasUserTurn, Claimed
  <2>5. of \subseteq Gathered /\ of \subseteq reading["check"].got /\ of \subseteq Receipt
    BY <1>2
  <2>6. strayed \subseteq strayed' /\ of \cap consumed \subseteq strayed'
    BY <1>1
  <2> HIDE DEF of
  <2>7. \/ conts' = conts
        \/ conts' = [conts EXCEPT ![to] = [is |-> TRUE, of |-> of, persisted |-> FALSE, retry |-> FALSE]]
    <3>1. [NoCont EXCEPT !.is = TRUE, !.of = of] =
             [is |-> TRUE, of |-> of, persisted |-> FALSE, retry |-> FALSE]
      BY ContOf
    <3> QED
      BY <1>8, <3>1
  <2>8. conts' = [m \in Message |-> conts'[m]]
    BY <1>3, <2>7
  <2>9. \A m \in Message : \/ conts'[m] = conts[m]
                           \/ m = to /\ conts'[m] = [is |-> TRUE, of |-> of, persisted |-> FALSE,
                                                     retry |-> FALSE]
    BY <1>3, <2>7
  <2>10. Tame /\ Hushed
    BY <1>1, <1>4, <1>5, <2>3, <2>6, SameHost DEF turns
  <2>11. BornRight'
    <3>1. Unborn' = Unborn /\ Unborn \subseteq Message
      BY <1>1, MessageFacts DEF Unborn
    <3>2. BornConts'
      BY <1>2, <2>9, <3>1 DEF BornConts, JInv, BornRight
    <3> QED
      BY <1>1, <2>1, <3>2, BornStays DEF BornRight
  <2>12. TurnRight' /\ EpochRight' /\ EventRight'
    <3>1. TurnRight'
      BY <1>1, <2>3 DEF turns, TurnRight, JInv
    <3>2. EpochRight'
      BY <1>1, <2>1, <2>4 DEF EpochRight, JInv, Aiming
    <3> QED
      BY <1>1, <1>8, <3>1, <3>2, EventsStay DEF queue
  <2>13. ContRight'
    <3>1. ASSUME NEW m \in Message PROVE ContOk(m, conts[m])'
      <4>1. CASE conts'[m] = conts[m]
        <5>1. ContOk(m, conts[m])
          BY DEF JInv, ContRight
        <5> QED
          BY <1>1, <2>6, <4>1, <5>1 DEF ContOk
      <4>2. CASE m = to /\ conts'[m] = [is |-> TRUE, of |-> of, persisted |-> FALSE, retry |-> FALSE]
        <5>1. of \cap returned \subseteq strayed'
          BY <1>1, <2>5, <2>6 DEF JInv, HeldRight, GotRight
        <5>2. \A r \in of : ref'[r].to # None
          BY <1>1, <2>5 DEF JInv, HeldRight, CheckOf
        <5> QED
          BY <1>1, <2>5, <4>2, <5>1, <5>2 DEF ContOk
      <4> QED
        BY <2>9, <4>1, <4>2
    <3> QED
      BY <2>8, <3>1 DEF ContRight
  <2>14. HeldRight'
    <3>1. CheckOf'
      BY <2>1, <2>2, <2>5 DEF CheckOf
    <3> QED
      BY <1>1, <1>4, <2>3, <2>6, <3>1, ReturnedStays, GotStays DEF HeldRight
  <2>15. ShownRight'
    BY <2>10, ShownStays DEF Hushed
  <2>16. OfferRight'
    <3> SUFFICES ASSUME hook.at = "reads", reading["hook"].at = "done", claim[hook.m] = "active"
                 PROVE  \A m \in Message : \A r \in conts'[m].of : r \in reading["hook"].got \/ ref[r].acked
      BY <1>1, <2>2, <2>3 DEF OfferRight, turns
    <3>1. /\ \A m \in Message : \A r \in conts[m].of : r \in reading["hook"].got \/ ref[r].acked
          /\ \A r \in Gathered : r \in reading["hook"].got \/ ref[r].acked
      BY DEF JInv, OfferRight
    <3> QED
      BY <2>5, <2>9, <3>1
  <2>17. BunchRight'
    <3>1. ASSUME NEW m \in Message, m \notin AtHost PROVE Together(m, conts[m].of)'
      <4>1. PICK S : /\ conts'[m].of \subseteq S /\ S \subseteq Receipt
                     /\ \A r \in S : ref[r].to # None
                     /\ Together(m, S)
        <5>1. CASE conts'[m] = conts[m]
          <6>1. /\ conts[m].of \subseteq Receipt /\ \A r \in conts[m].of : ref[r].to # None
                /\ Together(m, conts[m].of)
            BY <3>1 DEF JInv, ContRight, ContOk, BunchRight
          <6> QED
            BY <5>1, <6>1
        <5>2. CASE m = to /\ conts'[m].of = of
          <6>1. /\ Gathered \subseteq Receipt /\ \A r \in Gathered : ref[r].to # None
                /\ Together(m, Gathered)
            BY <1>2, <3>1, <5>2 DEF JInv, HeldRight, CheckOf, BunchRight
          <6> QED
            BY <2>5, <5>2, <6>1
        <5> QED
          BY <2>9, <5>1, <5>2
      <4>2. PICK H : H = conts'[m].of
        OBVIOUS
      <4>3. \A r \in H : r \in Shown(m)' => r \in Shown(m) \cup strayed'
        BY <2>10 DEF Hushed
      <4>4. \A r \in H : r \notin strayed' =>
               /\ ref'[r].to = m \/ Placed(r)'
               /\ r \in Shown(m)' \/ ref'[r].to # m => \A q \in H : ref'[q].acked \/ ref'[q].to # m
        BY <2>10, <4>1, <4>2, <4>3, TogetherStays
      <4> QED
        BY <4>2, <4>4 DEF Together
    <3> QED
      BY <1>5, <2>2, <3>1 DEF BunchRight, Together
  <2>18. AimRight'
    <3> SUFFICES ASSUME UserEpoch = check.epoch, to \notin AtHost
                 PROVE  AimOk(conts[to].of)'
      BY <1>5, <2>1, <2>2, <2>4 DEF AimRight, AimOk
    <3>1. AimOk(conts[to].of) /\ AimOk(Gathered)
      BY <1>1 DEF JInv, AimRight, Aiming
    <3>2. ASSUME NEW r \in conts'[to].of, r \notin strayed'
          PROVE  ref'[r].to = to /\ r \notin Shown(to)'
      <4>1. r \in conts[to].of \cup Gathered
        BY <1>2, <2>5, <2>9, <3>2
      <4>2. ref[r].to = to /\ r \notin Shown(to)
        BY <2>6, <3>1, <3>2, <4>1 DEF AimOk
      <4>3. Shown(to)' \subseteq Shown(to) \cup strayed'
        BY <1>2, <2>1, <2>10 DEF Hushed
      <4> QED
        BY <1>1, <3>2, <4>2, <4>3
    <3> QED
      BY <2>1, <3>2 DEF AimOk
  <2> QED
    BY <1>4, <2>11, <2>12, <2>13, <2>14, <2>15, <2>16, <2>17, <2>18 DEF JInv
<1> QED
  BY <1>6, <1>7, <1>8

LEMMA CheckPromptsTells ==
    ASSUME IInv, JInv, DrainRight, CheckPrompts
    PROVE  JInv'
<1> DEFINE to == check.to
           S  == conts[check.to].of
<1>1. /\ check.at = "owned" /\ conts' = conts /\ wakeTo' = wakeTo
      /\ UNCHANGED <<rec, ref, thread, written, notice, consumed, turns, hook, asked, returned, strayed>>
  BY DEF CheckPrompts, ledger, bounds, shared
<1>2. \/ End("retry") /\ UNCHANGED <<posted, says, misfiled>>
      \/ /\ Current /\ Submit(to, S)
         /\ check' = [check EXCEPT !.at = "sent"]
         /\ UNCHANGED <<processed, timer, reading, queue>>
  BY DEF CheckPrompts
<1>3. CASE End("retry") /\ UNCHANGED <<posted, says, misfiled>>
  <2>1. UNCHANGED <<host, history>>
    BY <1>3 DEF CheckPrompts, host, history
  <2> QED
    BY <1>1, <1>3, <2>1, EndStep
<1>4. ASSUME Current, Submit(to, S), check' = [check EXCEPT !.at = "sent"],
             UNCHANGED <<processed, timer, reading, queue>>
      PROVE  JInv'
  <2>1. /\ check'.at = "sent" /\ check'.of = check.of /\ check'.to = to
        /\ check'.retry = check.retry /\ check'.epoch = check.epoch
    BY <1>4, CheckFields
  <2>2. Gathered' = {} /\ Gathered = {}
    BY <1>1, <2>1 DEF Gathered
  <2>3. to \in Message /\ ContOk(to, conts[to])
    BY <1>1, ToIsMessage DEF JInv, ContRight
  <2>4. AtHost' = AtHost \cup {to}
    BY <1>1, <1>4 DEF Submit, AtHost
  <2>5. \A a \in AtHost : says'[a] = says[a]
    <3>1. says = [m \in Message |-> says[m]] /\ AtHost \subseteq Message
      BY HostHas DEF IInv, HostRight
    <3> QED
      BY <1>4, <3>1 DEF Submit
  <2>6. to \notin AtHost => says'[to] = S
    BY <1>4, <2>3 DEF Submit, IInv, HostRight
  <2>7. EntryRight' /\ Gains
    BY <1>1, LedgerStays
  <2>8. Tame
    BY <1>1, <2>4 DEF Tame, Placed, ByHook, turns
  <2>9. UserEpoch' = UserEpoch /\ HasUserTurn' = HasUserTurn
    BY <1>1 DEF turns, UserEpoch, HasUserTurn, Claimed
  <2>10. BornRight'
    <3>1. BornCheck'
      BY <1>1, <2>1 DEF BornCheck, JInv, BornRight, Unborn
    <3> QED
      BY <1>1, <3>1, BornStays DEF BornRight
  <2>11. TurnRight' /\ EpochRight' /\ EventRight'
    <3>1. TurnRight'
      BY <1>1, <1>4 DEF turns, TurnRight, JInv
    <3>2. EpochRight'
      BY <1>1, <2>1, <2>9 DEF EpochRight, JInv, Aiming
    <3> QED
      BY <1>1, <1>4, <3>1, <3>2, EventsStay DEF queue
  <2>12. ContRight' /\ Drops
    BY <1>1, <2>7, ContsSame, ContsStay
  <2>13. HeldRight'
    <3>1. CheckOf'
      BY <2>1, <2>2 DEF CheckOf, JInv, HeldRight
    <3> QED
      BY <1>1, <1>4, <2>7, <3>1, ReturnedStays, GotStays DEF HeldRight
  <2>14. \* what is told of anew was delivered to this message
         ASSUME NEW m, NEW r \in Shown(m)', r \notin Shown(m), r \notin strayed
         PROVE  r \in Receipt /\ r \in S /\ ref[r].to = to /\ to \notin AtHost
    <3>1. r \in Receipt /\ to \notin AtHost /\ r \in S
      BY <1>1, <1>4, <2>4, <2>5, <2>6, <2>14 DEF Shown
    <3>2. AimOk(S)
      BY <1>1, <1>4, <3>1 DEF JInv, AimRight, Aiming, Current
    <3> QED
      BY <2>14, <3>1, <3>2 DEF AimOk
  <2>15. ShownRight'
    <3>1. ASSUME NEW r \in Shown(None)', r \notin strayed PROVE ref'[r].acked \/ Placed(r)'
      <4>1. CASE r \in Shown(None)
        <5>1. r \in Receipt /\ (ref[r].acked \/ Placed(r))
          BY <3>1, <4>1 DEF JInv, ShownRight, Shown
        <5> QED
          BY <1>1, <3>1, <5>1, <2>8 DEF Tame
      <4>2. CASE r \notin Shown(None)
        BY <1>1, <2>4, <2>14, <3>1, <4>2 DEF Placed
      <4> QED
        BY <4>1, <4>2
    <3> QED
      BY <1>1, <3>1 DEF ShownRight
  <2>16. OfferRight'
    BY <1>1, <1>4, <2>2 DEF OfferRight, JInv, turns
  <2>17. BunchRight'
    <3>1. ASSUME NEW m \in Message, m \notin AtHost' PROVE Together(m, conts[m].of)'
      <4>1. m \notin AtHost /\ m # to
        BY <2>4, <3>1
      <4>2. Together(m, conts[m].of) /\ conts[m].of \subseteq Receipt
        BY <4>1 DEF JInv, BunchRight, ContRight, ContOk
      <4>3. ASSUME NEW r \in conts[m].of, r \notin strayed
            PROVE  /\ ref[r].to = m \/ Placed(r)'
                   /\ r \in Shown(m)' \/ ref[r].to # m =>
                         \A q \in conts[m].of : ref[q].acked \/ ref[q].to # m
        <5>1. r \in Receipt /\ (Placed(r) => Placed(r)')
          BY <1>1, <4>2, <4>3, <2>8 DEF Tame
        <5>2. r \in Shown(m)' => r \in Shown(m) \/ ref[r].to # m
          BY <2>14, <4>1, <4>3
        <5> QED
          BY <4>2, <4>3, <5>1, <5>2 DEF Together
      <4> QED
        BY <1>1, <4>3 DEF Together
    <3> QED
      BY <2>2, <3>1 DEF BunchRight, Together
  <2>18. AimRight'
    BY <2>1 DEF AimRight, Aiming
  <2> QED
    BY <2>7, <2>10, <2>11, <2>12, <2>13, <2>15, <2>16, <2>17, <2>18 DEF JInv
<1> QED
  BY <1>2, <1>3, <1>4

-----------------------------------------------------------------------------
(* The events of the host, and a restart. *)

LEMMA EventsHead ==
    ASSUME NEW S, NEW s \in Seq(S), s # <<>>
    PROVE  Head(s) \in Range(s)
<1>1. Len(s) \in Nat /\ DOMAIN s = 1..Len(s) /\ Len(s) # 0
  BY EmptySeq
<1>2. 1 \in DOMAIN s /\ Head(s) = s[1]
  BY <1>1
<1> QED
  BY <1>2 DEF Range

LEMMA ContKept ==
    /\ [NoCont EXCEPT !.persisted = NoCont.is] = NoCont
    /\ [NoCont EXCEPT !.retry = NoCont.retry \/ NoCont.persisted] = NoCont
<1>1. ASSUME NEW x, x = [is |-> x.is, of |-> x.of, persisted |-> x.persisted, retry |-> x.retry]
      PROVE  /\ \A v : v = x.persisted => [x EXCEPT !.persisted = v] = x
             /\ \A v : v = x.retry => [x EXCEPT !.retry = v] = x
  BY <1>1
<1>2. NoCont = [is |-> NoCont.is, of |-> NoCont.of, persisted |-> NoCont.persisted,
                retry |-> NoCont.retry]
      /\ NoCont.is = NoCont.persisted /\ (NoCont.retry \/ NoCont.persisted) = NoCont.retry
  BY DEF NoCont
<1>3. PICK v, u : v = NoCont.is /\ u = (NoCont.retry \/ NoCont.persisted)
  OBVIOUS
<1> QED
  BY <1>1, <1>2, <1>3

LEMMA NoEvents ==
    Range(<<>>) = {} /\ <<>> \in Seq({})
<1>1. DOMAIN <<>> = {}
  OBVIOUS
<1> QED
  BY <1>1 DEF Range

\* What an event does to the turns of the user and to the continuations.
LEMMA ProcessedTurns ==
    ASSUME IInv, JInv, ProcessEvent
    PROVE  /\ events # <<>>
           /\ claim' = [m \in User |-> claim'[m]]
           /\ \A m \in User : \/ claim'[m] = claim[m]
                              \/ claim'[m] = "gone"
                              \/ /\ claim[m] = "active" /\ claim'[m] = "persisted"
                                 /\ m \in Range(thread)
           /\ conts' = [m \in Message |-> conts'[m]]
           /\ \A m \in Message : \/ \E b : conts'[m] = [conts[m] EXCEPT !.retry = b]
                                 \/ /\ m \in Range(thread)
                                    /\ conts'[m] = [conts[m] EXCEPT !.persisted = conts[m].is]
           /\ \A m \in Message : conts[m] = NoCont => conts'[m] = NoCont
           /\ \A r \in Receipt : wakeTo'[r] \in {wakeTo[r], None}
<1> DEFINE e == Head(events)
<1>1. events # <<>> /\ e \in Range(events)
  <2>1. events # <<>> /\ events \in Seq(Range(events))
    BY DEF ProcessEvent, JInv, EventRight
  <2> QED
    BY <2>1, EventsHead
<1>2. e.is = "parts" => e.of \in Range(thread) /\ e.of \in Message
  BY <1>1, HostHas DEF JInv, EventRight, EventOk
<1>3. claim = [m \in User |-> claim[m]] /\ conts = [m \in Message |-> conts[m]]
      /\ wakeTo = [r \in Receipt |-> wakeTo[r]]
  BY DEF JInv, TurnRight, ContRight, IInv, WakeRight
<1>4. \/ UNCHANGED <<wakes, conts, claim>>
      \/ e.is = "parts" /\ e.of \in Claimed({"active"}) /\ ConfirmUser(e.of)
      \/ e.is = "parts" /\ ConfirmContinuation(e.of)
      \/ SettleStatus(e.of)
      \/ SettleError(e.of, e.is = "aborted")
  BY DEF ProcessEvent
<1>5. conts' = conts => /\ conts' = [m \in Message |-> conts'[m]]
                        /\ \A m \in Message : \E b : conts'[m] = [conts[m] EXCEPT !.retry = b]
                        /\ \A m \in Message : conts[m] = NoCont => conts'[m] = NoCont
  BY ContsSame
<1> HIDE DEF e
<1>6. CASE UNCHANGED <<wakes, conts, claim>>
  BY <1>1, <1>3, <1>5, <1>6 DEF wakes
<1>7. CASE e.is = "parts" /\ e.of \in Claimed({"active"}) /\ ConfirmUser(e.of)
  <2>1. /\ e.of \in User /\ claim[e.of] = "active" /\ e.of \in Range(thread)
        /\ claim' = [claim EXCEPT ![e.of] = "persisted"] /\ conts' = conts
        /\ wakeTo' = [r \in Receipt |-> IF r \in given[e.of] THEN None ELSE wakeTo[r]]
    BY <1>2, <1>7 DEF Claimed, ConfirmUser
  <2>2. claim' = [m \in User |-> IF m = e.of THEN "persisted" ELSE claim[m]]
    BY <1>3, <2>1
  <2>3. \A m \in User : claim'[m] = IF m = e.of THEN "persisted" ELSE claim[m]
    BY <2>2
  <2>4. claim' = [m \in User |-> claim'[m]]
    BY <2>2
  <2> QED
    BY <1>1, <1>5, <2>1, <2>3, <2>4
<1>8. CASE e.is = "parts" /\ ConfirmContinuation(e.of)
  <2> DEFINE k == e.of
  <2>1. /\ k \in Range(thread) /\ k \in Message
        /\ conts' = [conts EXCEPT ![k] = [conts[k] EXCEPT !.persisted = conts[k].is]]
        /\ UNCHANGED <<wakeTo, claim>>
    BY <1>2, <1>8 DEF ConfirmContinuation, wakes
  <2>2. \A m \in Message : \E b : conts[m] = [conts[m] EXCEPT !.retry = b]
    <3>1. ASSUME NEW m \in Message PROVE conts[m] = [conts[m] EXCEPT !.retry = conts[m].retry]
      <4>1. conts[m] = [is |-> conts[m].is, of |-> conts[m].of, persisted |-> conts[m].persisted,
                        retry |-> conts[m].retry]
        BY DEF JInv, ContRight, ContOk
      <4> QED
        BY <4>1
    <3> QED
      BY <3>1
  <2> HIDE DEF k
  <2>3. PICK v : v = [conts[k] EXCEPT !.persisted = conts[k].is]
    OBVIOUS
  <2>4. conts' = [m \in Message |-> IF m = k THEN v ELSE conts[m]]
    BY <1>3, <2>1, <2>3
  <2>5. \A m \in Message : conts'[m] = IF m = k THEN v ELSE conts[m]
    BY <2>4
  <2>6. conts' = [m \in Message |-> conts'[m]]
    BY <2>4
  <2>7. ASSUME NEW m \in Message
        PROVE  \/ \E b : conts'[m] = [conts[m] EXCEPT !.retry = b]
               \/ m \in Range(thread) /\ conts'[m] = [conts[m] EXCEPT !.persisted = conts[m].is]
    <3>1. CASE m = k
      BY <2>1, <2>3, <2>5, <3>1
    <3>2. CASE m # k
      BY <2>2, <2>5, <3>2
    <3> QED
      BY <3>1, <3>2
  <2>8. ASSUME NEW m \in Message, conts[m] = NoCont PROVE conts'[m] = NoCont
    <3>1. [NoCont EXCEPT !.persisted = NoCont.is] = NoCont
      BY ContKept
    <3> QED
      BY <2>3, <2>5, <2>8, <3>1
  <2> QED
    BY <1>1, <1>3, <2>1, <2>6, <2>7, <2>8
<1>9. CASE SettleStatus(e.of)
  <2>1. PICK phases, n : Settle(phases, n)
    BY <1>9 DEF SettleStatus
  <2> QED
    BY <1>1, <1>3, <1>5, <1>9, <2>1 DEF SettleStatus, Settle
<1>10. CASE SettleError(e.of, e.is = "aborted")
  <2>1. PICK phases, n : Settle(phases, n)
    BY <1>10 DEF SettleError
  <2>2. /\ conts' = [m \in Message |-> [conts[m] EXCEPT !.retry = conts[m].retry \/ conts[m].persisted]]
        /\ wakeTo' = wakeTo
    BY <1>10 DEF SettleError
  <2>3. conts' = [m \in Message |-> conts'[m]]
        /\ \A m \in Message : \E b : conts'[m] = [conts[m] EXCEPT !.retry = b]
    BY <2>2
  <2>4. /\ claim' = [m \in User |-> claim'[m]]
        /\ \A m \in User : claim'[m] = claim[m] \/ claim'[m] = "gone"
    BY <1>3, <2>1 DEF Settle
  <2>5. ASSUME NEW m \in Message, conts[m] = NoCont PROVE conts'[m] = NoCont
    <3>1. [NoCont EXCEPT !.retry = NoCont.retry \/ NoCont.persisted] = NoCont
      BY ContKept
    <3> QED
      BY <2>2, <2>5, <3>1
  <2> QED
    BY <1>1, <1>3, <2>2, <2>3, <2>4, <2>5
<1> QED
  BY <1>4, <1>6, <1>7, <1>8, <1>9, <1>10

LEMMA ProcessEventTells ==
    ASSUME IInv, JInv, ProcessEvent
    PROVE  JInv'
<1>1. /\ UNCHANGED <<rec, ref, notice, consumed, epoch, reading, hook, returned, asked>>
      /\ thread' = thread /\ says' = says /\ AtHost' = AtHost
      /\ strayed' = strayed \cup {r \in Receipt : \E m \in Claimed({"active"}) :
                                                 claim'[m] = "gone" /\ ref[r].to = m}
  BY DEF ProcessEvent, ledger, host, bounds, AtHost
<1>2. /\ events # <<>>
      /\ claim' = [m \in User |-> claim'[m]]
      /\ \A m \in User : \/ claim'[m] = claim[m]
                         \/ claim'[m] = "gone"
                         \/ /\ claim[m] = "active" /\ claim'[m] = "persisted"
                            /\ m \in Range(thread)
      /\ conts' = [m \in Message |-> conts'[m]]
      /\ \A m \in Message : \/ \E b : conts'[m] = [conts[m] EXCEPT !.retry = b]
                            \/ /\ m \in Range(thread)
                               /\ conts'[m] = [conts[m] EXCEPT !.persisted = conts[m].is]
      /\ \A m \in Message : conts[m] = NoCont => conts'[m] = NoCont
      /\ \A r \in Receipt : wakeTo'[r] \in {wakeTo[r], None}
  BY ProcessedTurns
<1>3. EntryRight' /\ Gains /\ Range(thread) \subseteq Range(thread)' /\ strayed \subseteq strayed'
  BY <1>1, LedgerStays
<1>4. HasUserTurn' => HasUserTurn
  <2>1. ASSUME NEW m \in User, claim'[m] \in {"active", "persisted"}
        PROVE  claim[m] \in {"active", "persisted"}
    BY <1>2, <2>1
  <2> QED
    BY <2>1 DEF HasUserTurn, Claimed
<1>5. UserEpoch' = UserEpoch /\ UserEpoch \in Nat
  BY <1>1, UserEpochIsNat DEF UserEpoch
<1>6. Hushed
  BY <1>1 DEF Hushed, Shown
<1>7. Tame
  <2>1. ASSUME NEW r \in Receipt, Placed(r) PROVE Placed(r)' \/ r \in strayed'
    <3>1. CASE ref[r].to \in AtHost
      BY <1>1, <3>1 DEF Placed
    <3>2. CASE ByHook(r)
      <4>1. /\ hook.at = "marked" /\ ref[r].to = hook.m /\ claim[hook.m] = "active"
            /\ hook.m \in User
        BY <3>2, HookMessage DEF ByHook
      <4>2. CASE claim'[hook.m] = "active"
        BY <1>1, <4>1, <4>2 DEF Placed, ByHook
      <4>3. CASE claim'[hook.m] = "gone"
        BY <1>1, <4>1, <4>3 DEF Claimed
      <4>4. CASE hook.m \in Range(thread)
        BY <1>1, <4>1, <4>4, HostHas DEF Placed
      <4> QED
        BY <1>2, <4>1, <4>2, <4>3, <4>4
    <3> QED
      BY <2>1, <3>1, <3>2 DEF Placed
  <2> QED
    BY <1>1, <1>3, <2>1 DEF Tame
<1>8. ASSUME NEW m \in Message
      PROVE  /\ ContOk(m, conts[m])'
             /\ conts'[m].of = conts[m].of
             /\ conts'[m].is => conts[m].is
  <2>1. /\ ContOk(m, conts[m])
        /\ conts[m] = [is |-> conts[m].is, of |-> conts[m].of, persisted |-> conts[m].persisted,
                       retry |-> conts[m].retry]
    BY DEF JInv, ContRight, ContOk
  <2>2. \A r \in conts[m].of : ref'[r].to # None
    BY <1>1, <2>1 DEF ContOk
  <2>3. CASE \E b : conts'[m] = [conts[m] EXCEPT !.retry = b]
    <3>1. PICK b : conts'[m] = [conts[m] EXCEPT !.retry = b]
      BY <2>3
    <3>2. conts'[m] = [is |-> conts[m].is, of |-> conts[m].of, persisted |-> conts[m].persisted,
                       retry |-> b]
      BY <2>1, <3>1
    <3>3. /\ conts'[m].is = conts[m].is /\ conts'[m].of = conts[m].of
          /\ conts'[m].persisted = conts[m].persisted /\ conts'[m].retry = b
      BY <3>2
    <3> QED
      BY <1>1, <1>3, <2>1, <2>2, <3>2, <3>3 DEF ContOk
  <2>4. CASE m \in Range(thread) /\ conts'[m] = [conts[m] EXCEPT !.persisted = conts[m].is]
    <3>1. conts'[m] = [is |-> conts[m].is, of |-> conts[m].of, persisted |-> conts[m].is,
                       retry |-> conts[m].retry]
      BY <2>1, <2>4
    <3>2. /\ conts'[m].is = conts[m].is /\ conts'[m].of = conts[m].of
          /\ conts'[m].persisted = conts[m].is /\ conts'[m].retry = conts[m].retry
      BY <3>1
    <3> QED
      BY <1>1, <1>3, <2>1, <2>2, <2>4, <3>1, <3>2 DEF ContOk
  <2> QED
    BY <1>2, <2>3, <2>4
<1>9. ContRight' /\ Drops
  BY <1>2, <1>8 DEF ContRight, Drops
<1>10. /\ Rests /\ check'.of \subseteq Receipt
       /\ check'.at # "none" => \/ check.at # "none" /\ check'.epoch = check.epoch
                                \/ check'.epoch = UserEpoch
       /\ BornCheck'
  <2>1. CASE check' = check
    BY <1>1, <2>1, CheckSame, BornStays
  <2>2. CASE Ask("event")
    BY <1>1, <2>2, AskTells
  <2> QED
    BY <2>1, <2>2 DEF ProcessEvent
<1>11. BornRight'
  <2>1. BornConts'
    <3>1. Unborn' = Unborn /\ Unborn \subseteq Message
      BY <1>1, MessageFacts DEF Unborn
    <3> QED
      BY <1>2, <3>1 DEF BornConts, JInv, BornRight
  <2> QED
    BY <1>1, <1>2, <1>10, <2>1, BornStays DEF BornRight
<1>12. TurnRight' /\ EpochRight'
  <2>1. TurnRight'
    BY <1>1, <1>2 DEF TurnRight, JInv
  <2>2. ASSUME check'.at # "none" PROVE check'.epoch \in Nat /\ check'.epoch <= UserEpoch'
    BY <1>5, <1>10, <2>2 DEF JInv, EpochRight
  <2>3. ASSUME check'.at \in Aiming, UserEpoch' = check'.epoch PROVE ~HasUserTurn'
    BY <1>4, <1>5, <1>10, <2>3 DEF JInv, EpochRight, Rests, Aiming
  <2> QED
    BY <2>1, <2>2, <2>3 DEF EpochRight
<1>13. EventRight'
  <2>1. events' = events \/ events' = Tail(events)
    BY DEF ProcessEvent
  <2> QED
    BY <1>2, <1>3, <2>1, EventsStay, EventsTail
<1>14. HeldRight'
  BY <1>1, <1>3, <1>9, <1>10, CheckOfStays, ReturnedStays, GotStays DEF HeldRight
<1>15. ShownRight' /\ BunchRight'
  BY <1>6, <1>7, <1>9, <1>10, ShownStays, BunchStays DEF Hushed
<1>16. OfferRight'
  <2>1. hook.at # "none" /\ claim'[hook.m] = "active" => claim[hook.m] = "active"
    BY <1>2, HookMessage
  <2> QED
    BY <1>1, <1>3, <1>9, <1>10, <2>1, OfferStays
<1>17. AimRight'
  BY <1>5, <1>6, <1>7, <1>9, <1>10, AimStays DEF Rests, Aiming
<1> QED
  BY <1>3, <1>9, <1>11, <1>12, <1>13, <1>14, <1>15, <1>16, <1>17 DEF JInv

LEMMA RestartTells ==
    ASSUME IInv, JInv, Restart
    PROVE  JInv'
<1>1. /\ UNCHANGED <<rec, ref, thread, says, returned, asked>>
      /\ posted' = {} /\ written' = {} /\ events' = <<>>
      /\ notice' = [r \in Receipt |-> Quiet] /\ wakeTo' = [r \in Receipt |-> None]
      /\ conts' = [m \in Message |-> NoCont]
      /\ claim' = [m \in User |-> "none"] /\ epoch' = [m \in User |-> 0]
      /\ hook' = NoHook /\ check' = NoCheck /\ reading' = [w \in Reader |-> NoReading]
      /\ strayed' = strayed \cup {r \in Receipt :
                       ref[r].to \in (AtHost \cup {hook.m}) \ (Range(thread) \cup {None})}
  BY DEF Restart, ledger
<1>2. AtHost' = Range(thread) /\ Range(thread) \subseteq AtHost /\ strayed \subseteq strayed'
  BY <1>1 DEF AtHost
<1>3. EntryRight' /\ Gains
  BY <1>1, LedgerStays
<1>4. /\ hook'.at = "none" /\ check'.at = "none" /\ check'.to = None /\ check'.retry = None
      /\ check'.of = {} /\ Gathered' = {}
      /\ \A w \in Reader : reading'[w].at = "none"
  BY <1>1 DEF NoHook, NoCheck, NoReading, Gathered
<1>5. BornRight'
  <2>1. Unborn' \subseteq Unborn /\ None \notin Unborn /\ Unborn' \subseteq Message
    BY <1>1, <1>4, MessageFacts DEF Unborn
  <2>2. BornLedger'
    BY <1>1, <2>1 DEF BornLedger, JInv, BornRight
  <2>3. BornWake' /\ BornConts' /\ BornCheck'
    BY <1>1, <1>4, <2>1 DEF BornWake, BornConts, BornCheck, Quiet
  <2> QED
    BY <2>2, <2>3 DEF BornRight
<1>6. TurnRight' /\ EpochRight'
  <2>1. claim' = [m \in User |-> claim'[m]] /\ epoch' \in [User -> Nat]
        /\ \A m \in User : ~ (epoch'[m] > 0)
    BY <1>1
  <2>2. hook' = [at |-> hook'.at, m |-> hook'.m]
    BY <1>1 DEF NoHook
  <2>3. asked' \in Nat
    BY <1>1 DEF JInv, TurnRight
  <2> QED
    BY <1>4, <2>1, <2>2, <2>3 DEF TurnRight, EpochRight, Aiming
<1>7. EventRight'
  BY <1>1, NoEvents DEF EventRight
<1>8. ContRight'
  <2>1. \A m \in Message : ContOk(m, NoCont)'
    BY DEF ContOk, NoCont
  <2> QED
    BY <1>1, <2>1 DEF ContRight
<1>9. HeldRight'
  <2>1. CheckOf' /\ GotRight'
    BY <1>4 DEF CheckOf, GotRight, Reader
  <2> QED
    BY <1>1, <1>2, <1>3, <2>1, ReturnedStays DEF HeldRight
<1>10. ShownRight'
  <2>1. ASSUME NEW r \in Shown(None)', r \notin strayed' PROVE ref'[r].acked \/ Placed(r)'
    <3>1. r \in Receipt /\ r \in Shown(None) \ strayed
      BY <1>1, <1>2, <1>4, <2>1 DEF Shown
    <3>2. ref[r].acked \/ Placed(r)
      BY <3>1 DEF JInv, ShownRight
    <3>3. ASSUME Placed(r) PROVE ref[r].to \in Range(thread)
      <4>1. ref[r].to \in AtHost \cup {hook.m} /\ ref[r].to # None
        BY <3>3, HostHas, HookMessage DEF Placed, ByHook
      <4> QED
        BY <1>1, <2>1, <3>1, <4>1
    <3> QED
      BY <1>1, <1>2, <3>2, <3>3 DEF Placed
  <2> QED
    BY <2>1 DEF ShownRight
<1>11. OfferRight' /\ AimRight'
  BY <1>4 DEF OfferRight, AimRight, Aiming
<1>12. BunchRight'
  <2>1. \A m \in Message : conts'[m].of = {}
    BY <1>1 DEF NoCont
  <2> QED
    BY <1>4, <2>1 DEF BunchRight, Together
<1> QED
  BY <1>3, <1>5, <1>6, <1>7, <1>8, <1>9, <1>10, <1>11, <1>12 DEF JInv

-----------------------------------------------------------------------------
(* Who waits for the check, and who sends. *)

\* The callers of the check are left alone, and so are the events.
Waits == /\ check'.callers = {} \/ (check'.callers = check.callers /\ UNCHANGED queue)
         /\ check.at = "owned" /\ check'.at = "sent" => CheckPrompts

LEMMA EndWaits ==
    ASSUME EndBlocked \/ \E result : End(result)
    PROVE  check'.callers = {} /\ check'.at = "none"
<1>1. Ended
  BY EndIs, EndBlockedIs
<1> QED
  BY <1>1 DEF Ended, NoCheck

LEMMA SameWaits ==
    ASSUME UNCHANGED <<check, queue>>
    PROVE  Waits
  BY DEF Waits

LEMMA ChecksWait ==
    ASSUME IInv, Checks, ~TimerFires
    PROVE  Waits
<1>1. CASE CheckBegins
  BY <1>1, EndWaits DEF CheckBegins, Waits, IInv, CheckRight
<1>2. CASE CheckReadsOwner
  <2>1. check.at = "owner"
    BY <1>2 DEF CheckReadsOwner
  <2>2. \/ EndBlocked
        \/ check'.callers = check.callers /\ UNCHANGED queue
    BY <1>2 DEF CheckReadsOwner, IInv, CheckRight
  <2> QED
    BY <2>1, <2>2, EndWaits DEF Waits
<1>3. CASE CheckChooses
  <2>1. check.at = "choose"
    BY <1>3 DEF CheckChooses
  <2>2. \/ EndBlocked \/ \E result : End(result)
        \/ check'.callers = check.callers /\ UNCHANGED queue
    BY <1>3 DEF CheckChooses, IInv, CheckRight
  <2> QED
    BY <2>1, <2>2, EndWaits DEF Waits
<1>4. CASE CheckAddresses
  <2>1. check.at = "status2"
    BY <1>4 DEF CheckAddresses
  <2>2. \/ EndBlocked \/ \E result : End(result)
        \/ check'.callers = check.callers /\ UNCHANGED queue
    BY <1>4 DEF CheckAddresses, IInv, CheckRight
  <2> QED
    BY <2>1, <2>2, EndWaits DEF Waits
<1>5. CASE CheckMarks
  <2>1. check.at = "mark"
    BY <1>5 DEF CheckMarks
  <2>2. \/ EndBlocked \/ \E result : End(result)
        \/ check'.callers = check.callers /\ UNCHANGED queue
    BY <1>5 DEF CheckMarks, IInv, CheckRight
  <2> QED
    BY <2>1, <2>2, EndWaits DEF Waits
<1>6. CASE CheckCreates
  <2>1. check.at = "latest"
    BY <1>6 DEF CheckCreates
  <2>2. \/ EndBlocked \/ \E result : End(result)
        \/ check'.callers = check.callers /\ UNCHANGED queue
    BY <1>6 DEF CheckCreates, IInv, CheckRight
  <2> QED
    BY <2>1, <2>2, EndWaits DEF Waits
<1>7. CASE CheckAdmits
  <2>1. check.at = "admit"
    BY <1>7 DEF CheckAdmits
  <2>2. \/ EndBlocked \/ \E result : End(result)
        \/ check'.callers = check.callers /\ UNCHANGED queue
    BY <1>7 DEF CheckAdmits, IInv, CheckRight
  <2> QED
    BY <2>1, <2>2, EndWaits DEF Waits
<1>8. CASE CheckPrompts
  <2>1. \/ End("retry")
        \/ check'.callers = check.callers /\ UNCHANGED queue
    BY <1>8 DEF CheckPrompts, IInv, CheckRight
  <2> QED
    BY <1>8, <2>1, EndWaits DEF Waits
<1>9. CASE CheckIsAnswered \/ CheckErrs \/ CheckFails
  <2>1. \/ EndBlocked \/ \E result : End(result)
    BY <1>9 DEF CheckIsAnswered, CheckErrs, CheckFails
  <2> QED
    BY <2>1, EndWaits DEF Waits
<1> QED
  BY <1>1, <1>2, <1>3, <1>4, <1>5, <1>6, <1>7, <1>8, <1>9 DEF Checks

LEMMA AskWaits ==
    ASSUME IInv, NEW caller, Ask(caller)
    PROVE  /\ check'.callers \subseteq check.callers \cup {caller}
           /\ check.at = "owned" => check'.at = "owned"
  BY DEF Ask, IInv, CheckRight, NoCheck

LEMMA AppendedIsSome ==
    ASSUME NEW S, NEW s \in Seq(S), NEW e
    PROVE  Append(s, e) # <<>> /\ s \o <<e>> # <<>>
<1>1. s \in Seq(S \cup {e}) /\ e \in S \cup {e}
  OBVIOUS
<1> QED
  BY <1>1

LEMMA HostWaits ==
    ASSUME IInv, JInv,
           \/ \E m \in Message : HostStores(m) \/ HostStoresParts(m)
           \/ HostStarts \/ HostAnswers \/ \E aborted \in BOOLEAN : HostErrs(aborted)
    PROVE  check' = check /\ drains' = drains /\ (events # <<>> => events' # <<>>)
<1>1. events \in Seq(Range(events))
  BY DEF JInv, EventRight
<1>2. check' = check /\ drains' = drains
  BY DEF HostStores, HostStoresParts, HostStarts, HostAnswers, HostErrs
<1>3. \/ events' = events
      \/ \E e : events' = Append(events, e)
      \/ \E d, e : events' = events \o <<d, e>>
      \/ \E c, d, e : events' = Append(events, c) \o <<d, e>>
  BY DEF HostStores, HostStoresParts, HostStarts, HostAnswers, HostErrs, Idle
<1>4. ASSUME NEW c, NEW d, NEW e
      PROVE  /\ Append(events, e) # <<>>
             /\ events \o <<d, e>> # <<>>
             /\ Append(events, c) \o <<d, e>> # <<>>
  <2> DEFINE S == Range(events) \cup {c, d, e}
  <2>1. events \in Seq(S) /\ c \in S /\ d \in S /\ e \in S
    BY <1>1
  <2> HIDE DEF S
  <2>2. Append(events, c) \in Seq(S) /\ <<d, e>> \in Seq(S) /\ Len(<<d, e>>) = 2
    BY <2>1
  <2>3. Append(events, e) # <<>>
    BY <2>1
  <2>4. \A t \in Seq(S) : t \o <<d, e>> # <<>>
    <3>1. TAKE t \in Seq(S)
    <3>2. t \o <<d, e>> = Append(Append(t, d), e)
      BY <2>1, TwoAppended
    <3>3. Append(t, d) \in Seq(S)
      BY <2>1
    <3> QED
      BY <2>1, <3>2, <3>3
  <2> QED
    BY <2>1, <2>2, <2>3, <2>4
<1> QED
  BY <1>2, <1>3, <1>4

\* In the model only CheckPrompts sends, and an event that waits stays first.
LEMMA StepWaits ==
    ASSUME IInv, JInv, DrainRight, [Next]_vars
    PROVE  /\ DrainRight'
           /\ check.at = "owned" /\ check'.at = "sent" => CheckPrompts
<1>1. ASSUME Waits PROVE DrainRight'
  BY <1>1 DEF Waits, DrainRight, queue
<1>2. CASE UNCHANGED <<check, queue>>
  BY <1>1, <1>2, SameWaits DEF Waits
<1>3. CASE Checks /\ ~TimerFires
  BY <1>1, <1>3, ChecksWait DEF Waits
<1>4. CASE TimerFires
  <2>1. queue' = queue /\ (check' = check \/ Ask("timer"))
    BY <1>4 DEF TimerFires
  <2>2. CASE check' = check
    BY <1>2, <2>1, <2>2
  <2>3. CASE Ask("timer")
    <3>1. /\ check'.callers \subseteq check.callers \cup {"timer"}
          /\ check.at = "owned" => check'.at = "owned"
      BY <2>3, AskWaits
    <3> QED
      BY <2>1, <3>1 DEF DrainRight, queue
  <2> QED
    BY <2>1, <2>2, <2>3
<1>5. CASE ProcessEvent
  <2>1. events # <<>> /\ ~drains
    BY <1>5 DEF ProcessEvent
  <2>2. CASE check' = check
    BY <2>1, <2>2 DEF DrainRight
  <2>3. CASE drains' = TRUE /\ Ask("event") /\ UNCHANGED events
    BY <2>1, <2>3, AskWaits DEF DrainRight
  <2> QED
    BY <1>5, <2>2, <2>3 DEF ProcessEvent
<1>6. CASE \/ \E m \in Message : HostStores(m) \/ HostStoresParts(m)
           \/ HostStarts \/ HostAnswers \/ \E aborted \in BOOLEAN : HostErrs(aborted)
  BY <1>6, HostWaits DEF DrainRight
<1>7. CASE Restart
  BY <1>7 DEF Restart, NoCheck, DrainRight
<1>8. CASE \E r \in Receipt : TaskEnds(r) \/ DeliverNotice(r) \/ FailNotice(r) \/ RetryNotice(r)
  BY <1>2, <1>8 DEF TaskEnds, DeliverNotice, FailNotice, RetryNotice
<1>9. CASE Reads
  BY <1>2, <1>9 DEF Reads, Gather, TakeAnswered, AcknowledgeAnswered, LeaveAnswered, TellAnswered
<1>10. CASE HookBegins \/ HookMarks \/ HookReturns \/ HookFails
  BY <1>2, <1>10 DEF HookBegins, HookMarks, HookReturns, HookFails
<1>11. CASE Watches
  BY <1>2, <1>11 DEF Watches, WatchBegins, WatchLeaves, WatchTakes, WatchRecords, WatchCopies,
                     WatchFails, WatchReturns
<1>12. CASE UNCHANGED vars
  BY <1>2, <1>12 DEF vars
<1> QED
  BY <1>3, <1>4, <1>5, <1>6, <1>7, <1>8, <1>9, <1>10, <1>11, <1>12 DEF Next

-----------------------------------------------------------------------------
(* The theorem. *)

LEMMA InitTells ==
    ASSUME NEW old \in SUBSET Receipt, InitWith(old), asked = 0
    PROVE  JInv /\ DrainRight
<1>1. /\ \A r \in Receipt : /\ ref[r] = rec[r]
                            /\ rec[r] = IF r \in old THEN [is |-> TRUE, to |-> Call, acked |-> TRUE]
                                                     ELSE Unended
      /\ says = [m \in Message |-> {}] /\ AtHost = Range(thread) /\ thread = <<First>>
      /\ events = <<>> /\ returned = old
      /\ notice = [r \in Receipt |-> Quiet] /\ wakeTo = [r \in Receipt |-> None]
      /\ conts = [m \in Message |-> NoCont]
      /\ claim = [m \in User |-> "none"] /\ epoch = [m \in User |-> 0]
      /\ hook = NoHook /\ check = NoCheck /\ reading = [w \in Reader |-> NoReading]
  BY DEF InitWith, FreshPlugin, AtHost
<1>2. Call # None /\ None \notin Unborn /\ Call \notin Unborn /\ Unborn \subseteq Message
  BY MessageFacts, TaskReceiptsAssumption DEF Call, User, Unborn, None
<1>3. /\ hook.at = "none" /\ check.at = "none" /\ check.to = None /\ check.retry = None
      /\ check.of = {} /\ check.callers = {} /\ Gathered = {}
      /\ \A w \in Reader : reading[w].at = "none"
  BY <1>1 DEF NoHook, NoCheck, NoReading, Gathered
<1>4. ASSUME NEW r \in Receipt
      PROVE  /\ EntryOk(ref[r]) /\ EntryOk(rec[r]) /\ ref[r].to \in {Call, None}
             /\ rec[r].to \in {Call, None} /\ (r \in old => ref[r].acked)
  BY <1>1, <1>2 DEF EntryOk, Unended
<1>5. EntryRight
  BY <1>4 DEF EntryRight
<1>6. BornRight
  BY <1>1, <1>2, <1>3, <1>4
     DEF BornRight, BornLedger, BornWake, BornConts, BornCheck, Quiet
<1>7. TurnRight /\ EpochRight
  <2>1. /\ claim = [m \in User |-> claim[m]] /\ epoch \in [User -> Nat]
        /\ \A m \in User : ~ (epoch[m] > 0)
    BY <1>1
  <2>2. hook = [at |-> hook.at, m |-> hook.m]
    BY <1>1 DEF NoHook
  <2> QED
    BY <1>3, <2>1, <2>2 DEF TurnRight, EpochRight, Aiming
<1>8. EventRight /\ DrainRight
  BY <1>1, <1>3, NoEvents DEF EventRight, DrainRight
<1>9. ContRight
  <2>1. \A m \in Message : ContOk(m, NoCont)
    BY DEF ContOk, NoCont
  <2> QED
    BY <1>1, <2>1 DEF ContRight
<1>10. HeldRight
  BY <1>1, <1>3, <1>4 DEF HeldRight, CheckOf, ReturnedRight, GotRight, Reader
<1>11. ShownRight
  <2>1. \A a \in AtHost : says[a] = {}
    BY <1>1, MessageFacts DEF Range
  <2> QED
    BY <1>3, <2>1 DEF ShownRight, Shown
<1>12. OfferRight /\ AimRight
  BY <1>3 DEF OfferRight, AimRight, Aiming
<1>13. BunchRight
  <2>1. \A m \in Message : conts[m].of = {}
    BY <1>1 DEF NoCont
  <2> QED
    BY <1>3, <2>1 DEF BunchRight, Together
<1> QED
  BY <1>5, <1>6, <1>7, <1>8, <1>9, <1>10, <1>11, <1>12, <1>13 DEF JInv

LEMMA StutterTells ==
    ASSUME IInv, JInv, UNCHANGED vars
    PROVE  JInv'
<1>1. /\ UNCHANGED <<rec, ref, notice, wakeTo, hook, claim, epoch, asked, says, conts, check, reading,
                     strayed, returned, consumed, events, thread>>
      /\ AtHost' = AtHost
  BY DEF vars, ledger, host, queue, wakes, shared, turns, history, bounds, AtHost
<1>2. EntryRight' /\ Gains /\ BornLedger' /\ BornWake' /\ EventRight'
  BY <1>1, LedgerStays, BornStays, EventsStay
<1> QED
  BY <1>1, <1>2, StillStep

LEMMA StepTells ==
    ASSUME IInv, JInv, DrainRight, [Next]_vars
    PROVE  JInv'
<1>1. ASSUME NEW r \in Receipt,
             TaskEnds(r) \/ DeliverNotice(r) \/ FailNotice(r) \/ RetryNotice(r)
      PROVE  JInv'
  BY <1>1, TaskEndsTells, DeliverNoticeTells, NoticeTells
<1>2. ASSUME HookBegins \/ HookMarks \/ HookReturns \/ HookFails
      PROVE  JInv'
  BY <1>2, HookBeginsTells, HookMarksTells, HookReturnsTells, HookFailsTells
<1>3. ASSUME NEW m \in Message, HostStores(m) \/ HostStoresParts(m)
      PROVE  JInv'
  BY <1>3, HostStoresTells, HostStoresPartsTells
<1>4. ASSUME HostStarts \/ HostAnswers \/ \E a \in BOOLEAN : HostErrs(a)
      PROVE  JInv'
  BY <1>4, HostStartsTells, HostAnswersTells, HostErrsTells
<1>5. ASSUME Reads PROVE JInv'
  BY <1>5, GatherTells, TakeAnsweredTells, AcknowledgeAnsweredTells, LeaveAnsweredTells,
     TellAnsweredTells DEF Reads
<1>6. ASSUME Checks PROVE JInv'
  BY <1>6, TimerFiresTells, CheckBeginsTells, CheckReadsOwnerTells, CheckChoosesTells,
     CheckAddressesTells, CheckMarksTells, CheckCreatesTells, CheckAdmitsTells,
     CheckPromptsTells, CheckIsAnsweredTells, CheckErrsTells, CheckFailsTells
     DEF Checks
<1>7. ASSUME Watches PROVE JInv'
  BY <1>7, WatchBeginsTells, WatchLeavesTells, WatchTakesTells, WatchRecordsTells,
     WatchCopiesTells, WatchFailsTells, WatchReturnsTells
     DEF Watches
<1> QED
  BY <1>1, <1>2, <1>3, <1>4, <1>5, <1>6, <1>7, ProcessEventTells, RestartTells, StutterTells
     DEF Next

\* What a new continuation names has been read by nobody.
LEMMA PromptIsNews ==
    ASSUME IInv, JInv, CheckPrompts, check'.at = "sent", check.to \notin AtHost
    PROVE  says'[check.to] \cap Read \subseteq strayed
<1> DEFINE to == check.to
           S  == conts[check.to].of
<1>1. /\ check.at = "owned" /\ Current /\ Submit(to, S)
  <2>1. ~ End("retry")
    BY EndWaits
  <2> QED
    BY <2>1 DEF CheckPrompts
<1>2. to \in Message /\ ContOk(to, conts[to])
  BY <1>1, ToIsMessage DEF JInv, ContRight
<1>3. says'[to] = S
  BY <1>1, <1>2 DEF Submit, IInv, HostRight
<1>4. AimOk(S)
  BY <1>1 DEF JInv, AimRight, Aiming, Current
<1>5. ASSUME NEW r \in S, r \in Read, r \notin strayed PROVE FALSE
  <2>1. r \notin returned /\ r \in Receipt /\ r \notin Shown(to)
    BY <1>2, <1>4, <1>5 DEF ContOk, AimOk
  <2>2. PICK a \in answered : r \in says[a]
    BY <1>5, <2>1 DEF Read
  <2>3. a \in AtHost \ {to}
    BY HostHas DEF IInv, HostRight
  <2> QED
    BY <2>1, <2>2, <2>3 DEF Shown
<1> QED
  BY <1>3, <1>5

\* The host is never given a new message of an automatic continuation that
\* names a receipt the owner's Agent has read already (continueParentSession
\* and the chat.message hook deliver to one message at a time), unless the
\* delivery or the acknowledgement of the receipt had gone astray.
THEOREM ReceiptIsToldOnce == Spec => NotToldTwice
<1>1. Init => IInv /\ JInv /\ DrainRight
  BY InitIsRight, InitTells DEF Init
<1>2. IInv /\ JInv /\ DrainRight /\ [Next]_vars => (IInv /\ JInv /\ DrainRight)'
  BY Step, StepTells, StepWaits
<1>3. IInv /\ JInv /\ DrainRight /\ [Next]_vars =>
         [check.at = "owned" /\ check'.at = "sent" /\ check.to \notin AtHost
             => says'[check.to] \cap Read \subseteq strayed]_vars
  BY StepWaits, PromptIsNews
<1> QED
  BY <1>1, <1>2, <1>3, PTL DEF Spec, NotToldTwice

=============================================================================
