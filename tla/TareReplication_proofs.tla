------------------------ MODULE TareReplication_proofs ------------------------
(***************************************************************************)
(* Theorems about TareReplication, for any weighing PCs, pairs, publishers *)
(* and bounds: everything keeps its type, and where a snapshot fits into   *)
(* one part a replica lacks no row of the change it names.                 *)
(***************************************************************************)
EXTENDS TareReplication, SequenceTheorems, FiniteSetTheorems, WellFoundedInduction, TLAPS

LEMMA Bounds ==
  MaxSeq \in Nat /\ MaxConn \in Nat /\ MaxCrash \in Nat /\ MaxLost \in Nat /\ Trimmed \in BOOLEAN
BY BoundsAssumption

(* Of a set of changes there is a newest one. *)
LEMMA Smallest ==
  ASSUME NEW S \in SUBSET Nat, S # {}
  PROVE  \E i \in S : \A j \in S : i <= j
<1> DEFINE R == {e \in Nat \X Nat : e[1] < e[2]}
<1>1. IsWellFoundedOn(R, Nat)
  <2>1. R = OpToRel(<, Nat)  BY DEF OpToRel
  <2> QED  BY <2>1, NatLessThanWellFounded
<1>2. \A x, y \in Nat : y < x => <<y, x>> \in R  OBVIOUS
<1> HIDE DEF R
<1>3. \E i \in S : \A j \in S : ~(<<j, i>> \in R)  BY <1>1, WFMin
<1>4. PICK i \in S : \A j \in S : ~(<<j, i>> \in R)  BY <1>3
<1>5. \A j \in S : i <= j
  <2> SUFFICES ASSUME NEW j \in S PROVE i <= j  OBVIOUS
  <2>1. i \in Nat /\ j \in Nat  OBVIOUS
  <2>2. ~(j < i)  BY <1>2, <1>4, <2>1
  <2> QED  BY <2>1, <2>2
<1> QED  BY <1>5

LEMMA Largest ==
  ASSUME NEW n \in Nat, NEW S \in SUBSET (0 .. n), S # {}
  PROVE  \E i \in S : \A j \in S : j <= i
<1> DEFINE T == {n - i : i \in S}
<1>1. T \in SUBSET Nat /\ T # {}
  <2>1. \A i \in S : n - i \in Nat  OBVIOUS
  <2> QED  BY <2>1
<1>2. PICK t \in T : \A u \in T : t <= u  BY <1>1, Smallest
<1>3. PICK i \in S : t = n - i  OBVIOUS
<1>4. \A j \in S : j <= i
  <2> SUFFICES ASSUME NEW j \in S PROVE j <= i  OBVIOUS
  <2>1. n - j \in T  OBVIOUS
  <2>2. n - i <= n - j  BY <1>2, <1>3, <2>1
  <2> QED  BY <2>2
<1> QED  BY <1>4

-----------------------------------------------------------------------------
(***************************************************************************)
(* The registry as of a change.                                            *)
(***************************************************************************)
Newest(S) == CHOOSE i \in S : \A j \in S : j <= i

LEMMA NewestOf ==
  ASSUME NEW n \in Nat, NEW S \in SUBSET (0 .. n), S # {}
  PROVE  Newest(S) \in S
<1>1. \E i \in S : \A j \in S : j <= i  BY Largest
<1> QED  BY <1>1 DEF Newest

LEMMA RowIs ==
  ASSUME NEW p, NEW n
  PROVE  Row(p, n) = IF ChangesOf(p, n) = {} \/ ~log[Newest(ChangesOf(p, n))].row
                     THEN 0 ELSE Newest(ChangesOf(p, n))
BY DEF Row, LastChange, Newest

LEMMA RowType ==
  ASSUME NEW p, NEW n \in Nat
  PROVE  Row(p, n) \in 0 .. n
<1>1. ChangesOf(p, n) \in SUBSET (0 .. n)  BY DEF ChangesOf
<1>2. ChangesOf(p, n) # {} => Newest(ChangesOf(p, n)) \in 0 .. n  BY <1>1, NewestOf
<1> QED  BY <1>2, RowIs

(* No change of the pair, no change of its row. *)
LEMMA RowSame ==
  ASSUME NEW p, NEW i, NEW j, ChangesOf(p, i) = ChangesOf(p, j)
  PROVE  Row(p, i) = Row(p, j)
BY RowIs

(* A longer journal says the same of what it already had. *)
LEMMA RowStable ==
  ASSUME NEW p, NEW n \in 0 .. Len(log), Len(log) \in Nat,
         \A i \in 1 .. Len(log) : log'[i] = log[i]
  PROVE  Row(p, n)' = Row(p, n)
<1>1. ChangesOf(p, n)' = ChangesOf(p, n)  BY DEF ChangesOf
<1>2. Row(p, n)' = IF ChangesOf(p, n) = {} \/ ~log'[Newest(ChangesOf(p, n))].row
                   THEN 0 ELSE Newest(ChangesOf(p, n))
  BY <1>1 DEF Row, LastChange, Newest
<1>3. ASSUME ChangesOf(p, n) # {}
      PROVE  log'[Newest(ChangesOf(p, n))] = log[Newest(ChangesOf(p, n))]
  <2>1. ChangesOf(p, n) \in SUBSET (0 .. n)  BY DEF ChangesOf
  <2>2. Newest(ChangesOf(p, n)) \in ChangesOf(p, n)
    <3>1. n \in Nat  OBVIOUS
    <3> QED  BY <1>3, <2>1, <3>1, NewestOf
  <2>3. Newest(ChangesOf(p, n)) \in 1 .. n  BY <2>2 DEF ChangesOf
  <2> QED  BY <2>3
<1> QED  BY <1>2, <1>3, RowIs

(* A change makes the journal longer by one. *)
LEMMA LogGrows ==
  ASSUME NEW E, log \in Seq(E), NEW e \in E, log' = Append(log, e)
  PROVE  /\ log' \in Seq(E) /\ Len(log) \in Nat /\ Len(log') = Len(log) + 1
         /\ \A i \in 1 .. Len(log) : log'[i] = log[i]
BY AppendProperties, LenProperties

-----------------------------------------------------------------------------
(***************************************************************************)
(* What the center sends: states of publishers and handlers and queues,    *)
(* for any set M of messages and any set C of numbers of the journal.      *)
(***************************************************************************)
Pub(C, M) ==
  [pc : {"idle", "saved", "seq", "data", "send"}, to : SUBSET Agent, at : Agent \cup {None},
   since : Seqno \cup {None}, current : C, parts : Seq(M), rest : Seq(M)]
Handler(C, M) ==
  [pc : {"off", "recv", "seq", "data", "loaded", "send"}, since : Seqno \cup {None},
   current : C, rest : Seq(M)]
Channels(M) == [Agent -> [Conn -> Seq(M)]]

(* A publisher at work has something to send. *)
Loaded == \A b \in Publisher : pub[b].pc = "send" => pub[b].to = {} \/ pub[b].parts # <<>>

LEMMA Wider ==
  ASSUME NEW C, NEW D, C \subseteq D, NEW M, NEW N, M \subseteq N
  PROVE  /\ Pub(C, M) \subseteq Pub(D, N) /\ Handler(C, M) \subseteq Handler(D, N)
         /\ Channels(M) \subseteq Channels(N)
<1>1. Seq(M) \subseteq Seq(N)  BY SeqMonotonic
<1>2. Pub(C, M) \subseteq Pub(D, N)
  <2> SUFFICES ASSUME NEW x \in Pub(C, M) PROVE x \in Pub(D, N)  OBVIOUS
  <2>1. x.parts \in Seq(N) /\ x.rest \in Seq(N) /\ x.current \in D  BY <1>1 DEF Pub
  <2>2. x = [pc |-> x.pc, to |-> x.to, at |-> x.at, since |-> x.since, current |-> x.current,
             parts |-> x.parts, rest |-> x.rest]
    BY DEF Pub
  <2> QED  BY <2>1, <2>2 DEF Pub
<1>3. Handler(C, M) \subseteq Handler(D, N)
  <2> SUFFICES ASSUME NEW x \in Handler(C, M) PROVE x \in Handler(D, N)  OBVIOUS
  <2>1. x.rest \in Seq(N) /\ x.current \in D  BY <1>1 DEF Handler
  <2>2. x = [pc |-> x.pc, since |-> x.since, current |-> x.current, rest |-> x.rest]
    BY DEF Handler
  <2> QED  BY <2>1, <2>2 DEF Handler
<1>4. Channels(M) \subseteq Channels(N)
  <2> SUFFICES ASSUME NEW f \in Channels(M) PROVE f \in Channels(N)  OBVIOUS
  <2>1. \A a \in Agent, k \in Conn : f[a][k] \in Seq(N)  BY <1>1 DEF Channels
  <2> QED  BY <2>1 DEF Channels
<1> QED  BY <1>2, <1>3, <1>4

(* Messages sent, received and lost. *)
LEMMA ChannelAppend ==
  ASSUME NEW M, NEW ch \in Channels(M), NEW a \in Agent, NEW k \in Conn, NEW m \in M
  PROVE  [ch EXCEPT ![a][k] = Append(@, m)] \in Channels(M)
<1>1. Append(ch[a][k], m) \in Seq(M)  BY DEF Channels
<1> QED  BY <1>1 DEF Channels

LEMMA ChannelTail ==
  ASSUME NEW M, NEW ch \in Channels(M), NEW a \in Agent, NEW k \in Conn, ch[a][k] # <<>>
  PROVE  /\ Head(ch[a][k]) \in M
         /\ [ch EXCEPT ![a][k] = Tail(@)] \in Channels(M)
<1>1. ch[a][k] \in Seq(M)  BY DEF Channels
<1>2. Head(ch[a][k]) \in M /\ Tail(ch[a][k]) \in Seq(M)  BY <1>1, HeadTailProperties
<1> QED  BY <1>2 DEF Channels

LEMMA ChannelPrefix ==
  ASSUME NEW M, NEW ch \in Channels(M), NEW a \in Agent, NEW k \in Conn,
         NEW n \in 0 .. Len(ch[a][k])
  PROVE  [ch EXCEPT ![a][k] = SubSeq(@, 1, n)] \in Channels(M)
<1>1. ch[a][k] \in Seq(M)  BY DEF Channels
<1>2. n \in Int /\ \A i \in 1 .. n : ch[a][k][i] \in M  BY <1>1, ElementOfSeq, LenProperties
<1>3. SubSeq(ch[a][k], 1, n) \in Seq(M)  BY <1>2, SubSeqProperties
<1> QED  BY <1>3 DEF Channels

LEMMA ChannelEmpty ==
  ASSUME NEW M, NEW ch \in Channels(M), NEW a \in Agent, NEW k \in Conn
  PROVE  [ch EXCEPT ![a][k] = <<>>] \in Channels(M)
<1>1. <<>> \in Seq(M)  BY EmptySeq
<1> QED  BY <1>1 DEF Channels

(* The steps of a publisher and of a handler on their own state. *)
LEMMA PubFields ==
  ASSUME NEW C, NEW M, NEW x \in Pub(C, M), 0 \in C
  PROVE  /\ Idle \in Pub(C, M) /\ [x EXCEPT !.pc = "saved"] \in Pub(C, M)
         /\ \A T \in SUBSET Agent, n \in Seqno \cup {None} :
              [Idle EXCEPT !.pc = "seq", !.to = T, !.since = n] \in Pub(C, M)
         /\ \A c \in C : [x EXCEPT !.pc = "data", !.current = c] \in Pub(C, M)
         /\ \A T \in SUBSET Agent, q \in Seq(M) :
              [x EXCEPT !.pc = "send", !.parts = q, !.to = T] \in Pub(C, M)
         /\ \A T \in SUBSET Agent, q \in Seq(M), z \in Agent \cup {None} :
              [x EXCEPT !.to = T, !.rest = q, !.at = z] \in Pub(C, M)
<1>1. <<>> \in Seq(M)  BY EmptySeq
<1>2. Idle \in Pub(C, M)  BY <1>1 DEF Idle, Pub
<1> HIDE DEF Idle
<1> USE DEF Pub
<1>3. [x EXCEPT !.pc = "saved"] \in Pub(C, M)  OBVIOUS
<1>4. \A T \in SUBSET Agent, n \in Seqno \cup {None} :
        [Idle EXCEPT !.pc = "seq", !.to = T, !.since = n] \in Pub(C, M)
  BY <1>2
<1>5. \A c \in C : [x EXCEPT !.pc = "data", !.current = c] \in Pub(C, M)  OBVIOUS
<1>6. \A T \in SUBSET Agent, q \in Seq(M) :
        [x EXCEPT !.pc = "send", !.parts = q, !.to = T] \in Pub(C, M)
  OBVIOUS
<1>7. \A T \in SUBSET Agent, q \in Seq(M), z \in Agent \cup {None} :
        [x EXCEPT !.to = T, !.rest = q, !.at = z] \in Pub(C, M)
  OBVIOUS
<1> QED  BY <1>2, <1>3, <1>4, <1>5, <1>6, <1>7

LEMMA HandlerFields ==
  ASSUME NEW C, NEW M, NEW x \in Handler(C, M), 0 \in C
  PROVE  /\ Off \in Handler(C, M) /\ Recv \in Handler(C, M)
         /\ \A n \in Seqno \cup {None} : [Recv EXCEPT !.pc = "seq", !.since = n] \in Handler(C, M)
         /\ \A c \in C : [x EXCEPT !.pc = "data", !.current = c] \in Handler(C, M)
         /\ \A q \in Seq(M) : [x EXCEPT !.pc = "loaded", !.rest = q] \in Handler(C, M)
         /\ \A q \in Seq(M) : [Recv EXCEPT !.pc = "send", !.rest = q] \in Handler(C, M)
<1>1. <<>> \in Seq(M)  BY EmptySeq
<1>2. Off \in Handler(C, M) /\ Recv \in Handler(C, M)  BY <1>1 DEF Off, Recv, Handler
<1> HIDE DEF Recv
<1> USE DEF Handler
<1>3. \A n \in Seqno \cup {None} : [Recv EXCEPT !.pc = "seq", !.since = n] \in Handler(C, M)
  BY <1>2
<1>4. \A c \in C : [x EXCEPT !.pc = "data", !.current = c] \in Handler(C, M)  OBVIOUS
<1>5. \A q \in Seq(M) : [x EXCEPT !.pc = "loaded", !.rest = q] \in Handler(C, M)  OBVIOUS
<1>6. \A q \in Seq(M) : [Recv EXCEPT !.pc = "send", !.rest = q] \in Handler(C, M)  BY <1>2
<1> QED  BY <1>2, <1>3, <1>4, <1>5, <1>6

-----------------------------------------------------------------------------
(***************************************************************************)
(* The steps of what the center sends.                                     *)
(***************************************************************************)
Publishers(C, M) == [Publisher -> Pub(C, M)]
Handlers(C, M)   == [Agent -> [Conn -> Handler(C, M)]]

(* What any load has to send, it has from M. *)
FromLoads(C, M) ==
  \A since \in Seqno \cup {None}, n \in C : \A parts \in Loads(since, n) : parts \in Seq(M)

Reached == link \in [Agent -> Conn] /\ sess \in [Agent -> Conn] /\ nconn \in [Agent -> Conn]

LEMMA SendDownType ==
  ASSUME NEW M, down \in Channels(M), NEW a \in Agent, NEW k \in Conn, NEW m \in M,
         SendDown(a, k, m)
  PROVE  down' \in Channels(M)
BY ChannelAppend DEF SendDown

LEMMA PublisherSends ==
  ASSUME NEW C, NEW M, 0 \in C, Len(log) \in C, FromLoads(C, M), Reached, Loaded,
         hubLast \in Seqno \cup {None},
         pub \in Publishers(C, M), hdl \in Handlers(C, M), down \in Channels(M),
         NEW b \in Publisher,
         \/ \E p \in Pair, row \in BOOLEAN : Change(b, p, row)
         \/ LosePublication(b) \/ PublishStep(b)
  PROVE  /\ pub' \in Publishers(C, M) /\ hdl' \in Handlers(C, M) /\ down' \in Channels(M)
         /\ Loaded'
<1>0. pub[b] \in Pub(C, M)  BY DEF Publishers
<1>1. ASSUME NEW x \in Pub(C, M), pub' = [pub EXCEPT ![b] = x],
             x.pc = "send" => x.to = {} \/ x.parts # <<>>, UNCHANGED <<hdl, down>>
      PROVE  /\ pub' \in Publishers(C, M) /\ hdl' \in Handlers(C, M) /\ down' \in Channels(M)
             /\ Loaded'
  <2>1. pub' \in Publishers(C, M)  BY <1>1 DEF Publishers
  <2>2. \A c \in Publisher : pub'[c] = IF c = b THEN x ELSE pub[c]  BY <1>1 DEF Publishers
  <2> QED  BY <1>1, <2>1, <2>2 DEF Loaded
<1>2. Idle.pc = "idle"  BY DEF Idle
<1>3. ASSUME NEW p \in Pair, NEW row \in BOOLEAN, Change(b, p, row)
      PROVE  /\ pub' \in Publishers(C, M) /\ hdl' \in Handlers(C, M) /\ down' \in Channels(M)
             /\ Loaded'
  <2> DEFINE x == [pub[b] EXCEPT !.pc = "saved"]
  <2>1. pub' = [pub EXCEPT ![b] = x] /\ UNCHANGED <<hdl, down>>
    BY <1>3 DEF Change, wireVars, Publishers
  <2>2. x \in Pub(C, M) /\ x.pc = "saved"  BY <1>0, PubFields DEF Pub
  <2> HIDE DEF x
  <2> QED  BY <1>1, <2>1, <2>2
<1>4. CASE LosePublication(b)
  <2>1. Idle \in Pub(C, M)  BY <1>0, PubFields
  <2> QED  BY <1>1, <1>2, <1>4, <2>1 DEF LosePublication, wireVars
<1>5. CASE PublishStart(b)
  <2> DEFINE x == [Idle EXCEPT !.pc = "seq", !.to = DeltaTareScaleIds, !.since = hubLast]
  <2>1. pub' = [pub EXCEPT ![b] = x] /\ UNCHANGED <<hdl, down>>
    BY <1>5 DEF PublishStart, wireVars
  <2>2. DeltaTareScaleIds \in SUBSET Agent  BY DEF DeltaTareScaleIds
  <2>3. x \in Pub(C, M)  BY <1>0, <2>2, PubFields
  <2>4. x.pc = "seq"  BY DEF Idle
  <2> HIDE DEF x
  <2> QED  BY <1>1, <2>1, <2>3, <2>4
<1>6. CASE PublishSeq(b)
  <2> DEFINE x == [pub[b] EXCEPT !.pc = "data", !.current = Len(log)]
  <2>1. pub' = [pub EXCEPT ![b] = x] /\ UNCHANGED <<hdl, down>>
    BY <1>6 DEF PublishSeq, wireVars
  <2>2. x \in Pub(C, M)  BY <1>0, PubFields
  <2>3. x.pc = "data"  BY <1>0 DEF Pub
  <2> HIDE DEF x
  <2> QED  BY <1>1, <2>1, <2>2, <2>3
<1>7. CASE PublishData(b)
  <2>1. PICK parts \in IF pub[b].to = {} THEN {<<>>} ELSE Loads(pub[b].since, pub[b].current) :
          pub' = [pub EXCEPT ![b].pc = "send", ![b].parts = parts,
                             ![b].to = IF parts = <<>> THEN {} ELSE @]
    BY <1>7 DEF PublishData
  <2> DEFINE T == IF parts = <<>> THEN {} ELSE pub[b].to
             x == [pub[b] EXCEPT !.pc = "send", !.parts = parts, !.to = T]
  <2>2. parts \in Seq(M)
    <3>1. CASE pub[b].to = {}  BY <2>1, <3>1, EmptySeq
    <3>2. CASE pub[b].to # {}
      BY <1>0, <2>1, <3>2 DEF FromLoads, Pub
    <3> QED  BY <3>1, <3>2
  <2>3. T \in SUBSET Agent  BY <1>0 DEF Pub
  <2>4. pub' = [pub EXCEPT ![b] = x] /\ UNCHANGED <<hdl, down>>
    BY <1>7, <2>1 DEF PublishData, wireVars
  <2>5. x.to = T /\ x.parts = parts  BY <1>0 DEF Pub
  <2>6. x \in Pub(C, M)
    <3> HIDE DEF T
    <3> QED  BY <1>0, <2>2, <2>3, PubFields
  <2>7. x.to = {} \/ x.parts # <<>>  BY <2>5
  <2> HIDE DEF x
  <2> QED  BY <1>1, <2>4, <2>6, <2>7
<1>8. ASSUME NEW a \in Agent, PublishSend(b, a)
      PROVE  /\ pub' \in Publishers(C, M) /\ hdl' \in Handlers(C, M) /\ down' \in Channels(M)
             /\ Loaded'
  <2> DEFINE rest == IF pub[b].rest = <<>> THEN pub[b].parts ELSE pub[b].rest
             Went(left) == [pub[b] EXCEPT !.to = @ \ {a}, !.rest = left,
                                          !.at = IF left = <<>> THEN None ELSE a]
  <2>1. rest \in Seq(M) /\ rest # <<>>
    <3>1. pub[b].rest \in Seq(M) /\ pub[b].parts \in Seq(M)  BY <1>0 DEF Pub
    <3>2. pub[b].rest = <<>> => a \in pub[b].to /\ pub[b].pc = "send"  BY <1>8 DEF PublishSend
    <3>3. pub[b].rest = <<>> => pub[b].parts # <<>>  BY <3>2 DEF Loaded
    <3> QED  BY <3>1, <3>3
  <2>2. ASSUME NEW left \in Seq(M), pub' = [pub EXCEPT ![b] = Went(left)]
        PROVE  pub' \in Publishers(C, M) /\ Loaded'
    <3> DEFINE T == pub[b].to \ {a}
               z == IF left = <<>> THEN None ELSE a
               x == [pub[b] EXCEPT !.to = T, !.rest = left, !.at = z]
    <3>1. T \in SUBSET Agent /\ z \in Agent \cup {None}  BY <1>0 DEF Pub
    <3>2. x \in Pub(C, M)
      <4> HIDE DEF T, z
      <4> QED  BY <1>0, <3>1, PubFields
    <3>3. x.to = T /\ x.parts = pub[b].parts  BY <1>0 DEF Pub
    <3>4. Went(left) = x  OBVIOUS
    <3>5. T = {} \/ x.parts # <<>>
      <4>1. pub[b].pc = "send"  BY <1>8 DEF PublishSend
      <4>2. pub[b].to = {} \/ pub[b].parts # <<>>  BY <4>1 DEF Loaded
      <4> QED  BY <3>3, <4>2
    <3>6. pub' = [pub EXCEPT ![b] = x]  BY <2>2, <3>4
    <3>7. x.to = {} \/ x.parts # <<>>  BY <3>3, <3>5
    <3> HIDE DEF x, Went
    <3>8. pub' \in Publishers(C, M)  BY <3>2, <3>6 DEF Publishers
    <3>9. \A c \in Publisher : pub'[c] = IF c = b THEN x ELSE pub[c]  BY <3>6 DEF Publishers
    <3> QED  BY <3>7, <3>8, <3>9 DEF Loaded
  <2>3. hdl' = hdl  BY <1>8 DEF PublishSend
  <2>4. CASE /\ link[a] # 0 /\ SendDown(a, link[a], Head(rest))
             /\ pub' = [pub EXCEPT ![b] = Went(Tail(rest))]
    <3>1. Head(rest) \in M /\ Tail(rest) \in Seq(M)  BY <2>1, HeadTailProperties
    <3>2. link[a] \in Conn  BY DEF Reached
    <3> HIDE DEF rest, Went
    <3>3. down' \in Channels(M)  BY <2>4, <3>1, <3>2, SendDownType
    <3> QED  BY <2>2, <2>3, <2>4, <3>1, <3>3
  <2>5. CASE pub' = [pub EXCEPT ![b] = Went(<<>>)] /\ UNCHANGED down
    <3>1. <<>> \in Seq(M)  BY EmptySeq
    <3> HIDE DEF rest, Went
    <3> QED  BY <2>2, <2>3, <2>5, <3>1
  <2> QED  BY <1>8, <2>4, <2>5 DEF PublishSend
<1>9. CASE PublishEnd(b)
  <2>1. Idle \in Pub(C, M)  BY <1>0, PubFields
  <2> QED  BY <1>1, <1>2, <1>9, <2>1 DEF PublishEnd, wireVars
<1> QED  BY <1>3, <1>4, <1>5, <1>6, <1>7, <1>8, <1>9 DEF PublishStep

LEMMA HandlerSends ==
  ASSUME NEW C, NEW M, 0 \in C, Len(log) \in C, FromLoads(C, M), Reached,
         up \in Channels(UpMsg), hdl \in Handlers(C, M), down \in Channels(M),
         NEW a \in Agent, NEW k \in Conn, HandlerStep(a, k) \/ HandlerEnd(a, k)
  PROVE  pub' = pub /\ hdl' \in Handlers(C, M) /\ down' \in Channels(M)
<1>0. hdl[a][k] \in Handler(C, M)  BY DEF Handlers
<1>1. ASSUME NEW h \in Handler(C, M), hdl' = [hdl EXCEPT ![a][k] = h]
      PROVE  hdl' \in Handlers(C, M)
  BY <1>1 DEF Handlers
<1>2. ASSUME NEW n \in Seqno \cup {None}, Sync(a, k, n) PROVE hdl' \in Handlers(C, M)
  <2> DEFINE h == [Recv EXCEPT !.pc = "seq", !.since = n]
  <2>1. h \in Handler(C, M)  BY <1>0, HandlerFields
  <2>2. hdl' = [hdl EXCEPT ![a][k] = h]  BY <1>2 DEF Sync
  <2> HIDE DEF h
  <2> QED  BY <1>1, <2>1, <2>2
<1>3. ASSUME up[a][k] # <<>> PROVE Head(up[a][k]).seq \in Seqno \cup {None}
  <2>1. Head(up[a][k]) \in UpMsg  BY <1>3, ChannelTail
  <2> QED  BY <2>1 DEF UpMsg
<1>4. CASE HandleHello(a, k) \/ HandleHeartbeat(a, k) \/ HandleSyncRequest(a, k)
  <2>1. UNCHANGED <<pub, down>>  BY <1>4 DEF HandleHello, HandleHeartbeat, HandleSyncRequest
  <2>2. up[a][k] # <<>> /\ (Sync(a, k, Head(up[a][k]).seq) \/ UNCHANGED hdl)
    BY <1>4 DEF HandleHello, HandleHeartbeat, HandleSyncRequest
  <2> QED  BY <1>2, <1>3, <2>1, <2>2
<1>5. CASE SyncSeq(a, k)
  <2> DEFINE h == [hdl[a][k] EXCEPT !.pc = "data", !.current = Len(log)]
  <2>1. h \in Handler(C, M)  BY <1>0, HandlerFields
  <2>2. hdl' = [hdl EXCEPT ![a][k] = h]  BY <1>5 DEF SyncSeq
  <2> HIDE DEF h
  <2> QED  BY <1>1, <1>5, <2>1, <2>2 DEF SyncSeq, wireVars
<1>6. CASE SyncData(a, k)
  <2>1. PICK parts \in Loads(hdl[a][k].since, hdl[a][k].current) :
          hdl' = [hdl EXCEPT ![a][k].pc = "loaded", ![a][k].rest = parts]
    BY <1>6 DEF SyncData
  <2> DEFINE h == [hdl[a][k] EXCEPT !.pc = "loaded", !.rest = parts]
  <2>2. parts \in Seq(M)  BY <1>0, <2>1 DEF FromLoads, Handler
  <2>3. h \in Handler(C, M)  BY <1>0, <2>2, HandlerFields
  <2>4. hdl' = [hdl EXCEPT ![a][k] = h]  BY <2>1
  <2> HIDE DEF h
  <2> QED  BY <1>1, <1>6, <2>3, <2>4 DEF SyncData, wireVars
<1>7. CASE SyncSend(a, k)
  <2> DEFINE rest == hdl[a][k].rest
  <2>0. rest \in Seq(M) /\ pub' = pub  BY <1>0, <1>7 DEF Handler, SyncSend
  <2>1. CASE rest = <<>>
    <3>1. hdl' = [hdl EXCEPT ![a][k] = Recv] /\ down' = down
      BY <1>7, <2>1 DEF SyncSend, SendRest
    <3>2. Recv \in Handler(C, M)  BY <1>0, HandlerFields
    <3> QED  BY <1>1, <2>0, <3>1, <3>2
  <2>2. CASE rest # <<>>
    <3> DEFINE h == IF Len(rest) = 1 THEN Recv ELSE [Recv EXCEPT !.pc = "send", !.rest = Tail(rest)]
    <3>1. SendDown(a, k, Head(rest)) /\ hdl' = [hdl EXCEPT ![a][k] = h]
      BY <1>7, <2>2 DEF SyncSend, SendRest
    <3>2. Head(rest) \in M /\ Tail(rest) \in Seq(M)  BY <2>0, <2>2, HeadTailProperties
    <3>3. Recv \in Handler(C, M) /\ [Recv EXCEPT !.pc = "send", !.rest = Tail(rest)] \in Handler(C, M)
      BY <1>0, <3>2, HandlerFields
    <3>4. h \in Handler(C, M)  BY <3>3
    <3> HIDE DEF h, rest
    <3>5. down' \in Channels(M)  BY <3>1, <3>2, SendDownType
    <3> QED  BY <1>1, <2>0, <3>1, <3>4, <3>5
  <2> QED  BY <2>1, <2>2
<1>8. CASE HandlerEnd(a, k)
  <2>1. Off \in Handler(C, M)  BY <1>0, HandlerFields
  <2> QED  BY <1>1, <1>8, <2>1 DEF HandlerEnd
<1> QED  BY <1>4, <1>5, <1>6, <1>7, <1>8 DEF HandlerStep

LEMMA AgentSends ==
  ASSUME NEW C, NEW M, 0 \in C, Reached, hdl \in Handlers(C, M), down \in Channels(M),
         NEW a \in Agent, Connect(a) \/ AgentDrop(a) \/ Heartbeat(a) \/ Receive(a)
  PROVE  pub' = pub /\ hdl' \in Handlers(C, M) /\ down' \in Channels(M)
<1>0. sess[a] \in Conn  BY DEF Reached
<1>1. CASE Connect(a)
  <2> DEFINE k == nconn[a] + 1
  <2>1. k \in Conn
    <3>1. nconn[a] \in Conn /\ nconn[a] < MaxConn  BY <1>1 DEF Connect, Reached
    <3> QED  BY <3>1, Bounds DEF Conn
  <2>2. hdl' = [hdl EXCEPT ![a][k] = Recv] /\ UNCHANGED <<pub, down>>  BY <1>1 DEF Connect
  <2> HIDE DEF k
  <2>3. hdl[a][k] \in Handler(C, M)  BY <2>1 DEF Handlers
  <2>4. Recv \in Handler(C, M)  BY <2>3, HandlerFields
  <2> QED  BY <2>1, <2>2, <2>4 DEF Handlers
<1>2. CASE AgentDrop(a)
  <2>1. down' = [down EXCEPT ![a][sess[a]] = <<>>] /\ UNCHANGED <<pub, hdl>>
    BY <1>2 DEF AgentDrop, centerVars
  <2> QED  BY <1>0, <2>1, ChannelEmpty
<1>3. CASE Heartbeat(a)  BY <1>3 DEF Heartbeat, centerVars
<1>4. CASE Receive(a)
  <2>1. /\ down' = [down EXCEPT ![a][sess[a]] = Tail(@)] /\ down[a][sess[a]] # <<>>
        /\ UNCHANGED <<pub, hdl>>
    BY <1>4 DEF Receive, RecvPart, RecvDelta, centerVars
  <2> QED  BY <1>0, <2>1, ChannelTail
<1> QED  BY <1>1, <1>2, <1>3, <1>4

LEMMA CrashSends ==
  ASSUME NEW C, NEW M, 0 \in C, down \in Channels(M), CenterCrash
  PROVE  /\ pub' \in Publishers(C, M) /\ hdl' \in Handlers(C, M) /\ down' \in Channels(M)
         /\ Loaded'
<1>1. <<>> \in Seq(M)  BY EmptySeq
<1>2. Idle \in Pub(C, M)  BY <1>1 DEF Idle, Pub
<1>3. Off \in Handler(C, M)  BY <1>1 DEF Off, Handler
<1>4. Idle.pc = "idle"  BY DEF Idle
<1>5. /\ pub' = [b \in Publisher |-> Idle] /\ down' = down
      /\ hdl' = [a \in Agent |-> [k \in Conn |-> Off]]
  BY DEF CenterCrash
<1> QED  BY <1>2, <1>3, <1>4, <1>5 DEF Publishers, Handlers, Loaded

(* Whatever step is taken, what the center sends it has from M. *)
LEMMA CenterSends ==
  ASSUME NEW C, NEW M, 0 \in C, Len(log) \in C, FromLoads(C, M), Reached, Loaded,
         hubLast \in Seqno \cup {None}, up \in Channels(UpMsg),
         pub \in Publishers(C, M), hdl \in Handlers(C, M), down \in Channels(M), Next
  PROVE  /\ pub' \in Publishers(C, M) /\ hdl' \in Handlers(C, M) /\ down' \in Channels(M)
         /\ Loaded'
<1>1. ASSUME NEW b \in Publisher,
             \/ \E p \in Pair, row \in BOOLEAN : Change(b, p, row)
             \/ LosePublication(b) \/ PublishStep(b)
      PROVE  /\ pub' \in Publishers(C, M) /\ hdl' \in Handlers(C, M) /\ down' \in Channels(M)
             /\ Loaded'
  BY <1>1, PublisherSends
<1>2. pub' = pub => pub' \in Publishers(C, M) /\ Loaded'  BY DEF Loaded
<1>3. ASSUME NEW a \in Agent, Connect(a) \/ AgentDrop(a) \/ Heartbeat(a) \/ Receive(a)
      PROVE  pub' = pub /\ hdl' \in Handlers(C, M) /\ down' \in Channels(M)
  BY <1>3, AgentSends
<1>4. ASSUME NEW a \in Agent, NEW k \in Conn, HandlerStep(a, k) \/ HandlerEnd(a, k)
      PROVE  pub' = pub /\ hdl' \in Handlers(C, M) /\ down' \in Channels(M)
  BY <1>4, HandlerSends
<1>5. CASE CenterCrash  BY <1>5, CrashSends
<1> QED  BY <1>1, <1>2, <1>3, <1>4, <1>5 DEF Next

-----------------------------------------------------------------------------
(***************************************************************************)
(* Types.                                                                  *)
(***************************************************************************)
LEMMA MessageTypes ==
  ASSUME NEW n \in Seqno \cup {None}
  PROVE  HelloMsg(n) \in UpMsg /\ HeartbeatMsg(n) \in UpMsg /\ SyncMsg(n) \in UpMsg
BY DEF HelloMsg, HeartbeatMsg, SyncMsg, UpMsg

LEMMA PartType ==
  ASSUME NEW rows \in Rows, NEW reset \in BOOLEAN, NEW final \in BOOLEAN, NEW n \in Seqno
  PROVE  PartMsg(rows, reset, final, n) \in DownMsg
<1>1. PartMsg(rows, reset, final, n) \in PartMsgs  BY DEF PartMsg, PartMsgs
<1> QED  BY <1>1 DEF DownMsg

LEMMA RegistryType ==
  ASSUME NEW n \in Seqno
  PROVE  Registry(n) \in Rows
<1>1. n \in Nat /\ n <= MaxSeq  BY Bounds DEF Seqno
<1>2. \A p \in Pair : Row(p, n) \in Seqno
  <2> SUFFICES ASSUME NEW p \in Pair PROVE Row(p, n) \in Seqno  OBVIOUS
  <2>1. Row(p, n) \in 0 .. n  BY <1>1, RowType
  <2> QED  BY <1>1, <2>1, Bounds DEF Seqno
<1> QED  BY <1>2 DEF Registry, Rows

(* However the rows are divided, there are parts to number. *)
LEMMA PartCountType ==
  ASSUME NEW D \in SUBSET Pair
  PROVE  PartCount(D) \in Nat
<1>1. Cardinality(D) \in Nat  BY PairAssumption, FS_Subset, FS_CardinalityType
<1>2. ChunkSize \in Nat /\ ChunkSize > 0  BY ChunkAssumption
<1> DEFINE k == Cardinality(D) + ChunkSize - 1
<1>3. k \in Nat  BY <1>1, <1>2
<1> HIDE DEF k
<1>4. k \div ChunkSize \in Nat  BY <1>2, <1>3
<1> QED  BY <1>4 DEF PartCount, k

LEMMA SnapshotsType ==
  ASSUME NEW rows \in Rows, NEW n \in Seqno, NEW parts \in Snapshots(rows, n)
  PROVE  parts \in Seq(DownMsg)
<1> DEFINE D == {p \in Pair : rows[p] # 0}
           L == PartCount(D)
           Some(part, i) == [p \in Pair |-> IF p \in D THEN (IF part[p] = i THEN rows[p] ELSE 0) ELSE 0]
           Msg(part, i) == PartMsg(Some(part, i), i = 1, i = L, n)
<1>1. PICK part \in Divisions(D) : parts = [i \in 1 .. L |-> Msg(part, i)]  BY DEF Snapshots
<1>2. L \in Nat  BY PartCountType
<1>3. 0 \in Seqno  BY Bounds DEF Seqno
<1>4. \A i \in 1 .. L : Some(part, i) \in Rows  BY <1>3 DEF Rows
<1> HIDE DEF D, L, Some
<1>5. \A i \in 1 .. L : Msg(part, i) \in DownMsg
  <2> SUFFICES ASSUME NEW i \in 1 .. L PROVE Msg(part, i) \in DownMsg  OBVIOUS
  <2>1. (i = 1) \in BOOLEAN /\ (i = L) \in BOOLEAN  OBVIOUS
  <2> QED  BY <1>4, <2>1, PartType
<1> HIDE DEF Msg
<1> QED  BY <1>1, <1>2, <1>5, IsASeq

LEMMA DeltaType ==
  ASSUME NEW since \in Seqno, NEW last \in Seqno
  PROVE  DeltaMsg(since, last) \in DownMsg
<1>1. DeltaMsg(since, last) \in DeltaMsgs  BY DEF DeltaMsg, DeltaMsgs
<1> QED  BY <1>1 DEF DownMsg

LEMMA LoadsType ==
  ASSUME Len(log) \in Seqno
  PROVE  FromLoads(Seqno, DownMsg)
<1> SUFFICES ASSUME NEW since \in Seqno \cup {None}, NEW n \in Seqno,
                    NEW parts \in Loads(since, n)
             PROVE  parts \in Seq(DownMsg)
  BY DEF FromLoads
<1>1. CASE ~CanDelta(since)
  <2>1. parts \in Snapshots(Registry(Len(log)), n)  BY <1>1 DEF Loads
  <2> QED  BY <2>1, RegistryType, SnapshotsType
<1>2. CASE CanDelta(since)
  <2>1. since \in Seqno  BY <1>2 DEF CanDelta
  <2>2. DeltaMsg(since, Len(log)) \in DownMsg  BY <2>1, DeltaType
  <2>3. parts = <<>> \/ parts = <<DeltaMsg(since, Len(log))>>  BY <1>2 DEF Loads
  <2>4. ASSUME NEW m \in DownMsg PROVE <<>> \in Seq(DownMsg) /\ <<m>> \in Seq(DownMsg)  OBVIOUS
  <2> QED  BY <2>2, <2>3, <2>4
<1> QED  BY <1>1, <1>2

-----------------------------------------------------------------------------
(***************************************************************************)
(* Type correctness: everything but what the center sends.                 *)
(***************************************************************************)
LogTypes ==
  /\ log \in Seq([pair : Pair, row : BOOLEAN]) /\ Len(log) <= MaxSeq
  /\ oldest \in 1 .. MaxSeq + 1
Flags == known \in [Agent -> BOOLEAN] /\ inProgress \in [Agent -> BOOLEAN]
RowTypes == replica \in [Agent -> Rows] /\ staging \in [Agent -> Rows]
SeqTypes ==
  /\ hubLast \in Seqno \cup {None}
  /\ aseq \in [Agent -> Seqno \cup {None}] /\ seen \in [Agent -> Seqno \cup {None}]
Counters == crashes \in Nat /\ lost \in Nat
OtherTypes ==
  LogTypes /\ Flags /\ RowTypes /\ SeqTypes /\ Reached /\ up \in Channels(UpMsg) /\ Counters
SentTypes ==
  /\ pub \in Publishers(Seqno, DownMsg) /\ hdl \in Handlers(Seqno, DownMsg)
  /\ down \in Channels(DownMsg)

LEMMA TypeParts == TypeOK <=> OtherTypes /\ SentTypes
BY DEF TypeOK, OtherTypes, SentTypes, LogTypes, Flags, RowTypes, SeqTypes, Counters, Reached,
       Channels, Publishers, Handlers, Pub, Handler, PubState, HandlerState

LEMMA LogLength ==
  ASSUME LogTypes
  PROVE  Len(log) \in Nat /\ Len(log) \in Seqno
BY Bounds, LenProperties DEF LogTypes, Seqno

LEMMA PublisherTypes ==
  ASSUME OtherTypes, SentTypes, NEW b \in Publisher,
         \/ \E p \in Pair, row \in BOOLEAN : Change(b, p, row)
         \/ LosePublication(b) \/ PublishStep(b)
  PROVE  OtherTypes'
<1>1. ASSUME NEW p \in Pair, NEW row \in BOOLEAN, Change(b, p, row) PROVE OtherTypes'
  <2>1. LogTypes'
    <3> DEFINE e == [pair |-> p, row |-> row]
    <3>1. e \in [pair : Pair, row : BOOLEAN]  OBVIOUS
    <3>2. log' = Append(log, e) /\ Len(log) < MaxSeq
          /\ (oldest' = oldest \/ oldest' = Len(log) + 1)
      BY <1>1 DEF Change, RecordTareChange
    <3> HIDE DEF e
    <3>3. log' \in Seq([pair : Pair, row : BOOLEAN]) /\ Len(log) \in Nat /\ Len(log') = Len(log) + 1
      BY <3>1, <3>2, LogGrows DEF OtherTypes, LogTypes
    <3> QED  BY <3>2, <3>3, Bounds DEF OtherTypes, LogTypes
  <2> QED  BY <1>1, <2>1 DEF Change, OtherTypes, Flags, RowTypes, SeqTypes, Reached, Counters,
              wireVars, sessVars, agentVars, boundVars
<1>2. CASE LosePublication(b)
  BY <1>2 DEF LosePublication, OtherTypes, LogTypes, Flags, RowTypes, SeqTypes, Reached, Counters,
              dbVars, wireVars, sessVars, agentVars
<1>3. ASSUME PublishStart(b) \/ PublishSeq(b) \/ PublishData(b) \/ \E a \in Agent : PublishSend(b, a)
      PROVE  OtherTypes'
  <2>1. UNCHANGED <<dbVars, hubLast, link, known, up, sessVars, agentVars, boundVars>>
    BY <1>3 DEF PublishStart, PublishSeq, PublishData, PublishSend, wireVars
  <2> QED  BY <2>1 DEF OtherTypes, LogTypes, Flags, RowTypes, SeqTypes, Reached, Counters,
              dbVars, sessVars, agentVars, boundVars
<1>4. CASE PublishEnd(b)
  <2>1. pub[b].current \in Seqno  BY DEF SentTypes, Publishers, Pub
  <2> QED  BY <1>4, <2>1 DEF PublishEnd, OtherTypes, LogTypes, Flags, RowTypes, SeqTypes, Reached,
              Counters, dbVars, wireVars, sessVars, agentVars, boundVars
<1> QED  BY <1>1, <1>2, <1>3, <1>4 DEF PublishStep

LEMMA HandlerTypes ==
  ASSUME OtherTypes, SentTypes, NEW a \in Agent, NEW k \in Conn, HandlerStep(a, k) \/ HandlerEnd(a, k)
  PROVE  OtherTypes'
<1> USE DEF OtherTypes, LogTypes, RowTypes, SeqTypes, Reached, Counters,
            dbVars, wireVars, sessVars, agentVars, boundVars
<1>1. CASE HandleHello(a, k)
  <2>1. up' = [up EXCEPT ![a][k] = Tail(@)] /\ up[a][k] # <<>>  BY <1>1 DEF HandleHello
  <2>2. up' \in Channels(UpMsg)  BY <2>1, ChannelTail
  <2>3. Flags'  BY <1>1 DEF HandleHello, Flags
  <2> QED  BY <1>1, <2>2, <2>3 DEF HandleHello
<1>2. CASE HandleHeartbeat(a, k) \/ HandleSyncRequest(a, k)
  <2>1. up' = [up EXCEPT ![a][k] = Tail(@)] /\ up[a][k] # <<>>
    BY <1>2 DEF HandleHeartbeat, HandleSyncRequest
  <2>2. up' \in Channels(UpMsg)  BY <2>1, ChannelTail
  <2>3. UNCHANGED <<dbVars, hubLast, link, known, sessVars, agentVars, boundVars>>
    BY <1>2 DEF HandleHeartbeat, HandleSyncRequest
  <2> QED  BY <2>2, <2>3 DEF Flags
<1>3. CASE SyncSeq(a, k) \/ SyncData(a, k)
  BY <1>3 DEF SyncSeq, SyncData, Flags
<1>4. CASE SyncSend(a, k)
  <2>1. hdl[a][k].current \in Seqno  BY DEF SentTypes, Handlers, Handler
  <2>2. hubLast' \in Seqno \cup {None}  BY <1>4, <2>1 DEF SyncSend
  <2>3. UNCHANGED <<dbVars, link, known, up, sessVars, agentVars, boundVars>>
    BY <1>4 DEF SyncSend
  <2> QED  BY <2>2, <2>3 DEF Flags
<1>5. CASE HandlerEnd(a, k)
  <2>1. up' \in Channels(UpMsg)  BY <1>5, ChannelEmpty DEF HandlerEnd
  <2>2. link' \in [Agent -> Conn]
    <3>1. 0 \in Conn  BY Bounds DEF Conn
    <3> QED  BY <1>5, <3>1 DEF HandlerEnd
  <2>3. Flags'  BY <1>5 DEF HandlerEnd, Flags
  <2>4. UNCHANGED <<dbVars, hubLast, sessVars, agentVars, boundVars>>  BY <1>5 DEF HandlerEnd
  <2> QED  BY <2>1, <2>2, <2>3, <2>4
<1> QED  BY <1>1, <1>2, <1>3, <1>4, <1>5 DEF HandlerStep

LEMMA SendUpType ==
  ASSUME up \in Channels(UpMsg), Reached, NEW a \in Agent, NEW m \in UpMsg, SendUp(a, m)
  PROVE  up' \in Channels(UpMsg)
<1>1. sess[a] \in Conn  BY DEF Reached
<1> QED  BY <1>1, ChannelAppend DEF SendUp

LEMMA PutType ==
  ASSUME NEW old \in Rows, NEW new \in Rows
  PROVE  Put(old, new) \in Rows
BY DEF Put, Rows

LEMMA NoRowsType == NoRows \in Rows /\ 0 \in Seqno /\ 0 \in Conn
BY Bounds DEF NoRows, Rows, Seqno, Conn

(* The head of the queue of the session, as a part and as a delta. *)
LEMMA HeadType ==
  ASSUME OtherTypes, SentTypes, NEW a \in Agent, down[a][sess[a]] # <<>>
  PROVE  LET m == Head(down[a][sess[a]]) IN
           /\ m \in DownMsg
           /\ m.type = "part" =>
                /\ m.rows \in Rows /\ m.seq \in Seqno
                /\ m.reset \in BOOLEAN /\ m.final \in BOOLEAN
           /\ m.type = "delta" => m.since \in Seqno /\ m.last \in Seqno
<1> DEFINE m == Head(down[a][sess[a]])
<1>1. sess[a] \in Conn /\ down \in Channels(DownMsg)  BY DEF OtherTypes, Reached, SentTypes
<1>2. m \in DownMsg  BY <1>1, ChannelTail
<1> HIDE DEF m
<1>3. m.type = "part" => m \in PartMsgs  BY <1>2 DEF DownMsg, DeltaMsgs
<1>4. m.type = "delta" => m \in DeltaMsgs  BY <1>2 DEF DownMsg, PartMsgs
<1> QED  BY <1>2, <1>3, <1>4 DEF PartMsgs, DeltaMsgs, m

LEMMA RecvPartTypes ==
  ASSUME OtherTypes, SentTypes, NEW a \in Agent, RecvPart(a)
  PROVE  OtherTypes'
<1> DEFINE m == Head(down[a][sess[a]])
           first == m.reset \/ ~inProgress[a]
           rows  == Put(IF first THEN NoRows ELSE staging[a], m.rows)
<1>1. ApplyPart(a, m) /\ UNCHANGED <<dbVars, centerVars, sessVars, boundVars>>
  BY DEF RecvPart
<1>2. m.rows \in Rows /\ m.seq \in Seqno /\ m.final \in BOOLEAN  BY HeadType DEF RecvPart
<1> HIDE DEF m
<1>3. rows \in Rows
  <2>1. (IF first THEN NoRows ELSE staging[a]) \in Rows  BY NoRowsType DEF OtherTypes, RowTypes
  <2> HIDE DEF first
  <2> QED  BY <1>2, <2>1, PutType
<1> HIDE DEF rows
<1>4. CASE m.final
  <2>1. /\ replica' = [replica EXCEPT ![a] = rows]
        /\ aseq' = [aseq EXCEPT ![a] = m.seq]
        /\ staging' = [staging EXCEPT ![a] = NoRows]
        /\ inProgress' = [inProgress EXCEPT ![a] = FALSE]
        /\ seen' = [seen EXCEPT ![a] = None]
        /\ SendUp(a, SyncMsg(m.seq)) \/ UNCHANGED up
    BY <1>1, <1>4 DEF ApplyPart, rows
  <2>2. RowTypes'  BY <1>3, <2>1, NoRowsType DEF OtherTypes, RowTypes
  <2>3. SeqTypes'  BY <1>1, <1>2, <2>1 DEF OtherTypes, SeqTypes, centerVars
  <2>4. Flags'  BY <1>1, <2>1 DEF OtherTypes, Flags, centerVars
  <2>5. up' \in Channels(UpMsg)
    <3>1. SyncMsg(m.seq) \in UpMsg  BY <1>2, MessageTypes
    <3> QED  BY <2>1, <3>1, SendUpType DEF OtherTypes
  <2> QED  BY <1>1, <2>2, <2>3, <2>4, <2>5
           DEF OtherTypes, LogTypes, Reached, Counters, dbVars, centerVars, sessVars, boundVars
<1>5. CASE ~m.final
  <2>1. /\ staging' = [staging EXCEPT ![a] = rows]
        /\ inProgress' = [inProgress EXCEPT ![a] = TRUE]
        /\ seen' = [seen EXCEPT ![a] = None] \/ seen' = seen
        /\ UNCHANGED <<replica, aseq, up>>
    BY <1>1, <1>5 DEF ApplyPart, rows
  <2>2. RowTypes'  BY <1>3, <2>1 DEF OtherTypes, RowTypes
  <2>3. SeqTypes'  BY <1>1, <2>1 DEF OtherTypes, SeqTypes, centerVars
  <2>4. Flags'  BY <1>1, <2>1 DEF OtherTypes, Flags, centerVars
  <2> QED  BY <1>1, <2>1, <2>2, <2>3, <2>4
           DEF OtherTypes, LogTypes, Reached, Counters, dbVars, centerVars, sessVars, boundVars
<1> QED  BY <1>4, <1>5

LEMMA RecvDeltaTypes ==
  ASSUME OtherTypes, SentTypes, NEW a \in Agent, RecvDelta(a)
  PROVE  OtherTypes'
<1> DEFINE m == Head(down[a][sess[a]])
<1>1. ApplyDelta(a, m) /\ UNCHANGED <<dbVars, centerVars, sessVars, staging, inProgress, boundVars>>
  BY DEF RecvDelta
<1>2. m.since \in Seqno /\ m.last \in Seqno  BY HeadType DEF RecvDelta
<1> HIDE DEF m
<1>3. aseq[a] \in Seqno \cup {None} /\ replica[a] \in Rows  BY DEF OtherTypes, SeqTypes, RowTypes
<1>4. ApplyChanges(replica[a], aseq[a], m) \in Rows
  <2>1. \A p \in Pair : Row(p, m.last) \in Seqno
    <3> SUFFICES ASSUME NEW p \in Pair PROVE Row(p, m.last) \in Seqno  OBVIOUS
    <3>1. m.last \in Nat /\ m.last <= MaxSeq  BY <1>2, Bounds DEF Seqno
    <3>2. Row(p, m.last) \in 0 .. m.last  BY <3>1, RowType
    <3> QED  BY <3>1, <3>2, Bounds DEF Seqno
  <2> QED  BY <1>3, <2>1 DEF ApplyChanges, Rows
<1>5. RowTypes'
  <2>1. replica' = replica \/ replica' = [replica EXCEPT ![a] = ApplyChanges(replica[a], aseq[a], m)]
    BY <1>1 DEF ApplyDelta
  <2> QED  BY <1>1, <1>4, <2>1 DEF OtherTypes, RowTypes
<1>6. SeqTypes'
  <2>1. /\ aseq' = aseq \/ aseq' = [aseq EXCEPT ![a] = m.last]
        /\ seen' = seen \/ \E x \in {m.last, seen[a]} : seen' = [seen EXCEPT ![a] = x]
    BY <1>1 DEF ApplyDelta
  <2>2. seen[a] \in Seqno \cup {None}  BY DEF OtherTypes, SeqTypes
  <2> QED  BY <1>1, <1>2, <2>1, <2>2 DEF OtherTypes, SeqTypes, centerVars
<1>7. Flags'  BY <1>1 DEF OtherTypes, Flags, centerVars
<1>8. up' \in Channels(UpMsg)
  <2>1. SyncMsg(aseq[a]) \in UpMsg  BY <1>3, MessageTypes
  <2>2. SendUp(a, SyncMsg(aseq[a])) \/ UNCHANGED up  BY <1>1 DEF ApplyDelta
  <2> QED  BY <2>1, <2>2, SendUpType DEF OtherTypes
<1> QED  BY <1>1, <1>5, <1>6, <1>7, <1>8
         DEF OtherTypes, LogTypes, Reached, Counters, dbVars, centerVars, sessVars, boundVars

LEMMA AgentTypes ==
  ASSUME OtherTypes, SentTypes, NEW a \in Agent,
         Connect(a) \/ AgentDrop(a) \/ Heartbeat(a) \/ Receive(a)
  PROVE  OtherTypes'
<1>0. sess[a] \in Conn /\ nconn[a] \in Conn /\ aseq[a] \in Seqno \cup {None}
  BY DEF OtherTypes, Reached, SeqTypes
<1>1. CASE Connect(a)
  <2> DEFINE k == nconn[a] + 1
             m == HelloMsg(aseq[a])
  <2>1. k \in Conn
    <3>1. nconn[a] < MaxConn  BY <1>1 DEF Connect
    <3> QED  BY <1>0, <3>1, Bounds DEF Conn
  <2>2. m \in UpMsg  BY <1>0, MessageTypes
  <2>3. /\ nconn' = [nconn EXCEPT ![a] = k] /\ sess' = [sess EXCEPT ![a] = k]
        /\ link' = [link EXCEPT ![a] = k] /\ known' = [known EXCEPT ![a] = FALSE]
        /\ up' = [up EXCEPT ![a][k] = <<m>>]
        /\ UNCHANGED <<dbVars, hubLast, agentVars, boundVars>>
    BY <1>1 DEF Connect
  <2> HIDE DEF k, m
  <2>4. Reached'  BY <2>1, <2>3 DEF OtherTypes, Reached
  <2>5. up' \in Channels(UpMsg)
    <3>1. <<m>> \in Seq(UpMsg)  BY <2>2
    <3> QED  BY <2>1, <2>3, <3>1 DEF OtherTypes, Channels
  <2>6. Flags'  BY <2>3 DEF OtherTypes, Flags, agentVars
  <2> QED  BY <2>3, <2>4, <2>5, <2>6
           DEF OtherTypes, LogTypes, RowTypes, SeqTypes, Counters, dbVars, agentVars, boundVars
<1>2. CASE AgentDrop(a)
  <2>1. up' \in Channels(UpMsg)
    <3>1. PICK n \in 0 .. Len(up[a][sess[a]]) : up' = [up EXCEPT ![a][sess[a]] = SubSeq(@, 1, n)]
      BY <1>2 DEF AgentDrop
    <3> QED  BY <1>0, <3>1, ChannelPrefix DEF OtherTypes
  <2>2. /\ sess' = [sess EXCEPT ![a] = 0] /\ inProgress' = [inProgress EXCEPT ![a] = FALSE]
        /\ seen' = [seen EXCEPT ![a] = None]
        /\ UNCHANGED <<dbVars, centerVars, nconn, replica, aseq, staging, boundVars>>
    BY <1>2 DEF AgentDrop
  <2>3. Reached'  BY <2>2, NoRowsType DEF OtherTypes, Reached, centerVars
  <2>4. Flags'  BY <2>2 DEF OtherTypes, Flags, centerVars
  <2>5. SeqTypes'  BY <2>2 DEF OtherTypes, SeqTypes, centerVars
  <2> QED  BY <2>1, <2>2, <2>3, <2>4, <2>5
           DEF OtherTypes, LogTypes, RowTypes, Counters, dbVars, boundVars
<1>3. CASE Heartbeat(a)
  <2>1. HeartbeatMsg(aseq[a]) \in UpMsg  BY <1>0, MessageTypes
  <2>2. up' \in Channels(UpMsg)  BY <1>3, <2>1, SendUpType DEF Heartbeat, OtherTypes
  <2>3. UNCHANGED <<dbVars, centerVars, sessVars, agentVars, boundVars>>  BY <1>3 DEF Heartbeat
  <2> QED  BY <2>2, <2>3 DEF OtherTypes, LogTypes, Flags, RowTypes, SeqTypes, Reached, Counters,
           dbVars, centerVars, sessVars, agentVars, boundVars
<1> QED  BY <1>1, <1>2, <1>3, RecvPartTypes, RecvDeltaTypes DEF Receive

LEMMA CrashTypes ==
  ASSUME OtherTypes, CenterCrash
  PROVE  OtherTypes'
<1>1. /\ crashes' = crashes + 1 /\ hubLast' = None
      /\ link' = [a \in Agent |-> 0] /\ known' = [a \in Agent |-> FALSE]
      /\ up' = [a \in Agent |-> [k \in Conn |-> <<>>]]
      /\ UNCHANGED <<dbVars, down, sessVars, agentVars, lost>>
  BY DEF CenterCrash
<1>2. up' \in Channels(UpMsg)
  <2>1. <<>> \in Seq(UpMsg)  BY EmptySeq
  <2> QED  BY <1>1, <2>1 DEF Channels
<1>3. Reached'  BY <1>1, NoRowsType DEF OtherTypes, Reached, sessVars
<1>4. Flags'  BY <1>1 DEF OtherTypes, Flags, agentVars
<1>5. Counters'  BY <1>1 DEF OtherTypes, Counters
<1> QED  BY <1>1, <1>2, <1>3, <1>4, <1>5
         DEF OtherTypes, LogTypes, RowTypes, SeqTypes, dbVars, agentVars

-----------------------------------------------------------------------------
(***************************************************************************)
(* The inductive type invariant.                                           *)
(***************************************************************************)
TypeInv == TypeOK /\ Loaded

LEMMA TypeInit == Init => TypeInv
<1> SUFFICES ASSUME Init PROVE TypeInv  OBVIOUS
<1> USE DEF Init, InitAt
<1>1. LogTypes
  <2>1. <<>> \in Seq([pair : Pair, row : BOOLEAN]) /\ Len(<<>>) = 0  BY EmptySeq
  <2> QED  BY <2>1, Bounds DEF LogTypes
<1>2. Flags /\ Counters  BY DEF Flags, Counters
<1>3. RowTypes /\ SeqTypes /\ Reached  BY NoRowsType DEF RowTypes, SeqTypes, Reached
<1>4. up \in Channels(UpMsg) /\ down \in Channels(DownMsg)
  <2>1. <<>> \in Seq(UpMsg) /\ <<>> \in Seq(DownMsg)  BY EmptySeq
  <2> QED  BY <2>1 DEF Channels
<1>5. pub \in Publishers(Seqno, DownMsg) /\ hdl \in Handlers(Seqno, DownMsg)
  <2>1. <<>> \in Seq(DownMsg)  BY EmptySeq
  <2>2. Idle \in Pub(Seqno, DownMsg) /\ Off \in Handler(Seqno, DownMsg)
    BY <2>1, NoRowsType DEF Idle, Off, Pub, Handler
  <2> QED  BY <2>2 DEF Publishers, Handlers
<1>6. Loaded  BY DEF Loaded, Idle
<1> QED  BY <1>1, <1>2, <1>3, <1>4, <1>5, <1>6, TypeParts DEF TypeInv, OtherTypes, SentTypes

LEMMA OtherStep ==
  ASSUME OtherTypes, SentTypes, Next
  PROVE  OtherTypes'
<1>1. ASSUME NEW b \in Publisher,
             \/ \E p \in Pair, row \in BOOLEAN : Change(b, p, row)
             \/ LosePublication(b) \/ PublishStep(b)
      PROVE  OtherTypes'
  BY <1>1, PublisherTypes
<1>2. ASSUME NEW a \in Agent, Connect(a) \/ AgentDrop(a) \/ Heartbeat(a) \/ Receive(a)
      PROVE  OtherTypes'
  BY <1>2, AgentTypes
<1>3. ASSUME NEW a \in Agent, NEW k \in Conn, HandlerStep(a, k) \/ HandlerEnd(a, k)
      PROVE  OtherTypes'
  BY <1>3, HandlerTypes
<1> HIDE DEF OtherTypes
<1> QED  BY <1>1, <1>2, <1>3, CrashTypes DEF Next

LEMMA TypeStep ==
  ASSUME TypeInv, Next
  PROVE  TypeInv'
<1>1. OtherTypes /\ SentTypes /\ Loaded  BY TypeParts DEF TypeInv
<1>2. Len(log) \in Seqno  BY <1>1, LogLength DEF OtherTypes
<1>3. FromLoads(Seqno, DownMsg)  BY <1>2, LoadsType
<1>4. 0 \in Seqno /\ Reached /\ hubLast \in Seqno \cup {None} /\ up \in Channels(UpMsg)
  BY <1>1, NoRowsType DEF OtherTypes, SeqTypes
<1>5. SentTypes' /\ Loaded'  BY <1>1, <1>2, <1>3, <1>4, CenterSends DEF SentTypes
<1>6. OtherTypes'  BY <1>1, OtherStep
<1>7. TypeOK' <=> OtherTypes' /\ SentTypes'
  BY DEF TypeOK, OtherTypes, SentTypes, LogTypes, Flags, RowTypes, SeqTypes, Counters, Reached,
         Channels, Publishers, Handlers, Pub, Handler, PubState, HandlerState
<1> QED  BY <1>5, <1>6, <1>7 DEF TypeInv

LEMMA TypeStutter ==
  ASSUME TypeInv, UNCHANGED vars
  PROVE  TypeInv'
BY DEF TypeInv, TypeOK, Loaded, vars, dbVars, centerVars, wireVars, sessVars, agentVars, boundVars

(* Whatever is lost, late or overtaken, the queues, the tasks of the       *)
(* center and the replicas hold what they are meant to hold; a publisher   *)
(* that sends has something to send.                                       *)
THEOREM ReplicationTypes == Spec => []TypeInv
<1>1. TypeInv /\ [Next]_vars => TypeInv'  BY TypeStep, TypeStutter
<1> QED  BY <1>1, TypeInit, PTL DEF Spec

-----------------------------------------------------------------------------
(***************************************************************************)
(* A replica lacks no row of the change it names, where any snapshot fits  *)
(* into one part (in several parts, two snapshots on the way may mix: the  *)
(* run mixed_parts).                                                       *)
(*                                                                         *)
(* What is on the way says no more than the journal: a snapshot names a    *)
(* change the rows are at least as new as, a delta ends within the         *)
(* journal. That holds for what tasks have still to send as well, and for  *)
(* the number of the journal they read first.                              *)
(***************************************************************************)
Shows(rows, s) == \A p \in Pair : \E n \in s .. Len(log) : rows[p] = Row(p, n)
Trusty(m) ==
  /\ m.type = "part" => m.reset /\ m.final /\ m.seq <= Len(log) /\ Shows(m.rows, m.seq)
  /\ m.type = "delta" => m.since < m.last /\ m.last <= Len(log)
TrueMsg == {m \in DownMsg : Trusty(m)}

SentTruly ==
  /\ pub \in Publishers(0 .. Len(log), TrueMsg) /\ hdl \in Handlers(0 .. Len(log), TrueMsg)
  /\ down \in Channels(TrueMsg)
WholeOnly == \A a \in Agent : inProgress[a] = FALSE

(* The journal only grows, so what was true of it stays true. *)
JournalKept ==
  /\ Len(log) \in Nat /\ Len(log') \in Nat /\ Len(log) <= Len(log')
  /\ \A i \in 1 .. Len(log) : log'[i] = log[i]

LEMMA JournalStep ==
  ASSUME LogTypes, [Next]_vars
  PROVE  JournalKept
<1>0. Len(log) \in Nat  BY LogLength
<1>1. ASSUME NEW b \in Publisher, NEW p \in Pair, NEW row \in BOOLEAN, Change(b, p, row)
      PROVE  JournalKept
  <2> DEFINE e == [pair |-> p, row |-> row]
  <2>1. e \in [pair : Pair, row : BOOLEAN]  OBVIOUS
  <2>2. log' = Append(log, e)  BY <1>1 DEF Change, RecordTareChange
  <2> HIDE DEF e
  <2> QED  BY <1>0, <2>1, <2>2, LogGrows DEF LogTypes, JournalKept
<1>2. log' = log => JournalKept  BY <1>0 DEF JournalKept
<1>3. ASSUME NEW b \in Publisher, LosePublication(b) \/ PublishStep(b) PROVE log' = log
  BY <1>3 DEF LosePublication, PublishStep, PublishStart, PublishSeq, PublishData, PublishSend,
              PublishEnd, dbVars
<1>4. ASSUME NEW a \in Agent, Connect(a) \/ AgentDrop(a) \/ Heartbeat(a) \/ Receive(a)
      PROVE  log' = log
  BY <1>4 DEF Connect, AgentDrop, Heartbeat, Receive, RecvPart, RecvDelta, dbVars
<1>5. ASSUME NEW a \in Agent, NEW k \in Conn, HandlerStep(a, k) \/ HandlerEnd(a, k)
      PROVE  log' = log
  BY <1>5 DEF HandlerStep, HandleHello, HandleHeartbeat, HandleSyncRequest, SyncSeq, SyncData,
              SyncSend, HandlerEnd, dbVars
<1>6. CenterCrash => log' = log  BY DEF CenterCrash, dbVars
<1>7. UNCHANGED vars => log' = log  BY DEF vars, dbVars
<1> HIDE DEF JournalKept
<1> QED  BY <1>1, <1>2, <1>3, <1>4, <1>5, <1>6, <1>7 DEF Next

LEMMA ShowsStable ==
  ASSUME JournalKept, NEW rows, NEW s \in Nat, Shows(rows, s)
  PROVE  \A p \in Pair : \E n \in s .. Len(log') : rows[p] = Row(p, n)'
<1> SUFFICES ASSUME NEW p \in Pair PROVE \E n \in s .. Len(log') : rows[p] = Row(p, n)'
  OBVIOUS
<1>1. PICK n \in s .. Len(log) : rows[p] = Row(p, n)  BY DEF Shows
<1>2. n \in 0 .. Len(log) /\ n \in s .. Len(log')  BY <1>1 DEF JournalKept
<1>3. Row(p, n)' = Row(p, n)  BY <1>2, RowStable DEF JournalKept
<1> QED  BY <1>1, <1>2, <1>3

LEMMA TrueStable ==
  ASSUME JournalKept
  PROVE  TrueMsg \subseteq TrueMsg'
<1> SUFFICES ASSUME NEW m \in TrueMsg PROVE m \in TrueMsg'  OBVIOUS
<1>1. m \in DownMsg /\ Trusty(m)  BY DEF TrueMsg
<1>2. m.type = "part" => m \in PartMsgs  BY <1>1 DEF DownMsg, DeltaMsgs
<1>3. m.type = "delta" => m \in DeltaMsgs  BY <1>1 DEF DownMsg, PartMsgs
<1>4. ASSUME m.type = "part"
      PROVE  m.reset /\ m.final /\ m.seq <= Len(log') /\ Shows(m.rows, m.seq)'
  <2>1. m.seq \in Nat  BY <1>2, <1>4, Bounds DEF PartMsgs, Seqno
  <2>2. m.reset /\ m.final /\ m.seq <= Len(log) /\ Shows(m.rows, m.seq)
    BY <1>1, <1>4 DEF Trusty
  <2>3. Shows(m.rows, m.seq)'  BY <2>1, <2>2, ShowsStable DEF Shows
  <2> QED  BY <2>1, <2>2, <2>3 DEF JournalKept
<1>5. ASSUME m.type = "delta" PROVE m.since < m.last /\ m.last <= Len(log')
  <2>1. m.last \in Nat  BY <1>3, <1>5, Bounds DEF DeltaMsgs, Seqno
  <2> QED  BY <1>1, <1>5, <2>1 DEF Trusty, JournalKept
<1>6. Trusty(m)'  BY <1>4, <1>5 DEF Trusty
<1>7. DownMsg' = DownMsg  BY DEF DownMsg
<1> QED  BY <1>1, <1>6, <1>7 DEF TrueMsg

-----------------------------------------------------------------------------
(* A snapshot of one part is the registry, and names a change it follows.  *)
OnePart == Cardinality(Pair) <= ChunkSize

LEMMA PartCountOne ==
  ASSUME OnePart, NEW D \in SUBSET Pair
  PROVE  PartCount(D) = 1
<1>1. Cardinality(D) <= Cardinality(Pair)  BY PairAssumption, FS_Subset
<1>2. Cardinality(D) \in Nat /\ Cardinality(Pair) \in Nat
  BY PairAssumption, FS_Subset, FS_CardinalityType
<1>3. Cardinality(D) <= ChunkSize  BY <1>1, <1>2, ChunkAssumption DEF OnePart
<1> QED  BY <1>3 DEF PartCount

LEMMA SnapshotTrue ==
  ASSUME OnePart, Len(log) \in Seqno, Len(log) \in Nat, NEW n \in 0 .. Len(log),
         NEW parts \in Snapshots(Registry(Len(log)), n)
  PROVE  parts \in Seq(TrueMsg)
<1> DEFINE rows == Registry(Len(log))
           D == {p \in Pair : rows[p] # 0}
           Some(part, i) == [p \in Pair |-> IF p \in D THEN (IF part[p] = i THEN rows[p] ELSE 0) ELSE 0]
           m == PartMsg(rows, TRUE, TRUE, n)
<1>1. n \in Seqno /\ n \in Nat  BY Bounds DEF Seqno
<1>2. rows \in Rows  BY RegistryType
<1>3. PartCount(D) = 1  BY PartCountOne
<1>4. PICK part \in Divisions(D) :
        parts = [i \in 1 .. PartCount(D) |-> PartMsg(Some(part, i), i = 1, i = PartCount(D), n)]
  BY DEF Snapshots
<1>5. \A p \in D : part[p] = 1  BY <1>3, <1>4 DEF Divisions
<1> HIDE DEF rows
<1>6. Some(part, 1) = rows  BY <1>2, <1>5 DEF Rows
<1> HIDE DEF D, Some
<1>7. \A i \in 1 .. 1 : PartMsg(Some(part, i), i = 1, i = 1, n) = m
  <2> SUFFICES ASSUME NEW i \in 1 .. 1 PROVE PartMsg(Some(part, i), i = 1, i = 1, n) = m
    OBVIOUS
  <2>1. i = 1  OBVIOUS
  <2>2. (i = 1) = TRUE  BY <2>1
  <2> QED  BY <1>6, <2>1, <2>2 DEF PartMsg
<1>8. m \in TrueMsg
  <2>1. m \in DownMsg  BY <1>1, <1>2, PartType
  <2>2. Shows(rows, n)
    <3>1. Len(log) \in n .. Len(log)  BY <1>1
    <3>2. \A p \in Pair : rows[p] = Row(p, Len(log))  BY DEF rows, Registry
    <3> QED  BY <3>1, <3>2 DEF Shows
  <2>3. Trusty(m)  BY <2>2 DEF Trusty, PartMsg
  <2> HIDE DEF m
  <2> QED  BY <2>1, <2>3 DEF TrueMsg
<1> HIDE DEF m
<1>9. \A i \in 1 .. 1 : parts[i] = m  BY <1>3, <1>4, <1>7
<1>10. parts = [i \in 1 .. 1 |-> m]  BY <1>3, <1>4, <1>7
<1> QED  BY <1>8, <1>10, IsASeq

LEMMA LoadsTrue ==
  ASSUME OnePart, LogTypes
  PROVE  FromLoads(0 .. Len(log), TrueMsg)
<1> SUFFICES ASSUME NEW since \in Seqno \cup {None}, NEW n \in 0 .. Len(log),
                    NEW parts \in Loads(since, n)
             PROVE  parts \in Seq(TrueMsg)
  BY DEF FromLoads
<1>0. Len(log) \in Nat /\ Len(log) \in Seqno  BY LogLength
<1>1. CASE ~CanDelta(since)
  <2>1. parts \in Snapshots(Registry(Len(log)), n)  BY <1>1 DEF Loads
  <2> QED  BY <1>0, <2>1, SnapshotTrue
<1>2. CASE CanDelta(since) /\ since = Len(log)
  BY <1>2, EmptySeq DEF Loads
<1>3. CASE CanDelta(since) /\ since # Len(log)
  <2> DEFINE m == DeltaMsg(since, Len(log))
  <2>1. parts = <<m>>  BY <1>3 DEF Loads
  <2>2. since \in Seqno /\ since <= Len(log)  BY <1>3 DEF CanDelta
  <2>3. since < Len(log)  BY <1>0, <1>3, <2>2, Bounds DEF Seqno
  <2>4. m \in DownMsg  BY <1>0, <2>2, DeltaType
  <2>5. Trusty(m)  BY <1>0, <2>3 DEF Trusty, DeltaMsg
  <2> HIDE DEF m
  <2>6. m \in TrueMsg  BY <2>4, <2>5 DEF TrueMsg
  <2> QED  BY <2>1, <2>6
<1> QED  BY <1>1, <1>2, <1>3

LEMMA SentStep ==
  ASSUME OnePart, OtherTypes, Loaded, SentTruly, Next
  PROVE  SentTruly'
<1> DEFINE C == 0 .. Len(log)
           M == TrueMsg
           D == 0 .. Len(log')
           N == TrueMsg'
<1>1. Len(log) \in Nat /\ Len(log) \in Seqno  BY LogLength DEF OtherTypes
<1>2. FromLoads(C, M)  BY LoadsTrue DEF OtherTypes
<1>3. 0 \in C /\ Len(log) \in C  BY <1>1
<1>4. Reached /\ hubLast \in Seqno \cup {None} /\ up \in Channels(UpMsg)
  BY DEF OtherTypes, SeqTypes
<1>5. pub \in Publishers(C, M) /\ hdl \in Handlers(C, M) /\ down \in Channels(M)
  BY DEF SentTruly
<1>6. JournalKept  BY JournalStep DEF OtherTypes
<1>7. C \subseteq D  BY <1>6 DEF JournalKept
<1>8. M \subseteq N  BY <1>6, TrueStable
<1> HIDE DEF C, M
<1>9. pub' \in Publishers(C, M) /\ hdl' \in Handlers(C, M) /\ down' \in Channels(M)
  BY <1>2, <1>3, <1>4, <1>5, CenterSends
<1> HIDE DEF D, N
<1>10. Pub(C, M) \subseteq Pub(D, N) /\ Handler(C, M) \subseteq Handler(D, N)
       /\ Channels(M) \subseteq Channels(N)
  BY <1>7, <1>8, Wider
<1>11. pub' \in Publishers(D, N) /\ hdl' \in Handlers(D, N) /\ down' \in Channels(N)
  BY <1>9, <1>10 DEF Publishers, Handlers
<1>12. SentTruly' <=> /\ pub' \in Publishers(D, N) /\ hdl' \in Handlers(D, N)
                      /\ down' \in Channels(N)
  BY DEF SentTruly, D, N, Publishers, Handlers, Channels, Pub, Handler
<1> QED  BY <1>11, <1>12

(* What a replica is, before and after a longer journal. *)
LEMMA ReplicaKept ==
  ASSUME OtherTypes, JournalKept, ReplicaSound, NEW a \in Agent,
         replica'[a] = replica[a], aseq'[a] = aseq[a], aseq'[a] # None
  PROVE  aseq'[a] <= Len(log') /\ \A p \in Pair : \E n \in aseq'[a] .. Len(log') :
                                   replica'[a][p] = Row(p, n)'
<1>1. aseq[a] \in Nat  BY Bounds DEF OtherTypes, SeqTypes, Seqno
<1>2. aseq[a] <= Len(log) /\ Shows(replica[a], aseq[a])  BY DEF ReplicaSound, Shows
<1>3. \A p \in Pair : \E n \in aseq[a] .. Len(log') : replica[a][p] = Row(p, n)'
  BY <1>1, <1>2, ShowsStable
<1> QED  BY <1>1, <1>2, <1>3 DEF JournalKept

LEMMA UntouchedStep ==
  ASSUME OtherTypes, JournalKept, ReplicaSound, WholeOnly,
         replica' = replica, aseq' = aseq, inProgress' = inProgress
  PROVE  ReplicaSound' /\ WholeOnly'
BY ReplicaKept DEF ReplicaSound, WholeOnly

(* The part received is the whole registry. *)
LEMMA PartStep ==
  ASSUME OtherTypes, SentTypes, SentTruly, JournalKept, ReplicaSound, WholeOnly,
         NEW a \in Agent, RecvPart(a)
  PROVE  ReplicaSound' /\ WholeOnly'
<1> DEFINE m == Head(down[a][sess[a]])
<1>1. ApplyPart(a, m) /\ UNCHANGED dbVars  BY DEF RecvPart
<1>2. m.rows \in Rows /\ m.seq \in Seqno /\ m.type = "part"  BY HeadType DEF RecvPart
<1>3. m \in TrueMsg
  <2>1. sess[a] \in Conn /\ down[a][sess[a]] # <<>>  BY DEF OtherTypes, Reached, RecvPart
  <2>2. down \in Channels(TrueMsg)  BY DEF SentTruly
  <2> HIDE DEF m
  <2> QED  BY <2>1, <2>2, ChannelTail DEF m
<1> HIDE DEF m
<1>4. m.reset /\ m.final /\ m.seq <= Len(log) /\ Shows(m.rows, m.seq)
  BY <1>2, <1>3 DEF TrueMsg, Trusty
<1>5. /\ replica' = [replica EXCEPT ![a] = Put(NoRows, m.rows)]
      /\ aseq' = [aseq EXCEPT ![a] = m.seq]
      /\ inProgress' = [inProgress EXCEPT ![a] = FALSE]
  BY <1>1, <1>4 DEF ApplyPart
<1>6. Put(NoRows, m.rows) = m.rows  BY <1>2 DEF Put, NoRows, Rows
<1>7. replica'[a] = m.rows /\ aseq'[a] = m.seq
  BY <1>5, <1>6 DEF OtherTypes, RowTypes, SeqTypes
<1>8. \A c \in Agent : c # a => replica'[c] = replica[c] /\ aseq'[c] = aseq[c]
  BY <1>5 DEF OtherTypes, RowTypes, SeqTypes
<1>9. m.seq \in Nat  BY <1>2, Bounds DEF Seqno
<1>10. aseq'[a] <= Len(log') /\ \A p \in Pair : \E n \in aseq'[a] .. Len(log') :
                                 replica'[a][p] = Row(p, n)'
  <2>1. \A p \in Pair : \E n \in m.seq .. Len(log') : m.rows[p] = Row(p, n)'
    BY <1>4, <1>9, ShowsStable
  <2> QED  BY <1>4, <1>7, <1>9, <2>1 DEF JournalKept
<1>11. ReplicaSound'
  <2> SUFFICES ASSUME NEW c \in Agent, aseq'[c] # None
               PROVE  aseq'[c] <= Len(log') /\ \A p \in Pair : \E n \in aseq'[c] .. Len(log') :
                                                replica'[c][p] = Row(p, n)'
    BY DEF ReplicaSound
  <2>1. CASE c = a  BY <1>10, <2>1
  <2>2. CASE c # a  BY <1>8, <2>2, ReplicaKept
  <2> QED  BY <2>1, <2>2
<1>12. WholeOnly'
  <2>1. inProgress \in [Agent -> BOOLEAN]  BY DEF OtherTypes, Flags
  <2> QED  BY <1>5, <2>1, Zenon DEF WholeOnly
<1> QED  BY <1>11, <1>12

(* Between the change a replica names and the end of a delta, a pair is in *)
(* the delta or did not change.                                            *)
LEMMA DeltaShows ==
  ASSUME Len(log) \in Nat, NEW m, m.since \in Nat, m.last \in Nat, NEW own \in Nat,
         m.since <= own, own < m.last, m.last <= Len(log),
         NEW rows \in Rows, Shows(rows, own)
  PROVE  Shows(ApplyChanges(rows, own, m), m.last)
<1> SUFFICES ASSUME NEW p \in Pair
             PROVE  \E n \in m.last .. Len(log) : ApplyChanges(rows, own, m)[p] = Row(p, n)
  BY DEF Shows
<1>0. m.last \in m.last .. Len(log)  OBVIOUS
<1>1. CASE Fresh(p, own, m) # {}
  BY <1>0, <1>1 DEF ApplyChanges
<1>2. CASE Fresh(p, own, m) = {}
  <2>1. ApplyChanges(rows, own, m)[p] = rows[p]  BY <1>2 DEF ApplyChanges
  <2>2. PICK n \in own .. Len(log) : rows[p] = Row(p, n)  BY DEF Shows
  <2>3. CASE n >= m.last
    <3>1. n \in m.last .. Len(log)  BY <2>3
    <3> QED  BY <2>1, <2>2, <3>1
  <2>4. CASE n < m.last
    <3>1. ChangesOf(p, n) = ChangesOf(p, m.last)
      <4>1. ChangesOf(p, n) \subseteq ChangesOf(p, m.last)  BY <2>4 DEF ChangesOf
      <4>2. ASSUME NEW i \in ChangesOf(p, m.last) PROVE i \in ChangesOf(p, n)
        <5>1. i \in 1 .. m.last /\ log[i].pair = p  BY DEF ChangesOf
        <5>2. ~(i > m.since /\ i > own)  BY <1>2 DEF Fresh
        <5>3. i \in 1 .. n  BY <5>1, <5>2
        <5> QED  BY <5>1, <5>3 DEF ChangesOf
      <4> QED  BY <4>1, <4>2
    <3>2. Row(p, n) = Row(p, m.last)  BY <3>1, RowSame
    <3> QED  BY <1>0, <2>1, <2>2, <3>2
  <2> QED  BY <2>3, <2>4
<1> QED  BY <1>1, <1>2

LEMMA DeltaStep ==
  ASSUME OtherTypes, SentTypes, SentTruly, JournalKept, ReplicaSound, WholeOnly,
         NEW a \in Agent, RecvDelta(a)
  PROVE  ReplicaSound' /\ WholeOnly'
<1> DEFINE m == Head(down[a][sess[a]])
<1>1. ApplyDelta(a, m) /\ UNCHANGED <<dbVars, inProgress>>  BY DEF RecvDelta
<1>2. m.since \in Seqno /\ m.last \in Seqno /\ m.type = "delta"  BY HeadType DEF RecvDelta
<1>3. m \in TrueMsg
  <2>1. sess[a] \in Conn /\ down[a][sess[a]] # <<>>  BY DEF OtherTypes, Reached, RecvDelta
  <2>2. down \in Channels(TrueMsg)  BY DEF SentTruly
  <2> HIDE DEF m
  <2> QED  BY <2>1, <2>2, ChannelTail DEF m
<1> HIDE DEF m
<1>4. m.since < m.last /\ m.last <= Len(log)  BY <1>2, <1>3 DEF TrueMsg, Trusty
<1>5. inProgress[a] = FALSE  BY DEF WholeOnly
<1>6. CASE UNCHANGED <<replica, aseq>>  BY <1>1, <1>6, UntouchedStep
<1>7. CASE /\ Continues(a, m) /\ m.last > aseq[a]
           /\ replica' = [replica EXCEPT ![a] = ApplyChanges(replica[a], aseq[a], m)]
           /\ aseq' = [aseq EXCEPT ![a] = m.last]
  <2> DEFINE own == aseq[a]
             rows == ApplyChanges(replica[a], own, m)
  <2>1. m.since \in Nat /\ m.last \in Nat /\ Len(log) \in Nat
    BY <1>2, Bounds DEF Seqno, JournalKept
  <2>2. own # None /\ m.since <= own /\ own < m.last  BY <1>7, <2>1 DEF Continues
  <2>3. own \in Nat  BY <2>2, Bounds DEF OtherTypes, SeqTypes, Seqno
  <2>4. replica[a] \in Rows /\ Shows(replica[a], own)
    BY <2>2 DEF OtherTypes, RowTypes, ReplicaSound, Shows
  <2>5. own < m.last  BY <1>7, <2>1, <2>3
  <2> HIDE DEF own
  <2>6. Shows(rows, m.last)  BY <1>4, <2>1, <2>2, <2>3, <2>4, <2>5, DeltaShows
  <2>7. replica'[a] = rows /\ aseq'[a] = m.last
    BY <1>7 DEF OtherTypes, RowTypes, SeqTypes, own
  <2>8. \A c \in Agent : c # a => replica'[c] = replica[c] /\ aseq'[c] = aseq[c]
    BY <1>7 DEF OtherTypes, RowTypes, SeqTypes
  <2> HIDE DEF rows
  <2>9. \A p \in Pair : \E n \in m.last .. Len(log') : rows[p] = Row(p, n)'
    BY <2>1, <2>6, ShowsStable
  <2>10. ReplicaSound'
    <3> SUFFICES ASSUME NEW c \in Agent, aseq'[c] # None
                 PROVE  aseq'[c] <= Len(log') /\ \A p \in Pair : \E n \in aseq'[c] .. Len(log') :
                                                  replica'[c][p] = Row(p, n)'
      BY DEF ReplicaSound
    <3>1. CASE c = a  BY <1>4, <2>1, <2>7, <2>9, <3>1 DEF JournalKept
    <3>2. CASE c # a  BY <2>8, <3>2, ReplicaKept
    <3> QED  BY <3>1, <3>2
  <2> QED  BY <1>1, <2>10 DEF WholeOnly
<1>8. \/ UNCHANGED <<replica, aseq>>
      \/ /\ Continues(a, m) /\ m.last > aseq[a]
         /\ replica' = [replica EXCEPT ![a] = ApplyChanges(replica[a], aseq[a], m)]
         /\ aseq' = [aseq EXCEPT ![a] = m.last]
  BY <1>1, <1>5 DEF ApplyDelta
<1> QED  BY <1>6, <1>7, <1>8

LEMMA DropStep ==
  ASSUME OtherTypes, JournalKept, ReplicaSound, WholeOnly, NEW a \in Agent, AgentDrop(a)
  PROVE  ReplicaSound' /\ WholeOnly'
<1>1. UNCHANGED <<replica, aseq>> /\ inProgress' = [inProgress EXCEPT ![a] = FALSE]
  BY DEF AgentDrop
<1>2. ReplicaSound'  BY <1>1, ReplicaKept DEF ReplicaSound
<1>3. WholeOnly'
  <2>1. inProgress \in [Agent -> BOOLEAN]  BY DEF OtherTypes, Flags
  <2> QED  BY <1>1, <2>1, Zenon DEF WholeOnly
<1> QED  BY <1>2, <1>3

(* Steps that leave the replicas alone. *)
LEMMA OtherSteps ==
  ASSUME Next
  PROVE  \/ replica' = replica /\ aseq' = aseq /\ inProgress' = inProgress
         \/ \E a \in Agent : AgentDrop(a) \/ Receive(a)
<1> DEFINE Same == replica' = replica /\ aseq' = aseq /\ inProgress' = inProgress
<1>1. ASSUME NEW b \in Publisher, NEW p \in Pair, NEW row \in BOOLEAN, Change(b, p, row)
      PROVE  Same
  BY <1>1 DEF Change, agentVars
<1>2. ASSUME NEW b \in Publisher, LosePublication(b) \/ PublishStep(b) PROVE Same
  BY <1>2 DEF LosePublication, PublishStep, PublishStart, PublishSeq, PublishData, PublishSend,
              PublishEnd, agentVars
<1>3. ASSUME NEW a \in Agent, Connect(a) \/ Heartbeat(a) PROVE Same
  BY <1>3 DEF Connect, Heartbeat, agentVars
<1>4. ASSUME NEW a \in Agent, NEW k \in Conn, HandlerStep(a, k) \/ HandlerEnd(a, k) PROVE Same
  BY <1>4 DEF HandlerStep, HandleHello, HandleHeartbeat, HandleSyncRequest, SyncSeq, SyncData,
              SyncSend, HandlerEnd, agentVars
<1>5. CenterCrash => Same  BY DEF CenterCrash, agentVars
<1> HIDE DEF Same
<1>6. Same \/ \E a \in Agent : AgentDrop(a) \/ Receive(a)
  BY <1>1, <1>2, <1>3, <1>4, <1>5 DEF Next
<1> QED  BY <1>6 DEF Same

SoundInv == TypeInv /\ SentTruly /\ WholeOnly /\ ReplicaSound

LEMMA SoundInit == Init => SoundInv
<1> SUFFICES ASSUME Init PROVE SoundInv  OBVIOUS
<1>1. log = <<>> /\ Len(log) = 0  BY EmptySeq DEF Init, InitAt
<1>2. SentTruly
  <2>1. <<>> \in Seq(TrueMsg)  BY EmptySeq
  <2>2. 0 \in 0 .. Len(log)  BY <1>1
  <2>3. Idle \in Pub(0 .. Len(log), TrueMsg) /\ Off \in Handler(0 .. Len(log), TrueMsg)
    BY <2>1, <2>2 DEF Idle, Off, Pub, Handler
  <2> QED  BY <2>1, <2>3 DEF Init, InitAt, SentTruly, Publishers, Handlers, Channels
<1>3. WholeOnly /\ ReplicaSound  BY DEF Init, InitAt, WholeOnly, ReplicaSound
<1> QED  BY <1>2, <1>3, TypeInit DEF SoundInv

LEMMA SoundStep ==
  ASSUME OnePart, SoundInv, Next
  PROVE  SoundInv'
<1>1. OtherTypes /\ SentTypes /\ Loaded /\ SentTruly /\ WholeOnly /\ ReplicaSound
  BY TypeParts DEF SoundInv, TypeInv
<1>2. JournalKept  BY <1>1, JournalStep DEF OtherTypes
<1>3. TypeInv' /\ SentTruly'  BY <1>1, TypeStep, SentStep DEF SoundInv
<1>4. ASSUME NEW a \in Agent, AgentDrop(a) \/ Receive(a)
      PROVE  ReplicaSound' /\ WholeOnly'
  BY <1>1, <1>2, <1>4, DropStep, PartStep, DeltaStep DEF Receive
<1>5. ReplicaSound' /\ WholeOnly'  BY <1>1, <1>2, <1>4, OtherSteps, UntouchedStep
<1> QED  BY <1>3, <1>5 DEF SoundInv

LEMMA SoundStutter ==
  ASSUME SoundInv, UNCHANGED vars
  PROVE  SoundInv'
<1>1. UNCHANGED <<log, pub, hdl, down, inProgress, replica, aseq>>
  BY DEF vars, dbVars, centerVars, wireVars, agentVars
<1>2. \A p, n : Row(p, n)' = Row(p, n)  BY <1>1 DEF Row, LastChange, ChangesOf
<1>3. TypeInv'  BY TypeStutter DEF SoundInv
<1>4. TrueMsg' = TrueMsg  BY <1>1, <1>2 DEF TrueMsg, Trusty, Shows
<1>5. SentTruly'  BY <1>1, <1>4 DEF SoundInv, SentTruly, Publishers, Handlers, Channels, Pub, Handler
<1>6. ReplicaSound' /\ WholeOnly'  BY <1>1, <1>2 DEF SoundInv, ReplicaSound, WholeOnly
<1> QED  BY <1>3, <1>5, <1>6 DEF SoundInv

(* Where any snapshot fits into one part (SNAPSHOT_CHUNK_RECORDS rows), a  *)
(* replica that names change n never lacks a row of it, for any number of  *)
(* changes, of publishers at work and of connections, and over restarts of *)
(* the center and lost messages (_apply_tare_snapshot, _apply_tare_delta). *)
THEOREM ReplicaInvariant ==
  ASSUME Cardinality(Pair) <= ChunkSize
  PROVE  Spec => []ReplicaInv
<1>1. OnePart  BY DEF OnePart
<1>2. SoundInv /\ [Next]_vars => SoundInv'  BY <1>1, SoundStep, SoundStutter
<1>3. SoundInv => ReplicaInv  BY DEF SoundInv, TypeInv, ReplicaInv
<1> QED  BY <1>2, <1>3, SoundInit, PTL DEF Spec
==================
