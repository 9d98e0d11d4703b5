-------------------------- MODULE TransfersProofs --------------------------
(***************************************************************************)
(* Proofs about Transfers for every value of its constants: that files     *)
(* stay whole and are not replaced, that references are given back, and,   *)
(* for files of less than 4 GiB, that downloads send what was promised and *)
(* join up when they are resumed.                                          *)
(***************************************************************************)
EXTENDS Transfers, SequenceTheorems, FiniteSetTheorems, TLAPS

\* An upload approved to a name was approved when the name was free.
UploadsNew == \A r \in DOMAIN grant : grant[r].kind = "upload" => grant[r].was = Absent

\* What a connection does is what its reference was granted for.
Served ==
    /\ conn.stage \in {"open", "send"} /\ grant[conn.ref].kind = "download"
         => conn.path = grant[conn.ref].path
    /\ conn.stage \in {"forks", "body"} /\ grant[conn.ref].kind = "upload"
         => conn.path = grant[conn.ref].path

\* What has been written of the upload that is going on.
Incoming ==
    conn.stage = "body" =>
        /\ conn.got <= SizeOf[conn.version]
        /\ dir[Incomplete(conn.path)] = Part(conn.version, conn.got)

IInv == TypeOK /\ UploadsNew /\ Served /\ Incoming /\ SlotsFreed

\* The beginning of something a client has uploaded.
IsPart(data) == \E v \in Versions : \E k \in 0 .. SizeOf[v] : data = Part(v, k)

Parts == /\ \A p \in Paths : dir[p] # Absent => IsPart(dir[p])
         /\ conn.stage = "send" => IsPart(conn.data)

\* The units of a client's copy are in order.
Ordered ==
    \A p \in Paths : \A i \in DOMAIN have[p] :
        \E v \in Versions : i <= SizeOf[v] /\ have[p][i] = <<v, i>>

\* A download asks for what its client does not have, and promises that.
Asked ==
    \A r \in DOMAIN grant : LET g == grant[r] IN
        g.kind = "download" =>
            /\ ~g.resume => g.asked = 0
            /\ g.promised = Promised(Len(g.was), g.asked)
            /\ r \notin ended /\ ~(conn.stage = "send" /\ conn.ref = r) => Len(have[g.path]) = g.asked

\* A client waits for one download of a file before it asks for the next.
OneWaits ==
    \A q, r \in DOMAIN grant \ ended :
        grant[q].kind = "download" /\ grant[r].kind = "download" /\ grant[q].path = grant[r].path
            => q = r

\* A download is as far as the client's copy is.
Position ==
    conn.stage = "send" /\ grant[conn.ref].kind = "download" =>
        /\ conn.at = AtMost(grant[conn.ref].asked, Len(conn.data)) + conn.sent
        /\ conn.at <= Len(conn.data)
        /\ conn.at < Len(conn.data) => conn.at = Len(have[conn.path])

DInv == Parts /\ Ordered /\ Asked /\ OneWaits /\ Position

\* No file reaches 4 GiB.
SizesBelow == \A v \in Versions : Overhead + SizeOf[v] < Wire

-----------------------------------------------------------------------------
(* Files and paths. *)

LEMMA PartFacts ==
    ASSUME NEW v \in Versions, NEW k \in 0 .. SizeOf[v]
    PROVE  /\ Part(v, k) \in Seq(Units) /\ Len(Part(v, k)) = k
           /\ \A i \in 1 .. k : Part(v, k)[i] = <<v, i>>
<1>1. k \in Nat /\ \A i \in 1 .. k : <<v, i>> \in Units
    BY SizesFit DEF Units
<1>2. Part(v, k) \in Seq(Units)
    BY <1>1 DEF Part
<1>3. Len(Part(v, k)) = k
    BY <1>1 DEF Part
<1>4. QED BY <1>2, <1>3 DEF Part

LEMMA PartGrows ==
    ASSUME NEW v \in Versions, NEW k \in Nat, k < SizeOf[v]
    PROVE  Overwritten(Part(v, k), k + 1, <<v, k + 1>>) = Part(v, k + 1)
<1> DEFINE s == Append(Part(v, k), <<v, k + 1>>)
           t == Part(v, k + 1)
<1>1. k \in 0 .. SizeOf[v] /\ k + 1 \in 0 .. SizeOf[v] /\ <<v, k + 1>> \in Units
    BY SizesFit DEF Units
<1>2. /\ Part(v, k) \in Seq(Units) /\ Len(Part(v, k)) = k
      /\ \A i \in 1 .. k : Part(v, k)[i] = <<v, i>>
    BY <1>1, PartFacts
<1>3. /\ t \in Seq(Units) /\ Len(t) = k + 1 /\ \A i \in 1 .. k + 1 : t[i] = <<v, i>>
    BY <1>1, PartFacts
<1>4. /\ s \in Seq(Units) /\ Len(s) = k + 1 /\ s[k + 1] = <<v, k + 1>>
      /\ \A i \in 1 .. k : s[i] = <<v, i>>
    BY <1>1, <1>2, AppendProperties
<1>5. Overwritten(Part(v, k), k + 1, <<v, k + 1>>) = s
    BY <1>2 DEF Overwritten
<1> HIDE DEF s, t
<1>6. \A i \in 1 .. k + 1 : s[i] = t[i]
    <2>1. SUFFICES ASSUME NEW i \in 1 .. k + 1 PROVE s[i] = t[i]
        OBVIOUS
    <2>2. i \in 1 .. k \/ i = k + 1
        OBVIOUS
    <2>3. t[i] = <<v, i>>
        BY <1>3
    <2>4. CASE i \in 1 .. k
        BY <1>4, <2>3, <2>4
    <2>5. CASE i = k + 1
        BY <1>4, <2>3, <2>5
    <2>6. QED BY <2>2, <2>4, <2>5
<1>7. s = t
    BY <1>3, <1>4, <1>6, SeqEqual
<1>8. QED BY <1>5, <1>7 DEF t

LEMMA WholeIsPart ==
    ASSUME NEW v \in Versions
    PROVE  /\ SizeOf[v] \in 0 .. SizeOf[v] /\ Whole(v) \in Seq(Units)
           /\ IsPart(Whole(v)) /\ Whole(v) = Part(v, SizeOf[v])
<1>1. SizeOf[v] \in 0 .. SizeOf[v]
    BY SizesFit
<1>2. QED BY <1>1, PartFacts DEF Whole, IsPart

LEMMA PathFacts ==
    ASSUME NEW n \in Names
    PROVE  /\ n \in Paths /\ Incomplete(n) \in Paths
           /\ \A m \in Names : m # Incomplete(n)
  BY PathsDiffer DEF Paths

LEMMA ItemsCounted == TypeOK => ItemCount \in Nat
<1> SUFFICES ASSUME TypeOK PROVE ItemCount \in Nat
    OBVIOUS
<1> DEFINE T == {Incomplete(n) : n \in Names}
           f == [n \in Names |-> Incomplete(n)]
<1>1. IsFiniteSet(T)
    <2>1. f \in Surjection(Names, T)
        BY DEF Surjection
    <2>2. QED BY <2>1, NamesFinite, FS_Surjection
<1>2. IsFiniteSet(Paths)
    BY <1>1, NamesFinite, FS_Union DEF Paths
<1>3. IsFiniteSet(Present)
    BY <1>2, FS_Subset DEF Present
<1>4. Cardinality(Present) \in Nat /\ (Present # {} => Cardinality(Present) # 0)
    BY <1>3, FS_CardinalityType, FS_EmptySet
<1>5. QED BY <1>4 DEF ItemCount

-----------------------------------------------------------------------------
(* The steps of the invariant, by what they do to the table. *)

\* A transfer is approved.
LEMMA ApproveKeeps ==
    ASSUME IInv, NEW g \in Grant, g.kind = "upload" => g.was = Absent, Approve(g),
           have' \in [Paths -> Seq(Units)]
    PROVE  IInv'
<1> DEFINE r == Len(grant) + 1
<1>1. /\ TypeOK /\ UploadsNew /\ SlotsFreed
      /\ conn = Idle /\ grant' = Append(grant, g) /\ table' = Add(table, Len(grant'))
      /\ UNCHANGED <<dir, ended, conn>>
    BY DEF IInv, Approve
<1>2. grant \in Seq(Grant)
    BY <1>1 DEF TypeOK
<1>3. /\ Len(grant) \in Nat /\ DOMAIN grant = 1 .. Len(grant)
      /\ grant' \in Seq(Grant) /\ Len(grant') = r
      /\ grant'[r] = g /\ \A q \in 1 .. Len(grant) : grant'[q] = grant[q]
    BY <1>1, <1>2, LenProperties, AppendProperties
<1>4. DOMAIN grant' = 1 .. r
    BY <1>3, LenProperties
<1>5. /\ DOMAIN grant \subseteq DOMAIN grant' /\ r \in DOMAIN grant' /\ r \notin DOMAIN grant
      /\ DOMAIN grant' = DOMAIN grant \cup {r}
    BY <1>3, <1>4
<1> HIDE DEF r
<1>6. table' \in [DOMAIN table -> {Free} \cup DOMAIN grant \cup {r}] /\ DOMAIN table' = DOMAIN table
    BY <1>1, <1>3 DEF TypeOK, Add
<1>7. \A i \in DOMAIN table : table'[i] = table[i] \/ table'[i] = r
    BY <1>1, <1>3 DEF TypeOK, Add
<1>8. Idle \in Conn' /\ Idle.stage = "idle"
    BY DEF Conn, Idle
<1>9. TypeOK'
    <2>1. table' \in [DOMAIN table' -> {Free} \cup DOMAIN grant']
        BY <1>5, <1>6
    <2>2. dir' \in [Paths -> Contents] /\ ended' \subseteq DOMAIN grant' /\ conn' = Idle
        BY <1>1, <1>5 DEF TypeOK
    <2>3. QED BY <1>3, <1>8, <2>1, <2>2 DEF TypeOK
<1>10. UploadsNew'
    BY <1>1, <1>3, <1>5 DEF UploadsNew
<1>11. SlotsFreed'
    BY <1>1, <1>5, <1>6, <1>7 DEF SlotsFreed, TypeOK
<1>12. Served' /\ Incoming'
    BY <1>1, <1>8 DEF Served, Incoming
<1>13. QED BY <1>9, <1>10, <1>11, <1>12 DEF IInv

\* The connection goes on.
LEMMA MoveOnKeeps ==
    ASSUME IInv, UNCHANGED <<dir, grant, table, ended>>, have' \in [Paths -> Seq(Units)],
           conn' \in Conn, conn'.stage \notin {"idle", "header"} => conn'.ref \notin ended,
           Served', Incoming'
    PROVE  IInv'
<1>1. TypeOK /\ UploadsNew /\ SlotsFreed
    BY DEF IInv
<1>2. Conn' = Conn
    BY DEF Conn, Refs
<1>3. TypeOK'
    BY <1>1, <1>2 DEF TypeOK
<1>4. UploadsNew' /\ SlotsFreed'
    BY <1>1 DEF UploadsNew, SlotsFreed
<1>5. QED BY <1>3, <1>4 DEF IInv

\* The connection is closed, and its reference is used up.
LEMMA EndKeeps ==
    ASSUME IInv, NEW r \in DOMAIN grant, End(r), UNCHANGED <<grant, have>>,
           dir' \in [Paths -> Contents]
    PROVE  IInv'
<1>1. /\ TypeOK /\ UploadsNew /\ SlotsFreed
      /\ conn' = Idle /\ table' = Removed(table, r) /\ ended' = ended \cup {r}
    BY DEF IInv, End
<1>2. grant \in Seq(Grant) /\ DOMAIN grant = 1 .. Len(grant) /\ Len(grant) \in Nat
    BY <1>1, LenProperties DEF TypeOK
<1>3. /\ table' \in [DOMAIN table' -> {Free} \cup DOMAIN grant] /\ DOMAIN table' = DOMAIN table
      /\ \A i \in DOMAIN table : table'[i] = IF table[i] = r THEN Free ELSE table[i]
    BY <1>1 DEF Removed, TypeOK
<1>4. r # Free /\ Free \notin DOMAIN grant
    BY <1>2 DEF Free
<1>5. Idle \in Conn' /\ Idle.stage = "idle"
    BY DEF Conn, Idle
<1>6. TypeOK'
    BY <1>1, <1>3, <1>5 DEF TypeOK
<1>7. SlotsFreed'
    BY <1>1, <1>3, <1>4 DEF SlotsFreed, TypeOK
<1>8. UploadsNew' /\ Served' /\ Incoming'
    BY <1>1, <1>5 DEF UploadsNew, Served, Incoming
<1>9. QED BY <1>6, <1>7, <1>8 DEF IInv

-----------------------------------------------------------------------------
(* What a connection knows in each stage. *)

LEMMA ConnFields ==
    ASSUME conn \in Conn
    PROVE  /\ conn.stage = "send" =>
                conn \in [stage : {"send"}, ref : Refs({"download", "folderDown"}), path : Paths,
                          data : Seq(Units), at : Nat, sent : Nat, rest : SUBSET Paths]
           /\ conn.stage = "items" =>
                conn \in [stage : {"items"}, ref : Refs({"folderDown"}), rest : SUBSET Paths]
           /\ conn.stage = "body" =>
                conn \in [stage : {"body"}, ref : Refs({"upload", "folderUp"}), path : Names,
                          left : Nat, version : Versions, got : Nat]
           /\ conn.stage = "banner" => conn.ref \in Refs({"banner"})
           /\ conn.stage = "open" => conn.ref \in Refs({"download"}) /\ conn.path \in Paths
           /\ conn.stage = "list" => conn.ref \in Refs({"folderDown"})
           /\ conn.stage = "item" => conn.ref \in Refs({"folderUp"}) /\ conn.left \in Nat
           /\ conn.stage = "forks" =>
                conn.ref \in Refs({"upload", "folderUp"}) /\ conn.path \in Names /\ conn.left \in Nat
           /\ conn.stage \notin {"idle", "header"} => conn.ref \in DOMAIN grant
  BY DEF Conn, Idle, Refs

LEMMA GrantFields ==
    ASSUME TypeOK, NEW r \in DOMAIN grant
    PROVE  /\ grant[r] \in Grant
           /\ grant[r].kind \in {"download", "upload", "folderDown", "folderUp", "banner"}
           /\ grant[r].kind = "download" =>
                /\ grant[r].path \in Paths /\ grant[r].asked \in Nat /\ grant[r].resume \in BOOLEAN
                /\ grant[r].was \in Contents
           /\ grant[r].kind = "upload" => grant[r].path \in Names
           /\ grant[r].kind = "folderUp" => grant[r].items \in Nat
<1>1. grant \in Seq(Grant) /\ r \in 1 .. Len(grant)
    BY LenProperties DEF TypeOK
<1>2. grant[r] \in Grant
    BY <1>1, ElementOfSeq
<1>3. QED BY <1>2, BoundsOK DEF Grant

-----------------------------------------------------------------------------
(* Approvals. *)

LEMMA RequestsKeep ==
    ASSUME IInv,
           \/ \E p \in Paths, resume \in BOOLEAN : RequestDownload(p, resume)
           \/ \E n \in Names : RequestUpload(n)
           \/ RequestFolderDownload \/ RequestBanner
           \/ \E k \in Items : RequestFolderUpload(k)
    PROVE  IInv'
<1>1. TypeOK
    BY DEF IInv
<1>2. ASSUME NEW p \in Paths, NEW resume \in BOOLEAN, RequestDownload(p, resume)
      PROVE  IInv'
    <2> DEFINE asked == Len(have'[p])
               g == [kind |-> "download", path |-> p, asked |-> asked, resume |-> resume,
                     promised |-> Promised(Len(dir[p]), asked), was |-> dir[p]]
    <2>1. /\ have' = IF resume THEN have ELSE [have EXCEPT ![p] = <<>>]
          /\ Approve(g) /\ dir[p] # Absent
        BY <1>2 DEF RequestDownload
    <2>2. <<>> \in Seq(Units)
        BY EmptySeq
    <2>3. have' \in [Paths -> Seq(Units)]
        BY <1>1, <2>1, <2>2 DEF TypeOK
    <2>4. asked \in Nat
        BY <2>3, LenProperties
    <2>5. dir[p] \in Seq(Units) /\ dir[p] \in Contents
        BY <1>1, <2>1 DEF TypeOK, Contents
    <2>6. Len(dir[p]) \in Nat
        BY <2>5, LenProperties
    <2> HIDE DEF asked
    <2>7. Promised(Len(dir[p]), asked) \in Nat
        <3>1. /\ Capped(Len(dir[p])) \in Nat
              /\ AtMost(asked, Capped(Len(dir[p]))) \in 0 .. Capped(Len(dir[p]))
            BY <2>4, <2>6, BoundsOK DEF Capped, AtMost
        <3>2. Overhead + Capped(Len(dir[p])) - AtMost(asked, Capped(Len(dir[p]))) \in Nat
            BY <3>1, BoundsOK
        <3>3. QED BY <3>2, BoundsOK DEF Promised
    <2>8. g \in Grant /\ g.kind # "upload"
        BY <2>4, <2>5, <2>7 DEF Grant
    <2> HIDE DEF g
    <2>9. QED BY <2>1, <2>3, <2>8, ApproveKeeps
<1>3. ASSUME NEW n \in Names, RequestUpload(n)
      PROVE  IInv'
    <2> DEFINE g == [kind |-> "upload", path |-> n, was |-> dir[n]]
    <2>1. dir[n] = Absent /\ Approve(g) /\ have' = have
        BY <1>3 DEF RequestUpload, MayUpload
    <2>2. g \in Grant /\ g.was = Absent
        BY <2>1 DEF Grant, Contents
    <2> HIDE DEF g
    <2>3. QED BY <1>1, <2>1, <2>2, ApproveKeeps DEF TypeOK
<1>4. CASE RequestFolderDownload
    <2> DEFINE g == [kind |-> "folderDown", items |-> ItemCount]
    <2>1. Approve(g) /\ have' = have /\ g.kind # "upload"
        BY <1>4 DEF RequestFolderDownload
    <2>2. g \in Grant
        BY <1>1, ItemsCounted DEF Grant
    <2> HIDE DEF g
    <2>3. QED BY <1>1, <2>1, <2>2, ApproveKeeps DEF TypeOK
<1>5. CASE RequestBanner
    <2> DEFINE g == [kind |-> "banner"]
    <2>1. Approve(g) /\ have' = have /\ g.kind # "upload"
        BY <1>5 DEF RequestBanner
    <2>2. g \in Grant
        BY DEF Grant
    <2> HIDE DEF g
    <2>3. QED BY <1>1, <2>1, <2>2, ApproveKeeps DEF TypeOK
<1>6. ASSUME NEW k \in Items, RequestFolderUpload(k)
      PROVE  IInv'
    <2> DEFINE g == [kind |-> "folderUp", items |-> k]
    <2>1. Approve(g) /\ have' = have /\ g.kind # "upload"
        BY <1>6 DEF RequestFolderUpload
    <2>2. g \in Grant
        BY DEF Grant
    <2> HIDE DEF g
    <2>3. QED BY <1>1, <2>1, <2>2, ApproveKeeps DEF TypeOK
<1>7. QED BY <1>2, <1>3, <1>4, <1>5, <1>6

-----------------------------------------------------------------------------
(* The connection's own steps. *)

LEMMA StartKeeps ==
    ASSUME IInv, NEW r \in DOMAIN grant, Start(r)
    PROVE  IInv'
<1>1. /\ TypeOK /\ SlotsFreed /\ Known(r) /\ conn' = Begun(r)
      /\ UNCHANGED <<dir, grant, table, ended, have>>
    BY DEF IInv, Start
<1>2. r \notin ended
    BY <1>1 DEF Known, SlotsFreed
<1>3. /\ grant[r].kind \in {"download", "upload", "folderDown", "folderUp", "banner"}
      /\ grant[r].kind = "download" => grant[r].path \in Paths
      /\ grant[r].kind = "upload" => grant[r].path \in Names
      /\ grant[r].kind = "folderUp" => grant[r].items \in Nat
    BY <1>1, GrantFields
<1>4. /\ conn' \in Conn /\ conn'.ref = r /\ conn'.stage \notin {"send", "body"}
      /\ conn'.stage \in {"open", "forks"} => conn'.path = grant[r].path \/ grant[r].kind = "folderUp"
    <2>1. CASE grant[r].kind = "download"
        <3>1. conn' = [stage |-> "open", ref |-> r, path |-> grant[r].path]
            BY <1>1, <2>1 DEF Begun
        <3>2. QED BY <1>3, <2>1, <3>1 DEF Conn, Refs
    <2>2. CASE grant[r].kind = "upload"
        <3>1. conn' = [stage |-> "forks", ref |-> r, path |-> grant[r].path, left |-> 0]
            BY <1>1, <2>2 DEF Begun
        <3>2. QED BY <1>3, <2>2, <3>1 DEF Conn, Refs
    <2>3. CASE grant[r].kind = "folderDown"
        <3>1. conn' = [stage |-> "list", ref |-> r]
            BY <1>1, <2>3 DEF Begun
        <3>2. QED BY <1>3, <2>3, <3>1 DEF Conn, Refs
    <2>4. CASE grant[r].kind = "folderUp"
        <3>1. conn' = [stage |-> "item", ref |-> r, left |-> grant[r].items]
            BY <1>1, <2>4 DEF Begun
        <3>2. QED BY <1>3, <2>4, <3>1 DEF Conn, Refs
    <2>5. CASE grant[r].kind = "banner"
        <3>1. conn' = [stage |-> "banner", ref |-> r]
            BY <1>1, <2>5 DEF Begun
        <3>2. QED BY <1>3, <2>5, <3>1 DEF Conn, Refs
    <2>6. QED BY <1>3, <2>1, <2>2, <2>3, <2>4, <2>5
<1>5. Served' /\ Incoming'
    BY <1>1, <1>4 DEF Served, Incoming
<1>6. QED BY <1>1, <1>2, <1>4, <1>5, MoveOnKeeps DEF TypeOK

\* A step of a connection that reads or writes and goes on.
Onward ==
    /\ UNCHANGED <<dir, grant, table, ended>> /\ have' \in [Paths -> Seq(Units)]
    /\ conn' \in Conn /\ conn'.stage \notin {"body", "idle"}
    /\ conn'.stage # "header" => conn'.ref = conn.ref /\ conn.ref \notin ended
    /\ conn'.stage \in {"open", "send"} /\ grant[conn'.ref].kind = "download"
         => conn'.path = grant[conn'.ref].path
    /\ conn'.stage = "forks" => grant[conn'.ref].kind # "upload"

LEMMA AcceptGoesOn ==
    ASSUME TypeOK, Served, NEW t \in BOOLEAN, Accept(t)
    PROVE  Onward
  BY DEF Accept, Conn, TypeOK, Onward

LEMMA OpenGoesOn ==
    ASSUME TypeOK, Served, Open
    PROVE  Onward
<1> DEFINE data == dir[conn.path]
           from == Offset(grant[conn.ref], Len(data))
<1>1. /\ conn.stage = "open" /\ data # Absent /\ UNCHANGED <<dir, grant, table, ended, have>>
      /\ conn' = [stage |-> "send", ref |-> conn.ref, path |-> conn.path, data |-> data,
                  at |-> from, sent |-> 0, rest |-> {}]
    BY DEF Open
<1>2. conn.ref \in Refs({"download"}) /\ conn.path \in Paths /\ conn.ref \notin ended
    BY <1>1, ConnFields DEF TypeOK
<1>3. data \in Seq(Units) /\ Len(data) \in Nat
    BY <1>1, <1>2, LenProperties DEF TypeOK, Contents
<1>4. conn.ref \in DOMAIN grant /\ grant[conn.ref].asked \in Nat
    BY <1>2, GrantFields DEF Refs
<1> HIDE DEF data
<1>5. from \in Nat
    <2>1. Len(data) % Wire \in Nat
        BY <1>3, BoundsOK
    <2>2. QED BY <1>4, <2>1 DEF Offset, AtMost
<1> HIDE DEF from
<1>6. 0 \in Nat /\ conn.ref \in Refs({"download", "folderDown"})
    BY <1>2 DEF Refs
<1>7. conn' \in Conn
    BY <1>1, <1>2, <1>3, <1>5, <1>6 DEF Conn
<1>8. conn.path = grant[conn.ref].path
    BY <1>1, <1>2 DEF Served, Refs
<1>9. QED BY <1>1, <1>2, <1>7, <1>8 DEF TypeOK, Onward

LEMMA SendDataGoesOn ==
    ASSUME TypeOK, Served, SendData
    PROVE  Onward
<1>1. /\ conn.stage = "send" /\ conn.at < Len(conn.data) /\ UNCHANGED <<dir, grant, table, ended>>
      /\ conn' = [conn EXCEPT !.at = @ + 1, !.sent = @ + 1]
      /\ have' = IF grant[conn.ref].kind = "download"
                 THEN [have EXCEPT ![conn.path] = Append(@, conn.data[conn.at + 1])] ELSE have
    BY DEF SendData
<1>2. /\ conn \in [stage : {"send"}, ref : Refs({"download", "folderDown"}), path : Paths,
                   data : Seq(Units), at : Nat, sent : Nat, rest : SUBSET Paths]
      /\ conn.ref \notin ended
    BY <1>1, ConnFields DEF TypeOK
<1>3. conn.at + 1 \in Nat /\ conn.sent + 1 \in Nat
    BY <1>2
<1>4. /\ conn' \in [stage : {"send"}, ref : Refs({"download", "folderDown"}), path : Paths,
                    data : Seq(Units), at : Nat, sent : Nat, rest : SUBSET Paths]
      /\ conn'.ref = conn.ref /\ conn'.path = conn.path /\ conn'.stage = "send"
    BY <1>1, <1>2, <1>3
<1>5. conn' \in Conn
    BY <1>4 DEF Conn
<1>6. conn.data \in Seq(Units) /\ conn.at + 1 \in 1 .. Len(conn.data)
    <2>1. conn.data \in Seq(Units) /\ conn.at \in Nat
        BY <1>2
    <2>2. Len(conn.data) \in Nat
        BY <2>1, LenProperties
    <2>3. QED BY <1>1, <2>1, <2>2
<1>7. conn.data[conn.at + 1] \in Units
    BY <1>6, ElementOfSeq
<1>8. conn.path \in Paths /\ have[conn.path] \in Seq(Units)
    BY <1>2 DEF TypeOK
<1>9. Append(have[conn.path], conn.data[conn.at + 1]) \in Seq(Units)
    BY <1>7, <1>8, AppendProperties
<1>10. have' \in [Paths -> Seq(Units)]
    BY <1>1, <1>8, <1>9 DEF TypeOK
<1>11. QED BY <1>1, <1>2, <1>4, <1>5, <1>10 DEF Served, Onward

LEMMA ListGoesOn ==
    ASSUME TypeOK, Served, List
    PROVE  Onward
<1>1. /\ conn.stage = "list" /\ UNCHANGED <<dir, grant, table, ended, have>>
      /\ conn' = [stage |-> "items", ref |-> conn.ref, rest |-> Present]
    BY DEF List
<1>2. conn.ref \in Refs({"folderDown"}) /\ conn.ref \notin ended /\ Present \in SUBSET Paths
    BY <1>1, ConnFields DEF TypeOK, Present
<1>3. QED BY <1>1, <1>2 DEF Conn, TypeOK, Onward

LEMMA SendItemGoesOn ==
    ASSUME TypeOK, Served, NEW p \in Paths, SendItem(p)
    PROVE  Onward
<1>1. /\ conn.stage = "items" /\ dir[p] # Absent /\ UNCHANGED <<dir, grant, table, ended, have>>
      /\ conn' = [stage |-> "send", ref |-> conn.ref, path |-> p, data |-> dir[p],
                  at |-> 0, sent |-> 0, rest |-> conn.rest \ {p}]
    BY DEF SendItem
<1>2. /\ conn \in [stage : {"items"}, ref : Refs({"folderDown"}), rest : SUBSET Paths]
      /\ conn.ref \notin ended
    BY <1>1, ConnFields DEF TypeOK
<1>3. /\ conn.ref \in Refs({"download", "folderDown"}) /\ dir[p] \in Seq(Units) /\ 0 \in Nat
      /\ conn.rest \ {p} \in SUBSET Paths /\ grant[conn.ref].kind = "folderDown"
    BY <1>1, <1>2 DEF Refs, TypeOK, Contents
<1>4. conn' \in Conn
    BY <1>1, <1>3 DEF Conn
<1>5. QED BY <1>1, <1>2, <1>3, <1>4 DEF TypeOK, Onward


LEMMA SkipItemGoesOn ==
    ASSUME TypeOK, Served, NEW p \in Paths, SkipItem(p)
    PROVE  Onward
<1>1. /\ conn.stage = "items" /\ UNCHANGED <<dir, grant, table, ended, have>>
      /\ conn' = [conn EXCEPT !.rest = @ \ {p}]
    BY DEF SkipItem
<1>2. /\ conn \in [stage : {"items"}, ref : Refs({"folderDown"}), rest : SUBSET Paths]
      /\ conn.ref \notin ended
    BY <1>1, ConnFields DEF TypeOK
<1>3. conn.rest \ {p} \in SUBSET Paths
    BY <1>2
<1>4. /\ conn' \in [stage : {"items"}, ref : Refs({"folderDown"}), rest : SUBSET Paths]
      /\ conn'.ref = conn.ref /\ conn'.stage = "items"
    BY <1>1, <1>2, <1>3
<1>5. conn' \in Conn
    BY <1>4 DEF Conn
<1>6. QED BY <1>1, <1>2, <1>4, <1>5 DEF TypeOK, Onward

LEMMA NextItemGoesOn ==
    ASSUME TypeOK, Served, NEW n \in Names, NextItem(n)
    PROVE  Onward
<1>1. /\ conn.stage = "item" /\ conn.left > 0 /\ UNCHANGED <<dir, grant, table, ended, have>>
      /\ conn' = [stage |-> "forks", ref |-> conn.ref, path |-> n, left |-> conn.left - 1]
    BY DEF NextItem
<1>2. conn.ref \in Refs({"folderUp"}) /\ conn.left \in Nat /\ conn.ref \notin ended
    BY <1>1, ConnFields DEF TypeOK
<1>3. conn.left - 1 \in Nat /\ conn.ref \in Refs({"upload", "folderUp"})
    BY <1>1, <1>2 DEF Refs
<1>4. conn' \in Conn
    BY <1>1, <1>3 DEF Conn
<1>5. grant[conn.ref].kind = "folderUp"
    BY <1>2 DEF Refs
<1>6. QED BY <1>1, <1>2, <1>4, <1>5 DEF TypeOK, Onward

LEMMA SentGoesOn ==
    ASSUME TypeOK, Served, Sent, grant[conn.ref].kind # "download"
    PROVE  Onward
<1>1. /\ conn.stage = "send" /\ UNCHANGED <<dir, grant, table, ended, have>>
      /\ conn' = [stage |-> "items", ref |-> conn.ref, rest |-> conn.rest]
    BY DEF Sent
<1>2. /\ conn.ref \in Refs({"download", "folderDown"}) /\ conn.rest \in SUBSET Paths
      /\ conn.ref \notin ended
    BY <1>1, ConnFields DEF TypeOK
<1>3. conn.ref \in Refs({"folderDown"})
    BY <1>2 DEF Refs
<1>4. conn' \in Conn
    BY <1>1, <1>2, <1>3 DEF Conn
<1>5. QED BY <1>1, <1>2, <1>4 DEF TypeOK, Onward

LEMMA OnwardKeeps ==
    ASSUME IInv, Onward
    PROVE  IInv'
<1>1. Served' /\ Incoming'
    BY DEF Onward, Served, Incoming
<1>2. /\ UNCHANGED <<dir, grant, table, ended>> /\ have' \in [Paths -> Seq(Units)] /\ conn' \in Conn
      /\ conn'.stage \notin {"idle", "header"} => conn'.ref \notin ended
    BY DEF Onward
<1>3. QED BY <1>1, <1>2, MoveOnKeeps

-----------------------------------------------------------------------------
(* An upload. *)

LEMMA ForksKeep ==
    ASSUME IInv, NEW v \in Versions, Forks(v)
    PROVE  /\ IInv' /\ \A n \in Names : dir'[n] = dir[n]
           /\ dir' = [dir EXCEPT ![Incomplete(conn.path)] = Part(v, 0)]
<1>1. /\ TypeOK /\ UploadsNew /\ Served /\ SlotsFreed
      /\ conn.stage = "forks" /\ UNCHANGED <<grant, table, ended, have>>
      /\ conn' = [stage |-> "body", ref |-> conn.ref, path |-> conn.path, left |-> conn.left,
                  version |-> v, got |-> 0]
      /\ dir' = [dir EXCEPT ![Incomplete(conn.path)] = <<>>]
    BY DEF IInv, Forks, Emptied
<1>2. /\ conn.ref \in Refs({"upload", "folderUp"}) /\ conn.path \in Names /\ conn.left \in Nat
      /\ conn.ref \notin ended
    BY <1>1, ConnFields DEF TypeOK
<1>3. 0 \in Nat /\ 0 <= SizeOf[v] /\ 0 \in 0 .. SizeOf[v]
    BY SizesFit
<1>4. <<>> \in Seq(Units) /\ Part(v, 0) = <<>>
    BY EmptySeq DEF Part
<1>5. /\ dir' \in [Paths -> Contents] /\ dir'[Incomplete(conn.path)] = <<>>
      /\ \A n \in Names : dir'[n] = dir[n]
    <2>1. Incomplete(conn.path) \in Paths /\ \A n \in Names : n \in Paths /\ n # Incomplete(conn.path)
        BY <1>2, PathFacts
    <2>2. QED BY <1>1, <1>4, <2>1 DEF TypeOK, Contents
<1>6. conn' \in Conn /\ Conn' = Conn
    <2>1. conn' \in Conn
        BY <1>1, <1>2, <1>3 DEF Conn
    <2>2. Conn' = Conn
        BY <1>1 DEF Conn, Refs
    <2>3. QED BY <2>1, <2>2
<1>7. TypeOK'
    BY <1>1, <1>2, <1>5, <1>6 DEF TypeOK
<1>8. Served'
    BY <1>1 DEF Served
<1>9. Incoming'
    BY <1>1, <1>3, <1>4, <1>5 DEF Incoming
<1>10. UploadsNew' /\ SlotsFreed'
    BY <1>1, <1>5 DEF UploadsNew, SlotsFreed
<1>11. QED BY <1>1, <1>4, <1>5, <1>7, <1>8, <1>9, <1>10 DEF IInv

LEMMA BodyKeeps ==
    ASSUME IInv, Body
    PROVE  /\ IInv' /\ \A n \in Names : dir'[n] = dir[n]
           /\ \E v \in Versions : \E k \in 0 .. SizeOf[v] :
                 dir' = [dir EXCEPT ![Incomplete(conn.path)] = Part(v, k)]
<1> DEFINE v == conn.version
           k == conn.got
           i == Incomplete(conn.path)
<1>1. /\ TypeOK /\ UploadsNew /\ Served /\ Incoming /\ SlotsFreed
      /\ conn.stage = "body" /\ k < SizeOf[v] /\ UNCHANGED <<grant, table, ended, have>>
      /\ conn' = [conn EXCEPT !.got = @ + 1]
      /\ dir' = [dir EXCEPT ![i] = Overwritten(@, k + 1, <<v, k + 1>>)]
    BY DEF IInv, Body
<1>2. /\ conn \in [stage : {"body"}, ref : Refs({"upload", "folderUp"}), path : Names,
                   left : Nat, version : Versions, got : Nat]
      /\ conn.ref \notin ended
    BY <1>1, ConnFields DEF TypeOK
<1>3. v \in Versions /\ k \in Nat /\ k + 1 \in Nat /\ conn.path \in Names /\ SizeOf[v] \in Nat
    BY <1>2, SizesFit
<1>4. /\ conn' \in [stage : {"body"}, ref : Refs({"upload", "folderUp"}), path : Names,
                    left : Nat, version : Versions, got : Nat]
      /\ conn'.ref = conn.ref /\ conn'.path = conn.path /\ conn'.version = v /\ conn'.got = k + 1
      /\ conn'.stage = "body"
    <2>1. conn.got + 1 \in Nat
        BY <1>3
    <2>2. QED BY <1>1, <1>2, <2>1
<1>5. /\ i \in Paths /\ \A n \in Names : n \in Paths /\ n # i
    BY <1>3, PathFacts
<1>6. dir[i] = Part(v, k)
    BY <1>1 DEF Incoming
<1> HIDE DEF v, k, i
<1>7. k + 1 \in 0 .. SizeOf[v]
    BY <1>1, <1>3
<1>8. Part(v, k + 1) \in Seq(Units)
    BY <1>3, <1>7, PartFacts
<1>9. dir' = [dir EXCEPT ![i] = Part(v, k + 1)]
    <2>1. Overwritten(dir[i], k + 1, <<v, k + 1>>) = Part(v, k + 1)
        BY <1>1, <1>3, <1>6, PartGrows
    <2>2. QED BY <1>1, <2>1
<1>10. /\ dir' \in [Paths -> Contents] /\ dir'[i] = Part(v, k + 1)
       /\ \A n \in Names : dir'[n] = dir[n]
    BY <1>1, <1>5, <1>8, <1>9 DEF TypeOK, Contents
<1>11. conn' \in Conn /\ Conn' = Conn
    <2>1. conn' \in Conn
        BY <1>4 DEF Conn
    <2>2. Conn' = Conn
        BY <1>1 DEF Conn, Refs
    <2>3. QED BY <2>1, <2>2
<1>12. TypeOK'
    BY <1>1, <1>2, <1>4, <1>10, <1>11 DEF TypeOK
<1>13. Served'
    BY <1>1, <1>4 DEF Served
<1>14. Incoming'
    <2>1. k + 1 <= SizeOf[v]
        BY <1>7
    <2>2. QED BY <1>4, <1>10, <2>1 DEF Incoming, i
<1>15. UploadsNew' /\ SlotsFreed'
    BY <1>1, <1>10 DEF UploadsNew, SlotsFreed
<1>16. QED BY <1>3, <1>7, <1>9, <1>10, <1>12, <1>13, <1>14, <1>15 DEF IInv, i

LEMMA PublishKeeps ==
    ASSUME IInv, Publish
    PROVE  /\ IInv' /\ conn.stage = "body" /\ conn.path \in Names
           /\ grant[conn.ref].kind = "folderUp" \/ grant[conn.ref].was = Absent
           /\ \A n \in Names : n # conn.path => dir'[n] = dir[n]
           /\ \E v \in Versions : dir' = [dir EXCEPT ![conn.path] = Whole(v),
                                                     ![Incomplete(conn.path)] = Absent]
<1> DEFINE v == conn.version
           n == conn.path
           i == Incomplete(n)
<1>1. /\ TypeOK /\ UploadsNew /\ Served /\ Incoming /\ SlotsFreed
      /\ conn.stage = "body" /\ conn.got = SizeOf[v] /\ UNCHANGED <<grant, have>>
      /\ dir' = [dir EXCEPT ![n] = dir[i], ![i] = Absent]
      /\ IF grant[conn.ref].kind = "upload" THEN End(conn.ref)
         ELSE /\ conn' = [stage |-> "item", ref |-> conn.ref, left |-> conn.left]
              /\ UNCHANGED <<table, ended>>
    BY DEF IInv, Publish
<1>2. /\ conn \in [stage : {"body"}, ref : Refs({"upload", "folderUp"}), path : Names,
                   left : Nat, version : Versions, got : Nat]
      /\ conn.ref \notin ended
    BY <1>1, ConnFields DEF TypeOK
<1>3. v \in Versions /\ n \in Names /\ conn.left \in Nat /\ conn.ref \in DOMAIN grant
      /\ grant[conn.ref].kind \in {"upload", "folderUp"}
    BY <1>2 DEF Refs
<1>4. dir[i] = Whole(v)
    BY <1>1 DEF Incoming, Whole
<1>5. i \in Paths /\ \A m \in Names : m \in Paths /\ m # i
    BY <1>3, PathFacts
<1> HIDE DEF v, i, n
<1>6. Whole(v) \in Seq(Units)
    BY <1>3, WholeIsPart
<1>7. dir' = [dir EXCEPT ![n] = Whole(v), ![i] = Absent]
    BY <1>1, <1>4
<1>8. /\ dir' \in [Paths -> Contents] /\ dir'[n] = Whole(v)
      /\ \A m \in Names : m # n => dir'[m] = dir[m]
    BY <1>1, <1>3, <1>5, <1>6, <1>7 DEF TypeOK, Contents
<1>10. IInv'
    <2>1. CASE grant[conn.ref].kind = "upload"
        BY <1>1, <1>3, <1>8, <2>1, EndKeeps
    <2>2. CASE grant[conn.ref].kind = "folderUp"
        <3>1. /\ conn' = [stage |-> "item", ref |-> conn.ref, left |-> conn.left]
              /\ UNCHANGED <<table, ended>>
            BY <1>1, <2>2
        <3>2. conn' \in Conn
            BY <1>3, <2>2, <3>1 DEF Conn, Refs
        <3>3. Conn' = Conn
            BY <1>1 DEF Conn, Refs
        <3>4. TypeOK'
            BY <1>1, <1>2, <1>8, <3>1, <3>2, <3>3 DEF TypeOK
        <3>5. Served' /\ Incoming' /\ UploadsNew' /\ SlotsFreed'
            BY <1>1, <3>1 DEF Served, Incoming, UploadsNew, SlotsFreed
        <3>6. QED BY <3>4, <3>5 DEF IInv
    <2>3. QED BY <1>3, <2>1, <2>2
<1>11. grant[conn.ref].kind = "folderUp" \/ grant[conn.ref].was = Absent
    BY <1>1, <1>3 DEF UploadsNew
<1>12. QED BY <1>1, <1>3, <1>7, <1>8, <1>10, <1>11 DEF n, i

-----------------------------------------------------------------------------
(* The steps that end a transfer. *)

Ends ==
    \/ SendBanner \/ OpenGone \/ ItemsDone \/ NoMoreItems
    \/ Sent /\ grant[conn.ref].kind = "download"
    \/ Fail /\ conn.stage # "header"

LEMMA EndsFacts ==
    ASSUME TypeOK, Ends
    PROVE  /\ conn.ref \in DOMAIN grant /\ End(conn.ref) /\ UNCHANGED <<dir, grant, have>>
<1>1. /\ conn.stage \notin {"idle", "header"} /\ End(conn.ref) /\ UNCHANGED <<dir, grant, have>>
    BY DEF Ends, SendBanner, OpenGone, ItemsDone, NoMoreItems, Sent, Fail, Failed, Blocked
<1>2. conn \in Conn
    BY DEF TypeOK
<1>3. QED BY <1>1, <1>2, ConnFields

LEMMA EndsKeep ==
    ASSUME IInv, Ends
    PROVE  IInv' /\ dir' = dir
<1>1. TypeOK
    BY DEF IInv
<1>2. conn.ref \in DOMAIN grant /\ End(conn.ref) /\ UNCHANGED <<dir, grant, have>>
    BY <1>1, EndsFacts
<1>3. dir' \in [Paths -> Contents]
    BY <1>1, <1>2 DEF TypeOK
<1>4. QED BY <1>2, <1>3, EndKeeps

\* A connection that named nothing, or nothing that is known, is closed.
LEMMA HangUpKeeps ==
    ASSUME IInv,
           \/ \E r \in DOMAIN grant : Lookup(r)
           \/ Fail /\ conn.stage = "header"
    PROVE  IInv' /\ UNCHANGED <<dir, grant, have>> /\ conn' = Idle /\ ended \subseteq ended'
<1>1. TypeOK /\ UploadsNew /\ SlotsFreed
    BY DEF IInv
<1>2. /\ UNCHANGED <<dir, grant, table, have>> /\ conn' = Idle
      /\ ended' = ended \/ \E r \in DOMAIN grant : ~Known(r) /\ ended' = ended \cup {r}
    BY DEF Lookup, Fail
<1>3. Idle \in Conn' /\ Idle.stage = "idle"
    BY DEF Conn, Idle
<1>4. TypeOK'
    BY <1>1, <1>2, <1>3 DEF TypeOK
<1>5. SlotsFreed'
    BY <1>1, <1>2 DEF SlotsFreed, Known
<1>6. UploadsNew' /\ Served' /\ Incoming'
    BY <1>1, <1>2, <1>3 DEF UploadsNew, Served, Incoming
<1>7. QED BY <1>2, <1>4, <1>5, <1>6 DEF IInv

-----------------------------------------------------------------------------
(* Edits and crashes. *)

Edits == \E p \in Paths : DeleteFile(p) \/ MoveAway(p) \/ \E q \in Paths : RenameFile(p, q)

\* What an edit does to the folder.
Edited ==
    \/ \A p \in Paths : dir'[p] \in {dir[p], Absent}
    \/ \E p, q \in Paths : p # q /\ dir' = [dir EXCEPT ![q] = dir[p], ![p] = Absent]

LEMMA EditsKeep ==
    ASSUME IInv, Edits
    PROVE  IInv' /\ edits' = edits + 1 /\ Edited
<1>1. TypeOK /\ UploadsNew /\ SlotsFreed
    BY DEF IInv
<1>2. /\ conn = Idle /\ edits' = edits + 1 /\ UNCHANGED <<grant, table, ended, conn, have>>
    BY DEF Edits, DeleteFile, MoveAway, RenameFile, Edit
<1>3. dir' \in [Paths -> Contents] /\ Edited
    <2>1. ASSUME NEW p \in Paths, dir' = Without(Taken(p))
          PROVE  dir' \in [Paths -> Contents] /\ Edited
        BY <1>1, <2>1 DEF TypeOK, Contents, Without, Edited
    <2>2. ASSUME NEW p \in Paths, NEW q \in Paths, p # q,
                 dir' = [dir EXCEPT ![q] = dir[p], ![p] = Absent]
          PROVE  dir' \in [Paths -> Contents] /\ Edited
        BY <1>1, <2>2 DEF TypeOK, Contents, Edited
    <2>3. QED BY <2>1, <2>2 DEF Edits, DeleteFile, MoveAway, RenameFile
<1>4. Idle.stage = "idle" /\ Conn' = Conn
    BY <1>2 DEF Idle, Conn, Refs
<1>5. TypeOK'
    BY <1>1, <1>2, <1>3, <1>4 DEF TypeOK
<1>6. UploadsNew' /\ SlotsFreed' /\ Served' /\ Incoming'
    BY <1>1, <1>2, <1>4 DEF UploadsNew, SlotsFreed, Served, Incoming
<1>7. IInv'
    BY <1>3, <1>5, <1>6 DEF IInv
<1>8. QED BY <1>2, <1>3, <1>7

LEMMA CrashKeeps ==
    ASSUME IInv, Crash
    PROVE  IInv'
<1>1. TypeOK /\ UploadsNew
    BY DEF IInv
<1>2. /\ conn' = Idle /\ table' = [i \in DOMAIN table |-> Free] /\ ended' = DOMAIN grant
      /\ UNCHANGED <<dir, grant, have>>
    BY DEF Crash
<1>3. Idle \in Conn' /\ Idle.stage = "idle"
    BY DEF Conn, Idle
<1>4. Free \notin DOMAIN grant
    BY <1>1, LenProperties DEF TypeOK, Free
<1>5. TypeOK'
    BY <1>1, <1>2, <1>3 DEF TypeOK
<1>6. SlotsFreed'
    BY <1>2, <1>4 DEF SlotsFreed
<1>7. UploadsNew' /\ Served' /\ Incoming'
    BY <1>1, <1>2, <1>3 DEF UploadsNew, Served, Incoming
<1>8. QED BY <1>5, <1>6, <1>7 DEF IInv

-----------------------------------------------------------------------------
(* The invariant. *)

LEMMA InitIInv == Init => IInv
<1> SUFFICES ASSUME Init PROVE IInv
    OBVIOUS
<1>1. PICK d \in Stored : dir = [p \in Paths |-> IF p \in Names THEN d[p] ELSE Absent]
    BY DEF Init
<1>2. PICK k \in TableSizes : table = [i \in 1 .. k |-> Free]
    BY DEF Init
<1>3. /\ grant = <<>> /\ ended = {} /\ conn = Idle /\ have = [p \in Paths |-> <<>>]
    BY DEF Init
<1>4. <<>> \in Seq(Units) /\ <<>> \in Seq(Grant)
    BY EmptySeq
<1>5. \A n \in Names : d[n] = Absent \/ \E v \in Versions : d[n] = Whole(v)
    BY StoredWhole
<1>6. \A n \in Names : d[n] \in Contents
    BY <1>5, WholeIsPart DEF Contents
<1>7. dir \in [Paths -> Contents]
    BY <1>1, <1>6 DEF Contents
<1>9. Idle \in Conn /\ Idle.stage = "idle"
    BY DEF Conn, Idle
<1>10. TypeOK
    BY <1>2, <1>3, <1>4, <1>7, <1>9 DEF TypeOK
<1>11. UploadsNew /\ SlotsFreed /\ Served /\ Incoming
    BY <1>3, <1>9 DEF UploadsNew, SlotsFreed, Served, Incoming
<1>12. QED BY <1>10, <1>11 DEF IInv

\* The steps of Next, sorted.
LEMMA NextCases ==
    ASSUME Next
    PROVE  \/ \/ \E p \in Paths, resume \in BOOLEAN : RequestDownload(p, resume)
              \/ \E n \in Names : RequestUpload(n)
              \/ RequestFolderDownload \/ RequestBanner
              \/ \E k \in Items : RequestFolderUpload(k)
           \/ \E r \in DOMAIN grant : Start(r)
           \/ (\E t \in BOOLEAN : Accept(t)) \/ Open \/ SendData \/ List
           \/ \E p \in Paths : SendItem(p) \/ SkipItem(p)
           \/ \E n \in Names : NextItem(n)
           \/ Sent /\ grant[conn.ref].kind # "download"
           \/ \E v \in Versions : Forks(v)
           \/ Body \/ Publish \/ Ends
           \/ (\E r \in DOMAIN grant : Lookup(r)) \/ (Fail /\ conn.stage = "header")
           \/ Edits \/ Crash
  BY DEF Next, Serve, Ends, Edits

LEMMA OnwardCases ==
    ASSUME TypeOK, Served,
           \/ (\E t \in BOOLEAN : Accept(t)) \/ Open \/ SendData \/ List
           \/ \E p \in Paths : SendItem(p) \/ SkipItem(p)
           \/ \E n \in Names : NextItem(n)
           \/ Sent /\ grant[conn.ref].kind # "download"
    PROVE  Onward
  BY AcceptGoesOn, OpenGoesOn, SendDataGoesOn, ListGoesOn, SendItemGoesOn, SkipItemGoesOn,
     NextItemGoesOn, SentGoesOn

LEMMA NextIInv == IInv /\ [Next]_vars => IInv'
<1> SUFFICES ASSUME IInv, [Next]_vars PROVE IInv'
    OBVIOUS
<1>1. CASE Next
    <2>1. TypeOK /\ Served
        BY DEF IInv
    <2>2. QED BY <1>1, <2>1, NextCases, RequestsKeep, StartKeeps, OnwardCases, OnwardKeeps,
              ForksKeep, BodyKeeps, PublishKeeps, EndsKeep, HangUpKeeps, EditsKeep, CrashKeeps
<1>2. CASE UNCHANGED vars
    <2>1. UNCHANGED <<dir, grant, table, ended, conn, have>>
        BY <1>2 DEF vars
    <2>2. Conn' = Conn
        BY <2>1 DEF Conn, Refs
    <2>3. QED BY <2>1, <2>2 DEF IInv, TypeOK, UploadsNew, Served, Incoming, SlotsFreed
<1>3. QED BY <1>1, <1>2

THEOREM Inductive == Spec => []IInv
  BY InitIInv, NextIInv, PTL DEF Spec

\* No exit of the transfer handler leaves its slot taken (mem_add, mem_del).
THEOREM SlotsAreFreed == Spec => []SlotsFreed
<1>1. IInv => SlotsFreed
    BY DEF IInv
<1>2. QED BY <1>1, Inductive, PTL

\* Edits are counted, and nothing else is counted as one.
LEMMA EditsCount ==
    ASSUME [Next]_vars
    PROVE  edits' = edits \/ edits' = edits + 1
<1>1. CASE Next
    <2>1. CASE \E p \in Paths, resume \in BOOLEAN : RequestDownload(p, resume)
        BY <2>1 DEF RequestDownload, Approve, others
    <2>2. CASE \/ \E n \in Names : RequestUpload(n)
               \/ RequestFolderDownload \/ RequestBanner
               \/ \E k \in Items : RequestFolderUpload(k)
        BY <2>2 DEF RequestUpload, RequestFolderDownload, RequestBanner, RequestFolderUpload,
                    Approve, others
    <2>3. CASE (\E t \in BOOLEAN : Accept(t)) \/ Serve
        BY <2>3 DEF Accept, Serve, Lookup, Start, SendBanner, Open, OpenGone, SendData, Sent, List,
                    ItemsDone, SendItem, SkipItem, NoMoreItems, NextItem, Body, Publish, Forks, Fail,
                    others
    <2>4. CASE Edits
        BY <2>4 DEF Edits, DeleteFile, MoveAway, RenameFile, Edit
    <2>5. CASE Crash
        BY <2>5 DEF Crash
    <2>6. QED BY <1>1, <2>1, <2>2, <2>3, <2>4, <2>5 DEF Next, Edits
<1>2. CASE UNCHANGED vars
    BY <1>2 DEF vars, others
<1>3. QED BY <1>1, <1>2

Counted == edits \in Nat

LEMMA EditsCounted == Spec => []Counted
<1>1. Init => Counted
    BY DEF Init, Counted
<1>2. Counted /\ [Next]_vars => Counted'
    <2> SUFFICES ASSUME edits \in Nat, [Next]_vars PROVE edits' \in Nat
        BY DEF Counted
    <2>1. edits + 1 \in Nat
        OBVIOUS
    <2>2. QED BY <2>1, EditsCount
<1>3. QED BY <1>1, <1>2, PTL DEF Spec

\* What KeptFiles says of one step.
KeptNow ==
    \A n \in Names :
        dir[n] # Absent /\ dir'[n] # dir[n] =>
            \/ edits' # edits
            \/ /\ conn.stage = "body" /\ conn.path = n
               /\ LET g == grant[conn.ref]
                  IN  g.kind = "folderUp" \/ g.was = Absent

LEMMA KeptStep == IInv /\ Counted /\ [Next]_vars => [KeptNow]_vars
<1> SUFFICES ASSUME IInv, edits \in Nat, Next PROVE KeptNow
    BY DEF Counted
<1>1. TypeOK /\ Served
    BY DEF IInv
<1>2. CASE UNCHANGED dir
    BY <1>2 DEF KeptNow
<1>3. CASE \A n \in Names : dir'[n] = dir[n]
    BY <1>3 DEF KeptNow
<1>4. CASE Publish
    BY <1>4, PublishKeeps DEF KeptNow
<1>5. CASE Edits
    <2>1. edits' # edits
        BY <1>5, EditsKeep
    <2>2. QED BY <2>1 DEF KeptNow
<1>6. CASE Onward
    BY <1>2, <1>6 DEF Onward
<1>7. CASE \/ \E p \in Paths, resume \in BOOLEAN : RequestDownload(p, resume)
           \/ \E n \in Names : RequestUpload(n)
           \/ RequestFolderDownload \/ RequestBanner
           \/ \E k \in Items : RequestFolderUpload(k)
           \/ \E r \in DOMAIN grant : Start(r)
           \/ Crash
    BY <1>2, <1>7 DEF RequestDownload, RequestUpload, RequestFolderDownload, RequestBanner,
                      RequestFolderUpload, Approve, Start, Crash
<1>8. QED BY <1>1, <1>2, <1>3, <1>4, <1>5, <1>6, <1>7, NextCases, OnwardCases, ForksKeep, BodyKeeps,
          EndsKeep, HangUpKeeps

\* No upload replaces a file its client could have seen (handle_upload_file).
THEOREM FilesAreKept == Spec => KeptFiles
<1>1. Spec => [][KeptNow]_vars
    BY Inductive, EditsCounted, KeptStep, PTL DEF Spec
<1>2. QED BY <1>1 DEF KeptFiles, KeptNow

\* What FilesWhole says of one step.
WholeNow ==
    \A n \in Names :
        dir'[n] \notin {dir[n], Absent} =>
            \/ \E v \in Versions : dir'[n] = Whole(v)
            \/ /\ edits' # edits
               /\ \E p \in Paths : dir'[n] = dir[p] /\ dir'[p] = Absent

LEMMA WholeStep == IInv /\ Counted /\ [Next]_vars => [WholeNow]_vars
<1> SUFFICES ASSUME IInv, edits \in Nat, Next PROVE WholeNow
    BY DEF Counted
<1>1. TypeOK /\ Served /\ \A n \in Names : n \in Paths
    BY PathFacts DEF IInv
<1>2. CASE UNCHANGED dir
    BY <1>2 DEF WholeNow
<1>3. CASE \A n \in Names : dir'[n] = dir[n]
    BY <1>3 DEF WholeNow
<1>4. CASE Publish
    <2>1. PICK v \in Versions : dir' = [dir EXCEPT ![conn.path] = Whole(v),
                                                   ![Incomplete(conn.path)] = Absent]
        BY <1>4, PublishKeeps
    <2>2. conn.path \in Names /\ \A n \in Names : n # conn.path => dir'[n] = dir[n]
        BY <1>4, PublishKeeps
    <2>3. Incomplete(conn.path) # conn.path
        BY <2>2, PathFacts
    <2>4. dir'[conn.path] = Whole(v)
        BY <1>1, <2>1, <2>2, <2>3 DEF TypeOK
    <2>5. QED BY <2>2, <2>4 DEF WholeNow
<1>5. CASE Edits
    <2>1. edits' # edits /\ Edited
        BY <1>5, EditsKeep
    <2>2. CASE \A p \in Paths : dir'[p] \in {dir[p], Absent}
        BY <1>1, <2>2 DEF WholeNow
    <2>3. ASSUME NEW p \in Paths, NEW q \in Paths, p # q,
                 dir' = [dir EXCEPT ![q] = dir[p], ![p] = Absent]
          PROVE  WholeNow
        <3>1. dir'[p] = Absent /\ dir'[q] = dir[p] /\ \A n \in Paths \ {p, q} : dir'[n] = dir[n]
            BY <1>1, <2>3 DEF TypeOK
        <3>2. QED BY <1>1, <2>1, <3>1 DEF WholeNow
    <2>4. QED BY <2>1, <2>2, <2>3 DEF Edited
<1>6. CASE Onward
    BY <1>2, <1>6 DEF Onward
<1>7. CASE \/ \E p \in Paths, resume \in BOOLEAN : RequestDownload(p, resume)
           \/ \E n \in Names : RequestUpload(n)
           \/ RequestFolderDownload \/ RequestBanner
           \/ \E k \in Items : RequestFolderUpload(k)
           \/ \E r \in DOMAIN grant : Start(r)
           \/ Crash
    BY <1>2, <1>7 DEF RequestDownload, RequestUpload, RequestFolderDownload, RequestBanner,
                      RequestFolderUpload, Approve, Start, Crash
<1>8. QED BY <1>1, <1>2, <1>3, <1>4, <1>5, <1>6, <1>7, NextCases, OnwardCases, ForksKeep, BodyKeeps,
          EndsKeep, HangUpKeeps

\* What a transfer puts under a file's own name is one upload, whole, whatever
\* was cut off, raced for the name or crashed (handle_file_transfer_connection's
\* .incomplete).
THEOREM FilesStayWhole == Spec => FilesWhole
<1>1. Spec => [][WholeNow]_vars
    BY Inductive, EditsCounted, WholeStep, PTL DEF Spec
<1>2. QED BY <1>1 DEF FilesWhole, WholeNow

-----------------------------------------------------------------------------
(* Downloads of files below 4 GiB: what was promised is sent, and a copy     *)
(* that is resumed joins up.  Every step keeps DInv, by what it does to the  *)
(* copies, the grants and the connection.                                    *)

LEMMA ModBelow ==
    ASSUME NEW x \in Nat, x < Wire
    PROVE  x % Wire = x
  BY BoundsOK

LEMMA PartIs ==
    ASSUME SizesBelow, NEW data, IsPart(data)
    PROVE  /\ data \in Seq(Units) /\ Len(data) \in Nat /\ Overhead + Len(data) < Wire
           /\ Len(data) % Wire = Len(data) /\ Capped(Len(data)) = Len(data)
           /\ \A i \in 1 .. Len(data) : \E v \in Versions : i <= SizeOf[v] /\ data[i] = <<v, i>>
<1>1. PICK v \in Versions : \E k \in 0 .. SizeOf[v] : data = Part(v, k)
    BY DEF IsPart
<1>2. PICK k \in 0 .. SizeOf[v] : data = Part(v, k)
    BY <1>1
<1>3. /\ data \in Seq(Units) /\ Len(data) = k /\ \A i \in 1 .. k : data[i] = <<v, i>>
    BY <1>2, PartFacts
<1>4. k \in Nat /\ SizeOf[v] \in Nat /\ Overhead + SizeOf[v] < Wire /\ k <= SizeOf[v]
    BY SizesFit DEF SizesBelow
<1>5. Overhead + k < Wire /\ k < Wire
    BY <1>4, BoundsOK
<1>6. k % Wire = k
    BY <1>4, <1>5, ModBelow
<1>7. \A i \in 1 .. k : i <= SizeOf[v] /\ data[i] = <<v, i>>
    BY <1>3, <1>4
<1>8. QED BY <1>3, <1>4, <1>5, <1>6, <1>7 DEF Capped

\* The steps that do not touch the copies, the grants and what is sent.
LEMMA StillD ==
    ASSUME IInv, DInv, UNCHANGED <<grant, have>>, ended \subseteq ended',
           conn'.stage # "send" \/ conn' = conn,
           conn.stage = "send" /\ conn' # conn => grant[conn.ref].kind # "download" \/ conn.ref \in ended',
           \A p \in Paths : dir'[p] # Absent => IsPart(dir'[p])
    PROVE  DInv'
<1>1. Parts /\ Ordered /\ Asked /\ OneWaits /\ Position
    BY DEF DInv
<1>2. Parts'
    BY <1>1 DEF Parts
<1>3. Ordered'
    BY <1>1 DEF Ordered
<1>4. Asked'
    BY <1>1 DEF Asked
<1>5. OneWaits'
    BY <1>1 DEF OneWaits
<1>6. Position'
    BY <1>1 DEF Position
<1>7. QED BY <1>2, <1>3, <1>4, <1>5, <1>6 DEF DInv

LEMMA DRequestDownload ==
    ASSUME IInv, DInv, NEW p \in Paths, NEW resume \in BOOLEAN, RequestDownload(p, resume)
    PROVE  DInv'
<1> DEFINE asked == Len(have'[p])
           g == [kind |-> "download", path |-> p, asked |-> asked, resume |-> resume,
                 promised |-> Promised(Len(dir[p]), asked), was |-> dir[p]]
           r == Len(grant) + 1
<1>1. /\ TypeOK /\ Parts /\ Ordered /\ Asked /\ OneWaits
    BY DEF IInv, DInv
<1>2. /\ have' = IF resume THEN have ELSE [have EXCEPT ![p] = <<>>]
      /\ grant' = Append(grant, g) /\ UNCHANGED <<dir, ended, conn>> /\ conn = Idle
      /\ \A q \in DOMAIN grant \ ended : ~(grant[q].kind = "download" /\ grant[q].path = p)
    BY DEF RequestDownload, Approve, Waiting
<1>3. grant \in Seq(Grant) /\ grant' \in Seq(Grant)
    BY <1>1, RequestsKeep DEF IInv, TypeOK
<1>4. /\ have \in [Paths -> Seq(Units)] /\ Len(<<>>) = 0 /\ <<>> \in Seq(Units)
    BY <1>1, EmptySeq DEF TypeOK
<1>5. /\ ~resume => asked = 0 /\ DOMAIN have'[p] = {}
      /\ resume => have' = have
      /\ \A q \in Paths : q # p => have'[q] = have[q]
    BY <1>2, <1>4
<1>6. g.kind = "download" /\ g.path = p /\ g.asked = asked /\ g.resume = resume
      /\ g.promised = Promised(Len(g.was), g.asked)
    OBVIOUS
<1> HIDE DEF g, asked
<1>7. /\ DOMAIN grant = 1 .. Len(grant) /\ Len(grant) \in Nat /\ DOMAIN grant' = 1 .. Len(grant')
      /\ Len(grant') = r
    <2>1. /\ DOMAIN grant = 1 .. Len(grant) /\ Len(grant) \in Nat /\ DOMAIN grant' = 1 .. Len(grant')
        BY <1>3, LenProperties
    <2>2. Len(grant') = r
        BY <1>2, <1>3
    <2>3. QED BY <2>1, <2>2
<1>8. /\ grant'[r] = g /\ \A q \in 1 .. Len(grant) : grant'[q] = grant[q]
    BY <1>2, <1>3, <1>7
<1>9. /\ DOMAIN grant' = DOMAIN grant \cup {r} /\ \A q \in DOMAIN grant : grant'[q] = grant[q]
    BY <1>7, <1>8
<1> HIDE DEF r
<1>10. Idle.stage = "idle"
    BY DEF Idle
<1>11. Parts' /\ Position'
    BY <1>1, <1>2, <1>10 DEF Parts, Position
<1>12. Ordered'
    BY <1>1, <1>5 DEF Ordered
<1>13. Asked'
    <2>1. SUFFICES ASSUME NEW q \in DOMAIN grant', grant'[q].kind = "download"
                   PROVE  /\ ~grant'[q].resume => grant'[q].asked = 0
                          /\ grant'[q].promised = Promised(Len(grant'[q].was), grant'[q].asked)
                          /\ q \notin ended => Len(have'[grant'[q].path]) = grant'[q].asked
        BY <1>2 DEF Asked
    <2>2. CASE q = r
        BY <1>5, <1>6, <1>8, <2>2 DEF asked
    <2>3. CASE q \in DOMAIN grant
        <3>1. grant'[q] = grant[q] /\ grant[q].path \in Paths
            BY <1>1, <1>9, <2>1, <2>3, GrantFields
        <3>2. /\ ~grant[q].resume => grant[q].asked = 0
              /\ grant[q].promised = Promised(Len(grant[q].was), grant[q].asked)
              /\ q \notin ended => Len(have[grant[q].path]) = grant[q].asked
            BY <1>1, <1>2, <1>10, <2>1, <2>3, <3>1 DEF Asked
        <3>3. q \notin ended => grant[q].path # p
            BY <1>2, <2>1, <2>3, <3>1
        <3>4. QED BY <1>5, <3>1, <3>2, <3>3
    <2>4. QED BY <1>9, <2>2, <2>3
<1>14. OneWaits'
    BY <1>1, <1>2, <1>6, <1>8, <1>9 DEF OneWaits
<1>15. QED BY <1>11, <1>12, <1>13, <1>14 DEF DInv

\* The approval of anything else.
LEMMA DApprove ==
    ASSUME IInv, DInv, NEW g \in Grant, g.kind # "download", Approve(g), UNCHANGED have
    PROVE  DInv'
<1> DEFINE r == Len(grant) + 1
<1>1. /\ TypeOK /\ Parts /\ Ordered /\ Asked /\ OneWaits
      /\ grant' = Append(grant, g) /\ UNCHANGED <<dir, ended, conn>> /\ conn = Idle
    BY DEF IInv, DInv, Approve
<1>2. grant \in Seq(Grant)
    BY <1>1 DEF TypeOK
<1>3. /\ DOMAIN grant = 1 .. Len(grant) /\ Len(grant) \in Nat
      /\ grant' \in Seq(Grant) /\ Len(grant') = r
      /\ grant'[r] = g /\ \A q \in 1 .. Len(grant) : grant'[q] = grant[q]
    BY <1>1, <1>2, LenProperties, AppendProperties
<1>4. DOMAIN grant' = 1 .. r
    BY <1>3, LenProperties
<1>5. /\ DOMAIN grant' = DOMAIN grant \cup {r} /\ \A q \in DOMAIN grant : grant'[q] = grant[q]
    BY <1>3, <1>4
<1> HIDE DEF r
<1>6. Idle.stage = "idle"
    BY DEF Idle
<1>7. Parts' /\ Position' /\ Ordered'
    BY <1>1, <1>6 DEF Parts, Position, Ordered
<1>8. \A q \in DOMAIN grant' : grant'[q].kind = "download" => q \in DOMAIN grant /\ grant'[q] = grant[q]
    BY <1>3, <1>5
<1>9. Asked'
    BY <1>1, <1>8 DEF Asked
<1>10. OneWaits'
    BY <1>1, <1>8 DEF OneWaits
<1>11. QED BY <1>7, <1>9, <1>10 DEF DInv

LEMMA DRequests ==
    ASSUME IInv, DInv,
           \/ \E p \in Paths, resume \in BOOLEAN : RequestDownload(p, resume)
           \/ \E n \in Names : RequestUpload(n)
           \/ RequestFolderDownload \/ RequestBanner
           \/ \E k \in Items : RequestFolderUpload(k)
    PROVE  DInv'
<1>1. TypeOK
    BY DEF IInv
<1>2. CASE \E p \in Paths, resume \in BOOLEAN : RequestDownload(p, resume)
    BY <1>2, DRequestDownload
<1>3. ASSUME NEW n \in Names, RequestUpload(n)
      PROVE  DInv'
    <2> DEFINE g == [kind |-> "upload", path |-> n, was |-> dir[n]]
    <2>1. dir[n] = Absent /\ Approve(g) /\ have' = have /\ g.kind # "download"
        BY <1>3 DEF RequestUpload, MayUpload
    <2>2. g \in Grant
        BY <2>1 DEF Grant, Contents
    <2> HIDE DEF g
    <2>3. QED BY <2>1, <2>2, DApprove
<1>4. CASE RequestFolderDownload
    <2> DEFINE g == [kind |-> "folderDown", items |-> ItemCount]
    <2>1. Approve(g) /\ have' = have /\ g.kind # "download"
        BY <1>4 DEF RequestFolderDownload
    <2>2. g \in Grant
        BY <1>1, ItemsCounted DEF Grant
    <2> HIDE DEF g
    <2>3. QED BY <2>1, <2>2, DApprove
<1>5. CASE RequestBanner
    <2> DEFINE g == [kind |-> "banner"]
    <2>1. Approve(g) /\ have' = have /\ g.kind # "download"
        BY <1>5 DEF RequestBanner
    <2>2. g \in Grant
        BY DEF Grant
    <2> HIDE DEF g
    <2>3. QED BY <2>1, <2>2, DApprove
<1>6. ASSUME NEW k \in Items, RequestFolderUpload(k)
      PROVE  DInv'
    <2> DEFINE g == [kind |-> "folderUp", items |-> k]
    <2>1. Approve(g) /\ have' = have /\ g.kind # "download"
        BY <1>6 DEF RequestFolderUpload
    <2>2. g \in Grant
        BY DEF Grant
    <2> HIDE DEF g
    <2>3. QED BY <2>1, <2>2, DApprove
<1>7. QED BY <1>2, <1>3, <1>4, <1>5, <1>6

LEMMA DOpen ==
    ASSUME SizesBelow, IInv, DInv, Open
    PROVE  DInv'
<1> DEFINE data == dir[conn.path]
           g == grant[conn.ref]
<1>1. /\ TypeOK /\ Served /\ Parts /\ Ordered /\ Asked /\ OneWaits
    BY DEF IInv, DInv
<1>2. /\ conn.stage = "open" /\ data # Absent /\ UNCHANGED <<dir, grant, table, ended, have>>
      /\ conn' = [stage |-> "send", ref |-> conn.ref, path |-> conn.path, data |-> data,
                  at |-> Offset(g, Len(data)), sent |-> 0, rest |-> {}]
    BY DEF Open
<1>3. conn.ref \in Refs({"download"}) /\ conn.path \in Paths /\ conn.ref \notin ended
    BY <1>1, <1>2, ConnFields DEF TypeOK
<1>4. conn.ref \in DOMAIN grant /\ g.kind = "download" /\ conn.path = g.path
    BY <1>1, <1>2, <1>3 DEF Refs, Served
<1>5. g.asked \in Nat /\ g.resume \in BOOLEAN
    BY <1>1, <1>4, GrantFields
<1>6. /\ ~g.resume => g.asked = 0
      /\ Len(have[conn.path]) = g.asked
    BY <1>1, <1>2, <1>3, <1>4 DEF Asked
<1>7. IsPart(data)
    BY <1>1, <1>2, <1>3 DEF Parts
<1>8. Len(data) \in Nat /\ Len(data) % Wire = Len(data)
    BY <1>7, PartIs
<1> HIDE DEF data, g
<1>9. Offset(g, Len(data)) = AtMost(g.asked, Len(data))
    BY <1>5, <1>6, <1>8 DEF Offset, AtMost
<1>10. /\ AtMost(g.asked, Len(data)) \in Nat /\ AtMost(g.asked, Len(data)) <= Len(data)
       /\ AtMost(g.asked, Len(data)) < Len(data) => AtMost(g.asked, Len(data)) = g.asked
    BY <1>5, <1>8 DEF AtMost
<1>11. /\ conn'.stage = "send" /\ conn'.ref = conn.ref /\ conn'.path = conn.path
       /\ conn'.data = data /\ conn'.at = AtMost(g.asked, Len(data)) /\ conn'.sent = 0
    BY <1>2, <1>9
<1>12. Parts' /\ Ordered' /\ OneWaits'
    BY <1>1, <1>2, <1>7, <1>11 DEF Parts, Ordered, OneWaits
<1>13. Asked'
    BY <1>1, <1>2 DEF Asked
<1>14. conn'.at = AtMost(g.asked, Len(data)) + 0
    BY <1>10, <1>11
<1>15. Position'
    BY <1>2, <1>6, <1>10, <1>11, <1>14 DEF Position, g
<1>16. QED BY <1>12, <1>13, <1>15 DEF DInv

LEMMA DSendItem ==
    ASSUME IInv, DInv, NEW p \in Paths, SendItem(p)
    PROVE  DInv'
<1>1. /\ TypeOK /\ Parts /\ Ordered /\ Asked /\ OneWaits
      /\ conn.stage = "items" /\ dir[p] # Absent /\ UNCHANGED <<dir, grant, table, ended, have>>
      /\ conn' = [stage |-> "send", ref |-> conn.ref, path |-> p, data |-> dir[p],
                  at |-> 0, sent |-> 0, rest |-> conn.rest \ {p}]
    BY DEF IInv, DInv, SendItem
<1>2. conn.ref \in Refs({"folderDown"})
    BY <1>1, ConnFields DEF TypeOK
<1>3. conn'.ref = conn.ref /\ conn'.data = dir[p] /\ grant[conn.ref].kind = "folderDown"
    BY <1>1, <1>2 DEF Refs
<1>4. Parts' /\ Ordered' /\ OneWaits' /\ Position'
    BY <1>1, <1>3 DEF Parts, Ordered, OneWaits, Position
<1>5. Asked'
    BY <1>1 DEF Asked
<1>6. QED BY <1>4, <1>5 DEF DInv

LEMMA DSendData ==
    ASSUME SizesBelow, IInv, DInv, SendData
    PROVE  DInv'
<1> DEFINE g == grant[conn.ref]
           p == conn.path
           n == conn.at + 1
<1>1. /\ TypeOK /\ Served /\ Parts /\ Ordered /\ Asked /\ OneWaits /\ Position
    BY DEF IInv, DInv
<1>2. /\ conn.stage = "send" /\ conn.at < Len(conn.data) /\ UNCHANGED <<dir, grant, table, ended>>
      /\ conn' = [conn EXCEPT !.at = @ + 1, !.sent = @ + 1]
      /\ have' = IF g.kind = "download" THEN [have EXCEPT ![p] = Append(@, conn.data[n])] ELSE have
    BY DEF SendData
<1>3. /\ conn \in [stage : {"send"}, ref : Refs({"download", "folderDown"}), path : Paths,
                   data : Seq(Units), at : Nat, sent : Nat, rest : SUBSET Paths]
      /\ conn.ref \notin ended
    BY <1>1, <1>2, ConnFields DEF TypeOK
<1>4. /\ conn'.stage = "send" /\ conn'.ref = conn.ref /\ conn'.path = p /\ conn'.data = conn.data
      /\ conn'.at = n /\ conn'.sent = conn.sent + 1
    BY <1>2, <1>3
<1>5. p \in Paths /\ conn.at \in Nat /\ conn.sent \in Nat /\ conn.ref \in DOMAIN grant
    BY <1>3 DEF Refs
<1>6. IsPart(conn.data)
    BY <1>1, <1>2 DEF Parts
<1>7. /\ conn.data \in Seq(Units) /\ Len(conn.data) \in Nat
      /\ \A i \in 1 .. Len(conn.data) : \E v \in Versions : i <= SizeOf[v] /\ conn.data[i] = <<v, i>>
    BY <1>6, PartIs
<1>8. n \in 1 .. Len(conn.data)
    BY <1>2, <1>5, <1>7
<1>9. /\ conn.data[n] \in Units /\ \E v \in Versions : n <= SizeOf[v] /\ conn.data[n] = <<v, n>>
    BY <1>7, <1>8, ElementOfSeq
<1>10. Parts' /\ OneWaits'
    BY <1>1, <1>2, <1>4 DEF Parts, OneWaits
<1>11. CASE g.kind # "download"
    <2>1. have' = have
        BY <1>2, <1>11
    <2>2. Ordered' /\ Position'
        BY <1>1, <1>2, <1>4, <1>11, <2>1 DEF Ordered, Position
    <2>3. Asked'
        BY <1>1, <1>2, <1>4, <1>11, <2>1 DEF Asked
    <2>4. QED BY <1>10, <2>2, <2>3 DEF DInv
<1>12. CASE g.kind = "download"
    <2>1. /\ conn.at = AtMost(g.asked, Len(conn.data)) + conn.sent
          /\ conn.at = Len(have[p]) /\ p = g.path
        BY <1>1, <1>2, <1>12 DEF Position, Served
    <2>2. g.asked \in Nat
        BY <1>1, <1>5, <1>12, GrantFields
    <2>3. have[p] \in Seq(Units) /\ have' = [have EXCEPT ![p] = Append(have[p], conn.data[n])]
        BY <1>1, <1>2, <1>5, <1>12 DEF TypeOK
    <2>4. have \in [Paths -> Seq(Units)]
        BY <1>1 DEF TypeOK
    <2>5. /\ have'[p] = Append(have[p], conn.data[n])
          /\ \A q \in Paths : q # p => have'[q] = have[q]
        BY <1>5, <2>3, <2>4
    <2>6. /\ have'[p] \in Seq(Units) /\ Len(have'[p]) = n
          /\ \A i \in 1 .. Len(have[p]) : have'[p][i] = have[p][i]
          /\ have'[p][n] = conn.data[n]
        <3>1. n = Len(have[p]) + 1
            BY <2>1
        <3>2. QED BY <1>9, <2>3, <2>5, <3>1, AppendProperties
    <2>7. DOMAIN have[p] = 1 .. Len(have[p]) /\ DOMAIN have'[p] = 1 .. n
        BY <2>3, <2>6, LenProperties
    <2>8. \A i \in DOMAIN have'[p] : i = n \/ i \in DOMAIN have[p]
        BY <1>5, <2>1, <2>7
    <2>9. Ordered'
        <3>1. \A i \in DOMAIN have'[p] : \E v \in Versions : i <= SizeOf[v] /\ have'[p][i] = <<v, i>>
            BY <1>1, <1>5, <1>9, <2>6, <2>7, <2>8 DEF Ordered
        <3>2. QED BY <1>1, <2>5, <3>1 DEF Ordered
    <2>10. Asked'
        <3>1. \A r \in DOMAIN grant \ ended :
                grant[r].kind = "download" /\ r # conn.ref => grant[r].path # p
            BY <1>1, <1>3, <1>5, <1>12, <2>1 DEF OneWaits
        <3>2. \A r \in DOMAIN grant : grant[r].kind = "download" => grant[r].path \in Paths
            BY <1>1, GrantFields
        <3>3. QED BY <1>1, <1>2, <1>4, <2>5, <3>1, <3>2 DEF Asked
    <2>11. Position'
        <3>1. AtMost(g.asked, Len(conn.data)) \in Nat
            BY <1>7, <2>2 DEF AtMost
        <3> DEFINE a == AtMost(g.asked, Len(conn.data))
        <3> HIDE DEF a
        <3>2. n = a + (conn.sent + 1) /\ n <= Len(conn.data)
            BY <1>5, <1>8, <2>1, <3>1 DEF a
        <3>3. QED BY <1>2, <1>4, <2>6, <3>2 DEF Position, a
    <2>12. QED BY <1>10, <2>9, <2>10, <2>11 DEF DInv
<1>13. QED BY <1>11, <1>12

\* The folder's own steps leave beginnings of uploads behind, or nothing.
LEMMA DUploads ==
    ASSUME IInv, DInv, Body \/ Publish \/ \E v \in Versions : Forks(v)
    PROVE  DInv'
<1>1. TypeOK /\ Parts
    BY DEF IInv, DInv
<1>2. /\ UNCHANGED <<grant, have>> /\ conn.stage \in {"body", "forks"}
      /\ conn'.stage # "send" /\ ended \subseteq ended'
    <2>1. CASE Body
        <3>1. /\ conn.stage = "body" /\ UNCHANGED <<grant, have, ended>>
              /\ conn' = [conn EXCEPT !.got = @ + 1]
            BY <2>1 DEF Body
        <3>2. conn \in [stage : {"body"}, ref : Refs({"upload", "folderUp"}), path : Names,
                        left : Nat, version : Versions, got : Nat]
            BY <1>1, <3>1, ConnFields DEF TypeOK
        <3>3. conn'.stage = "body"
            BY <3>1, <3>2
        <3>4. QED BY <3>1, <3>3
    <2>2. CASE Publish \/ \E v \in Versions : Forks(v)
        BY <2>2 DEF Publish, Forks, End, Idle
    <2>3. QED BY <2>1, <2>2
<1>3. conn.path \in Names
    BY <1>1, <1>2, ConnFields DEF TypeOK
<1>4. conn.path \in Paths /\ Incomplete(conn.path) \in Paths
    BY <1>3, PathFacts
<1>5. \/ \E v \in Versions : \E k \in 0 .. SizeOf[v] :
            dir' = [dir EXCEPT ![Incomplete(conn.path)] = Part(v, k)]
      \/ \E v \in Versions : dir' = [dir EXCEPT ![conn.path] = Whole(v),
                                                ![Incomplete(conn.path)] = Absent]
    <2>1. CASE Body
        BY <2>1, BodyKeeps
    <2>2. CASE Publish
        BY <2>2, PublishKeeps
    <2>3. ASSUME NEW v \in Versions, Forks(v)
          PROVE  \E k \in 0 .. SizeOf[v] : dir' = [dir EXCEPT ![Incomplete(conn.path)] = Part(v, k)]
        <3>1. 0 \in 0 .. SizeOf[v]
            BY SizesFit
        <3>2. QED BY <2>3, <3>1, ForksKeep
    <2>4. QED BY <2>1, <2>2, <2>3
<1>6. \A p \in Paths : dir'[p] = dir[p] \/ dir'[p] = Absent \/ IsPart(dir'[p])
    <2>1. dir \in [Paths -> Contents]
        BY <1>1 DEF TypeOK
    <2>2. \A v \in Versions : IsPart(Whole(v)) /\ \A k \in 0 .. SizeOf[v] : IsPart(Part(v, k))
        BY WholeIsPart DEF IsPart
    <2>3. QED BY <1>4, <1>5, <2>1, <2>2
<1>7. \A p \in Paths : dir'[p] # Absent => IsPart(dir'[p])
    BY <1>1, <1>6 DEF Parts
<1>8. QED BY <1>2, <1>7, StillD

LEMMA DEdits ==
    ASSUME IInv, DInv, Edits
    PROVE  DInv'
<1>1. TypeOK /\ Parts
    BY DEF IInv, DInv
<1>2. UNCHANGED <<grant, have, conn, ended>> /\ \A n \in Names : n \in Paths
    BY PathFacts DEF Edits, DeleteFile, MoveAway, RenameFile, Edit
<1>3. dir \in [Paths -> Contents]
    BY <1>1 DEF TypeOK
<1>4. \A p \in Paths : dir'[p] = Absent \/ \E q \in Paths : dir'[p] = dir[q]
    BY <1>3, EditsKeep DEF Edited
<1>5. \A p \in Paths : dir'[p] # Absent => IsPart(dir'[p])
    BY <1>1, <1>4 DEF Parts
<1>6. QED BY <1>2, <1>5, StillD

LEMMA DOthers ==
    ASSUME IInv, DInv,
           \/ \E r \in DOMAIN grant : Start(r) \/ Lookup(r)
           \/ (\E t \in BOOLEAN : Accept(t)) \/ List \/ \E p \in Paths : SkipItem(p)
           \/ \E n \in Names : NextItem(n)
           \/ Sent /\ grant[conn.ref].kind # "download"
           \/ Ends \/ (Fail /\ conn.stage = "header") \/ Crash
    PROVE  DInv'
<1>1. TypeOK /\ Parts
    BY DEF IInv, DInv
<1>2. \A p \in Paths : dir[p] # Absent => IsPart(dir[p])
    BY <1>1 DEF Parts
<1>3. ASSUME NEW r \in DOMAIN grant, Start(r)
      PROVE  DInv'
    <2>1. /\ conn.stage = "header" /\ conn' = Begun(r) /\ UNCHANGED <<dir, grant, ended, have>>
          /\ grant[r].kind \in {"download", "upload", "folderDown", "folderUp", "banner"}
        BY <1>1, <1>3, GrantFields DEF Start
    <2>2. conn'.stage # "send"
        BY <2>1 DEF Begun
    <2>3. QED BY <1>2, <2>1, <2>2, StillD
<1>4. CASE (\E r \in DOMAIN grant : Lookup(r)) \/ (Fail /\ conn.stage = "header")
    <2>1. /\ UNCHANGED <<dir, grant, have>> /\ conn' = Idle /\ ended \subseteq ended'
          /\ conn.stage = "header" /\ Idle.stage = "idle"
        BY <1>4, HangUpKeeps DEF Lookup, Idle
    <2>2. QED BY <1>2, <2>1, StillD
<1>5. CASE \/ (\E t \in BOOLEAN : Accept(t)) \/ List \/ \E p \in Paths : SkipItem(p)
           \/ \E n \in Names : NextItem(n)
           \/ Sent /\ grant[conn.ref].kind # "download"
    <2>1. /\ UNCHANGED <<dir, grant, ended, have>>
          /\ conn.stage = "send" => grant[conn.ref].kind # "download"
        BY <1>5 DEF Accept, List, SkipItem, NextItem, Sent, Idle
    <2>2. conn'.stage # "send"
        <3>1. CASE \E p \in Paths : SkipItem(p)
            <4>1. conn.stage = "items" /\ \E p \in Paths : conn' = [conn EXCEPT !.rest = @ \ {p}]
                BY <3>1 DEF SkipItem
            <4>2. conn \in [stage : {"items"}, ref : Refs({"folderDown"}), rest : SUBSET Paths]
                BY <1>1, <4>1, ConnFields DEF TypeOK
            <4>3. conn'.stage = "items"
                BY <4>1, <4>2
            <4>4. QED BY <4>3
        <3>2. CASE \/ (\E t \in BOOLEAN : Accept(t)) \/ List \/ \E n \in Names : NextItem(n)
                   \/ Sent /\ grant[conn.ref].kind # "download"
            BY <3>2 DEF Accept, List, NextItem, Sent
        <3>3. QED BY <1>5, <3>1, <3>2
    <2>3. QED BY <1>2, <2>1, <2>2, StillD
<1>6. CASE Ends
    <2>1. conn.ref \in DOMAIN grant /\ End(conn.ref) /\ UNCHANGED <<dir, grant, have>>
        BY <1>1, <1>6, EndsFacts
    <2>2. conn' = Idle /\ ended' = ended \cup {conn.ref} /\ Idle.stage = "idle"
        BY <2>1 DEF End, Idle
    <2>3. QED BY <1>2, <2>1, <2>2, StillD
<1>7. CASE Crash
    <2>1. /\ conn' = Idle /\ ended' = DOMAIN grant /\ UNCHANGED <<dir, grant, have>>
          /\ Idle.stage = "idle"
        BY <1>7 DEF Crash, Idle
    <2>2. ended \subseteq ended' /\ (conn.stage = "send" => conn.ref \in ended')
        BY <1>1, <2>1, ConnFields DEF TypeOK
    <2>3. QED BY <1>2, <2>1, <2>2, StillD
<1>8. QED BY <1>3, <1>4, <1>5, <1>6, <1>7

LEMMA InitDInv == Init => DInv
<1> SUFFICES ASSUME Init PROVE DInv
    OBVIOUS
<1>1. PICK d \in Stored : dir = [p \in Paths |-> IF p \in Names THEN d[p] ELSE Absent]
    BY DEF Init
<1>2. /\ grant = <<>> /\ ended = {} /\ conn = Idle /\ have = [p \in Paths |-> <<>>]
      /\ Idle.stage = "idle"
    BY DEF Init, Idle
<1>3. Parts
    <2>1. \A n \in Names : d[n] = Absent \/ IsPart(d[n])
        BY StoredWhole, WholeIsPart
    <2>2. QED BY <1>1, <1>2, <2>1 DEF Parts
<1>4. Ordered /\ Asked /\ OneWaits /\ Position
    BY <1>2 DEF Ordered, Asked, OneWaits, Position
<1>5. QED BY <1>3, <1>4 DEF DInv

LEMMA NextDInv == SizesBelow /\ IInv /\ DInv /\ [Next]_vars => DInv'
<1> SUFFICES ASSUME SizesBelow, IInv, DInv, [Next]_vars PROVE DInv'
    OBVIOUS
<1>1. CASE Next
    BY <1>1, NextCases, DRequests, DOpen, DSendItem, DSendData, DUploads, DEdits, DOthers
<1>2. CASE UNCHANGED vars
    <2>1. UNCHANGED <<dir, grant, ended, conn, have>>
        BY <1>2 DEF vars
    <2>2. QED BY <2>1 DEF DInv, Parts, Ordered, Asked, OneWaits, Position
<1>3. QED BY <1>1, <1>2

LEMMA DownloadsInv == ASSUME SizesBelow PROVE Spec => []DInv
<1>1. IInv /\ DInv /\ [Next]_vars => DInv'
    BY NextDInv
<1>2. QED BY <1>1, InitDInv, Inductive, PTL DEF Spec

\* A download of a file below 4 GiB sends what was promised when it was
\* approved, if the file is still the same (handle_download_file,
\* handle_file_transfer_connection).
THEOREM PromisesAreKept == ASSUME SizesBelow PROVE Spec => []PromiseKept
<1>1. IInv /\ DInv => PromiseKept
    <2> DEFINE g == grant[conn.ref]
    <2>1. SUFFICES ASSUME IInv, DInv, conn.stage = "send", conn.at = Len(conn.data),
                          g.kind = "download", g.was = conn.data
                   PROVE  Overhead + conn.sent = g.promised
        BY DEF PromiseKept
    <2>2. TypeOK /\ Parts /\ Asked /\ Position
        BY <2>1 DEF IInv, DInv
    <2>3. conn.ref \in DOMAIN grant /\ conn.sent \in Nat
        BY <2>1, <2>2, ConnFields DEF TypeOK, Refs
    <2>4. g.asked \in Nat
        BY <2>1, <2>2, <2>3, GrantFields
    <2> DEFINE n == Len(conn.data)
               a == AtMost(g.asked, n)
    <2>5. n \in Nat /\ Overhead + n < Wire /\ Capped(n) = n
        BY <2>1, <2>2, PartIs DEF Parts
    <2>6. n = a + conn.sent
        BY <2>1, <2>2 DEF Position
    <2>7. g.promised = (Overhead + n - a) % Wire
        BY <2>1, <2>2, <2>3, <2>5 DEF Asked, Promised
    <2>8. a \in Nat
        BY <2>4, <2>5 DEF AtMost
    <2> HIDE DEF a, n, g
    <2>9. Overhead + n - a = Overhead + conn.sent /\ Overhead + conn.sent \in Nat
          /\ Overhead + conn.sent < Wire
        BY <2>3, <2>5, <2>6, <2>8, BoundsOK
    <2>10. (Overhead + conn.sent) % Wire = Overhead + conn.sent
        BY <2>9, ModBelow
    <2>11. QED BY <2>7, <2>9, <2>10 DEF g
<1>2. QED BY <1>1, Inductive, DownloadsInv, PTL

\* A resumed download of a file below 4 GiB joins up with what the client has,
\* unless the file was replaced in between (handle_file_transfer_connection).
THEOREM ResumesJoinUp == ASSUME SizesBelow PROVE Spec => []JoinsUp
<1>1. IInv /\ DInv => JoinsUp
    <2>1. SUFFICES ASSUME IInv, DInv, NEW p \in Paths, NEW v \in Versions,
                          \A i \in DOMAIN have[p] : have[p][i][1] = v
                   PROVE  IsPrefix(have[p], Whole(v))
        BY DEF JoinsUp
    <2> DEFINE s == have[p]
               w == Whole(v)
               n == Len(s)
    <2>2. s \in Seq(Units) /\ n \in Nat /\ DOMAIN s = 1 .. n
        BY <2>1, LenProperties DEF IInv, TypeOK
    <2>3. /\ w \in Seq(Units) /\ Len(w) = SizeOf[v] /\ SizeOf[v] \in Nat
          /\ \A i \in 1 .. SizeOf[v] : w[i] = <<v, i>>
        BY WholeIsPart, PartFacts, SizesFit
    <2>4. \A i \in 1 .. n : i <= SizeOf[v] /\ s[i] = <<v, i>>
        <3>1. SUFFICES ASSUME NEW i \in 1 .. n PROVE i <= SizeOf[v] /\ s[i] = <<v, i>>
            OBVIOUS
        <3>2. PICK x \in Versions : i <= SizeOf[x] /\ s[i] = <<x, i>>
            BY <2>1, <2>2 DEF DInv, Ordered
        <3>3. x = v
            BY <2>1, <2>2, <3>2
        <3>4. QED BY <3>2, <3>3
    <2> HIDE DEF s, w, n
    <2>5. n <= Len(w)
        BY <2>2, <2>3, <2>4
    <2>6. \A i \in 1 .. n : s[i] \in Units /\ w[i] \in Units /\ s[i] = w[i]
        <3>1. \A i \in 1 .. n : i \in 1 .. SizeOf[v] /\ <<v, i>> \in Units
            BY <2>2, <2>3, <2>4 DEF Units
        <3>2. QED BY <2>3, <2>4, <3>1
    <2>7. SubSeq(s, 1, n) = SubSeq(w, 1, n)
        BY <2>2, <2>6
    <2>8. QED BY <2>5, <2>7 DEF IsPrefix, s, w, n
<1>2. QED BY <1>1, Inductive, DownloadsInv, PTL
=============================================================================
