--------------------------- MODULE CatalogProofs ---------------------------
(***************************************************************************)
(* Theorems about the catalog's rows, for every set of owners, names,      *)
(* arrays, drafts and documents and every bound on ids and nesting.        *)
(*                                                                         *)
(* CatInv is inductive.  Its extra conjuncts are about the savepoints: a   *)
(* rollback installs what a level saved, so that has to be sound too, and  *)
(* it brings the id mark back down, so a committed id has to be below the  *)
(* mark of every open level and not only below the current one.            *)
(***************************************************************************)
EXTENDS Catalog, TLAPS

\* The shape of a prefix of the savepoint stack.
LEMMA Prefix ==
    ASSUME NEW S, NEW w \in Seq(S), NEW n \in Nat, n <= Len(w)
    PROVE  /\ SubSeq(w, 1, n) \in Seq(S)
           /\ Len(SubSeq(w, 1, n)) = n
           /\ DOMAIN SubSeq(w, 1, n) = 1 .. n
           /\ DOMAIN w = 1 .. Len(w)
           /\ \A i \in 1 .. n : SubSeq(w, 1, n)[i] = w[i]
OBVIOUS

\* The shape of the stack itself.
LEMMA SeqElements ==
    ASSUME NEW S, NEW w \in Seq(S)
    PROVE  Len(w) \in Nat /\ DOMAIN w = 1 .. Len(w) /\ \A i \in DOMAIN w : w[i] \in S
OBVIOUS

\* Opening a level.
LEMMA Appended ==
    ASSUME NEW S, NEW w \in Seq(S), NEW e \in S
    PROVE  /\ Append(w, e) \in Seq(S)
           /\ Len(Append(w, e)) = Len(w) + 1
           /\ DOMAIN Append(w, e) = 1 .. (Len(w) + 1)
           /\ Append(w, e)[Len(w) + 1] = e
           /\ \A i \in DOMAIN w : Append(w, e)[i] = w[i]
OBVIOUS

\* A draft becomes a row that differs from it in the id alone.
LEMMA RowOfDraft ==
    ASSUME NEW d \in Drafts, NEW i \in 1 .. MaxId
    PROVE  /\ RowOf(d, i) \in Rows
           /\ RowOf(d, i).id = i
           /\ RowOf(d, i).type = d.type
           /\ RowOf(d, i).arr = d.arr
           /\ Family(RowOf(d, i)) = Family(d)
BY DEF Drafts, Rows, RowOf, Family

\* What a savepoint holds.
LEMMA SavedTyped ==
    ASSUME CatInv
    PROVE  /\ saved \in Seq([rows : SUBSET Rows, seq : 0 .. MaxId])
           /\ Len(saved) \in Nat
           /\ DOMAIN saved = 1 .. Len(saved)
           /\ \A i \in DOMAIN saved : /\ saved[i].rows \subseteq Rows
                                      /\ saved[i].seq \in Nat
                                      /\ saved[i].seq \in 0 .. MaxId
<1>1. saved \in Seq([rows : SUBSET Rows, seq : 0 .. MaxId])
    BY DEF CatInv, TypeOK
<1>2. \A i \in DOMAIN saved : saved[i] \in [rows : SUBSET Rows, seq : 0 .. MaxId]
    BY <1>1, SeqElements, Zenon
<1>3. \A n \in 0 .. MaxId : n \in Nat
    BY CatalogConstants
<1>4. ASSUME NEW i \in DOMAIN saved
      PROVE  /\ saved[i].rows \subseteq Rows
             /\ saved[i].seq \in Nat
             /\ saved[i].seq \in 0 .. MaxId
    <2>1. saved[i] \in [rows : SUBSET Rows, seq : 0 .. MaxId]
        BY <1>2
    <2>2. saved[i].rows \in SUBSET Rows /\ saved[i].seq \in 0 .. MaxId
        BY <2>1
    <2> QED
        BY <2>2, <1>3
<1>5. Len(saved) \in Nat /\ DOMAIN saved = 1 .. Len(saved)
    BY <1>1, SeqElements, Zenon
<1> QED
    BY <1>1, <1>4, <1>5

\* Any call outside the transaction machinery: the rows it leaves are either
\* filed under fresh ids or are the series their ids already meant.
LEMMA CallInv ==
    ASSUME CatInv, Learn, UNCHANGED saved, revision' \in 1 .. 2,
           rows' \subseteq Rows, seq' \in seq .. MaxId,
           WellFiled(rows', seq'), FamilyExclusiveIn(rows'),
           \A w \in rows' : \/ w.id > seq
                            \/ \E r \in rows : r.id = w.id /\ Series(r) = Series(w)
    PROVE  CatInv'
<1>1. seq \in Nat /\ seq' \in Nat /\ seq <= seq' /\ seq' <= MaxId /\ MaxId \in Nat
    BY CatalogConstants DEF CatInv, TypeOK
<1>2. TypeOK'
    BY <1>1 DEF CatInv, TypeOK
<1>3. \A r \in rows' : r.id \in 1 .. seq'
    BY <1>1 DEF Rows, WellFiled
<1>4. \A w \in rows' : \A k \in known : k[1] = w.id => k[2] = Series(w)
    <2> SUFFICES ASSUME NEW w \in rows', NEW k \in known, k[1] = w.id
                 PROVE  k[2] = Series(w)
        OBVIOUS
    <2>1. k[1] \in 1 .. seq
        BY DEF CatInv, KnownIssued
    <2>2. ~(w.id > seq)
        BY <2>1, <1>1
    <2>3. PICK r \in rows : r.id = w.id /\ Series(r) = Series(w)
        BY <2>2
    <2>4. k[2] = Series(r)
        BY <2>3 DEF CatInv, IdKeepsItsMeaning, Agrees
    <2> QED
        BY <2>3, <2>4
<1>5. CASE saved # <<>>
    <2>1. known' = known
        BY <1>5 DEF Learn
    <2>21. IdKeepsItsMeaning'
        BY <1>4, <2>1 DEF IdKeepsItsMeaning, Agrees
    <2>22. SavedSound /\ saved' = saved
        BY DEF CatInv
    <2>2. SavedSound'
        BY <2>1, <2>22 DEF SavedSound, Agrees
    <2>3. \A i \in DOMAIN saved : saved[i].seq <= seq /\ saved[i].seq \in Nat
        BY SavedTyped DEF CatInv, MarksRise
    <2>4. MarksRise' /\ KnownIssued'
        BY <1>1, <2>1, <2>3 DEF CatInv, MarksRise, KnownIssued
    <2> QED
        BY <1>2, <2>2, <2>21, <2>4 DEF CatInv, FamilyExclusive
<1>6. CASE saved = <<>>
    <2>1. known' = known \cup {<<r.id, Series(r)>> : r \in rows'}
        BY <1>6 DEF Learn
    <2>2. \A k \in known' : k[1] \in 1 .. seq'
        <3> SUFFICES ASSUME NEW k \in known' PROVE k[1] \in 1 .. seq'
            OBVIOUS
        <3>1. CASE k \in known
            <4>1. k[1] \in 1 .. seq
                BY <3>1 DEF CatInv, KnownIssued
            <4> QED BY <4>1, <1>1
        <3>2. CASE k \notin known
            <4>1. PICK r \in rows' : k = <<r.id, Series(r)>>
                BY <3>2, <2>1
            <4> QED BY <4>1, <1>3
        <3> QED BY <3>1, <3>2
    <2>3. IdKeepsItsMeaning'
        <3> SUFFICES ASSUME NEW w \in rows', NEW k \in known', k[1] = w.id
                     PROVE  k[2] = Series(w)
            BY DEF IdKeepsItsMeaning, Agrees, Series
        <3>1. CASE k \in known
            BY <3>1, <1>4
        <3>2. CASE k \notin known
            <4>1. PICK r \in rows' : k = <<r.id, Series(r)>>
                BY <3>2, <2>1
            <4>2. r = w
                BY <4>1 DEF WellFiled
            <4> QED BY <4>1, <4>2
        <3> QED BY <3>1, <3>2
    <2>4. DOMAIN saved' = {}
        BY <1>6
    <2>5. SavedSound' /\ MarksRise' /\ KnownIssued'
        BY <2>2, <2>4 DEF SavedSound, MarksRise, KnownIssued
    <2> QED
        BY <1>2, <2>3, <2>5 DEF CatInv, FamilyExclusive
<1> QED
    BY <1>5, <1>6

\* What FamilyFree rules out, in either direction.
LEMMA FreeBothWays ==
    ASSUME NEW R, NEW d, FamilyFree(R, d)
    PROVE  /\ d.type = "DET" => ~FamilyHas(R, Family(d), "DST")
           /\ d.type = "DST" => ~FamilyHas(R, Family(d), "DET")
BY DEF FamilyFree, Counterpart

\* Drafts filed under fresh ids, each checked against the rows and against each
\* other, keep the invariant.
LEMMA FilingInv ==
    ASSUME CatInv, Learn, UNCHANGED <<revision, saved>>,
           NEW D \in SUBSET Drafts, NEW last \in seq .. MaxId,
           NEW f \in [D -> (seq + 1) .. last],
           \A d, e \in D : f[d] = f[e] => d = e,
           \A d \in D : FamilyFree(rows, d),
           \A d, e \in D : d.type = "DET" /\ e.type = "DST" => Family(d) # Family(e),
           rows' = Filed(rows, D, f), seq' = last
    PROVE  CatInv'
<1>1. seq \in Nat /\ MaxId \in Nat /\ last \in Nat /\ seq <= last /\ last <= MaxId
    BY CatalogConstants DEF CatInv, TypeOK
<1>2. \A d \in D : f[d] \in 1 .. MaxId /\ f[d] > seq /\ f[d] <= last
    BY <1>1
<1>3. \A w \in rows' : w \in rows \/ \E d \in D : w = RowOf(d, f[d])
    BY DEF Filed
<1>4. rows' \subseteq Rows
    BY <1>2, <1>3, RowOfDraft DEF CatInv, TypeOK
<1>5. \A r \in rows : r.id \in Nat /\ r.id <= seq
    BY <1>1 DEF CatInv, TypeOK, WellFiled, Rows
<1>6. \A w \in rows' : w.id <= last
    <2> SUFFICES ASSUME NEW w \in rows' PROVE w.id <= last
        OBVIOUS
    <2>1. CASE w \in rows
        BY <2>1, <1>1, <1>5
    <2>2. CASE \E d \in D : w = RowOf(d, f[d])
        <3>1. PICK d \in D : w = RowOf(d, f[d])
            BY <2>2
        <3>2. w.id = f[d]
            BY <3>1, <1>2, RowOfDraft
        <3> QED BY <3>2, <1>2
    <2> QED BY <2>1, <2>2, <1>3
<1>7. \A w, x \in rows' : w.id = x.id => w = x
    <2> SUFFICES ASSUME NEW w \in rows', NEW x \in rows', w.id = x.id PROVE w = x
        OBVIOUS
    <2>1. CASE w \in rows /\ x \in rows
        BY <2>1 DEF CatInv, TypeOK, WellFiled
    <2>2. ASSUME NEW r \in rows, NEW d \in D, r.id = RowOf(d, f[d]).id PROVE FALSE
        <3>1. RowOf(d, f[d]).id = f[d]
            BY <1>2, RowOfDraft
        <3> QED BY <2>2, <3>1, <1>1, <1>2, <1>5
    <2>3. ASSUME NEW d \in D, NEW e \in D, RowOf(d, f[d]).id = RowOf(e, f[e]).id
          PROVE  RowOf(d, f[d]) = RowOf(e, f[e])
        <3>1. RowOf(d, f[d]).id = f[d] /\ RowOf(e, f[e]).id = f[e]
            BY <1>2, RowOfDraft
        <3>2. d = e
            BY <2>3, <3>1
        <3> QED BY <3>2
    <2>4. CASE w \notin rows /\ x \in rows
        BY <2>2, <2>4, <1>3
    <2>5. CASE w \in rows /\ x \notin rows
        BY <2>2, <2>5, <1>3
    <2>6. CASE w \notin rows /\ x \notin rows
        <3>1. PICK d \in D : w = RowOf(d, f[d])
            BY <2>6, <1>3
        <3>2. PICK e \in D : x = RowOf(e, f[e])
            BY <2>6, <1>3
        <3> QED BY <2>3, <3>1, <3>2
    <2> QED
        BY <2>1, <2>4, <2>5, <2>6
<1>8. FamilyExclusiveIn(rows')
    <2> SUFFICES ASSUME NEW w \in rows', NEW x \in rows', w.type = "DET", x.type = "DST",
                        Family(w) = Family(x)
                 PROVE  FALSE
        BY DEF FamilyExclusiveIn
    <2>1. CASE w \in rows /\ x \in rows
        BY <2>1 DEF CatInv, FamilyExclusive, FamilyExclusiveIn
    <2>2. ASSUME NEW d \in D, w = RowOf(d, f[d]), x \in rows PROVE FALSE
        <3>1. d.type = "DET" /\ Family(d) = Family(x)
            BY <2>2, <1>2, RowOfDraft
        <3>2. ~FamilyHas(rows, Family(d), "DST")
            BY <3>1, FreeBothWays
        <3> QED BY <3>1, <3>2, <2>2 DEF FamilyHas
    <2>3. ASSUME NEW e \in D, x = RowOf(e, f[e]), w \in rows PROVE FALSE
        <3>1. e.type = "DST" /\ Family(e) = Family(w)
            BY <2>3, <1>2, RowOfDraft
        <3>2. ~FamilyHas(rows, Family(e), "DET")
            BY <3>1, FreeBothWays
        <3> QED BY <3>1, <3>2, <2>3 DEF FamilyHas
    <2>4. ASSUME NEW d \in D, NEW e \in D, w = RowOf(d, f[d]), x = RowOf(e, f[e])
          PROVE  FALSE
        <3>1. d.type = "DET" /\ Family(d) = Family(w)
            BY <2>4, <1>2, RowOfDraft
        <3>2. e.type = "DST" /\ Family(e) = Family(x)
            BY <2>4, <1>2, RowOfDraft
        <3> QED BY <3>1, <3>2
    <2> QED
        BY <2>1, <2>2, <2>3, <2>4, <1>3, Zenon
<1>9. \A w \in rows' : w.id > seq \/ \E r \in rows : r.id = w.id /\ Series(r) = Series(w)
    <2> SUFFICES ASSUME NEW w \in rows', w \notin rows PROVE w.id > seq
        OBVIOUS
    <2>1. PICK d \in D : w = RowOf(d, f[d])
        BY <1>3
    <2>2. w.id = f[d]
        BY <2>1, <1>2, RowOfDraft
    <2> QED BY <2>2, <1>2
<1>10. WellFiled(rows', seq')
    BY <1>6, <1>7 DEF WellFiled
<1>11. revision' \in 1 .. 2 /\ seq' \in seq .. MaxId
    BY <1>1 DEF CatInv, TypeOK
<1> QED
    BY <1>4, <1>8, <1>9, <1>10, <1>11, CallInv

\* Both ways of handing out ids are injections above the mark.
LEMMA FilesFresh ==
    ASSUME NEW D, FileAssigned(D) \/ FileExplicit(D)
    PROVE  \E last \in seq .. MaxId : \E f \in [D -> (seq + 1) .. last] :
               /\ \A d, e \in D : f[d] = f[e] => d = e
               /\ rows' = Filed(rows, D, f)
               /\ seq' = last
BY DEF FileAssigned, FileExplicit, Assigned, Explicit

LEMMA AddInv == ASSUME CatInv, NEW d \in Addable, Add(d) PROVE CatInv'
<1>1. d \in Drafts
    BY CatalogConstants
<1>2. FamilyFree(rows, d) /\ FileAssigned({d}) /\ Learn /\ UNCHANGED <<revision, saved>>
    BY DEF Add
<1>3. PICK last \in seq .. MaxId : \E f \in [{d} -> (seq + 1) .. last] :
               /\ \A x, y \in {d} : f[x] = f[y] => x = y
               /\ rows' = Filed(rows, {d}, f)
               /\ seq' = last
    BY <1>2, FilesFresh
<1>4. PICK f \in [{d} -> (seq + 1) .. last] :
               /\ \A x, y \in {d} : f[x] = f[y] => x = y
               /\ rows' = Filed(rows, {d}, f)
               /\ seq' = last
    BY <1>3
<1>5. {d} \in SUBSET Drafts /\ \A x \in {d} : FamilyFree(rows, x)
    BY <1>1, <1>2
<1>6. \A x, y \in {d} : x.type = "DET" /\ y.type = "DST" => Family(x) # Family(y)
    OBVIOUS
<1> QED
    BY <1>2, <1>4, <1>5, <1>6, FilingInv

LEMMA CopyInv ==
    ASSUME CatInv, NEW src \in rows, NEW o \in Owners, NEW n \in Names, Copy(src, o, n)
    PROVE  CatInv'
<1> DEFINE d == [owner |-> o, name |-> n, type |-> src.type,
                 interval |-> src.interval, horizon |-> src.horizon, arr |-> src.arr]
<1>1. d \in Drafts
    BY DEF CatInv, TypeOK, Rows, Drafts
<1>2. FamilyFree(rows, d) /\ FileAssigned({d}) /\ Learn /\ UNCHANGED <<revision, saved>>
    BY DEF Copy
<1> HIDE DEF d
<1>3. PICK last \in seq .. MaxId : \E f \in [{d} -> (seq + 1) .. last] :
               /\ \A x, y \in {d} : f[x] = f[y] => x = y
               /\ rows' = Filed(rows, {d}, f)
               /\ seq' = last
    BY <1>2, FilesFresh
<1>4. PICK f \in [{d} -> (seq + 1) .. last] :
               /\ \A x, y \in {d} : f[x] = f[y] => x = y
               /\ rows' = Filed(rows, {d}, f)
               /\ seq' = last
    BY <1>3
<1>5. {d} \in SUBSET Drafts /\ \A x \in {d} : FamilyFree(rows, x)
    BY <1>1, <1>2
<1>6. \A x, y \in {d} : x.type = "DET" /\ y.type = "DST" => Family(x) # Family(y)
    OBVIOUS
<1> QED
    BY <1>2, <1>4, <1>5, <1>6, FilingInv

LEMMA ImportInv == ASSUME CatInv, NEW doc \in Documents, Import(doc) PROVE CatInv'
<1> DEFINE views == {d \in doc : d.type = "DST"}
           plain == doc \ views
           first == rows \cup plain
<1>1. doc \in SUBSET Drafts
    BY CatalogConstants
<1>2. /\ Importable(doc)
      /\ FileAssigned(doc) \/ FileExplicit(doc)
      /\ Learn
      /\ UNCHANGED <<revision, saved>>
    BY DEF Import
<1>3. /\ \A d \in plain : FamilyFree(rows, d)
      /\ \A d \in views : FamilyFree(first, d)
    BY <1>2 DEF Importable
<1>4. PICK last \in seq .. MaxId : \E f \in [doc -> (seq + 1) .. last] :
               /\ \A x, y \in doc : f[x] = f[y] => x = y
               /\ rows' = Filed(rows, doc, f)
               /\ seq' = last
    BY <1>2, FilesFresh
<1>5. PICK f \in [doc -> (seq + 1) .. last] :
               /\ \A x, y \in doc : f[x] = f[y] => x = y
               /\ rows' = Filed(rows, doc, f)
               /\ seq' = last
    BY <1>4
<1>6. \A d \in doc : FamilyFree(rows, d)
    BY <1>3 DEF FamilyFree, FamilyHas
<1>7. \A x, y \in doc : x.type = "DET" /\ y.type = "DST" => Family(x) # Family(y)
    <2> SUFFICES ASSUME NEW x \in doc, NEW y \in doc, x.type = "DET", y.type = "DST",
                        Family(x) = Family(y)
                 PROVE  FALSE
        OBVIOUS
    <2>1. y \in views /\ x \in first
        OBVIOUS
    <2>2. FamilyFree(first, y)
        BY <2>1, <1>3
    <2>3. ~FamilyHas(first, Family(y), "DET")
        BY <2>2, FreeBothWays
    <2> QED
        BY <2>1, <2>3 DEF FamilyHas
<1> HIDE DEF views, plain, first
<1> QED
    BY <1>1, <1>2, <1>5, <1>6, <1>7, FilingInv

LEMMA TransformInv ==
    ASSUME CatInv, NEW owners, NEW names, NEW horizon \in Horizons, NEW plan \in Plans,
           Transform(owners, names, horizon, plan)
    PROVE  CatInv'
<1> DEFINE sources == {r \in rows : r.type = "STS" /\ r.owner \in owners /\ r.name \in names}
           views   == {ViewOf(s, horizon, plan) : s \in sources}
           D       == {v \in views : Vacant(rows, v)}
<1>1. /\ ~TransformRefused(sources, horizon, plan)
      /\ FileAssigned(D)
      /\ Learn
      /\ UNCHANGED <<revision, saved>>
    BY DEF Transform
<1>2. \A s \in sources : s \in Rows /\ ~FamilyHas(rows, Family(s), "DET")
    BY <1>1 DEF TransformRefused, CatInv, TypeOK
<1>3. \A v \in D : \E s \in sources : v = ViewOf(s, horizon, plan)
    OBVIOUS
<1>4. \A s \in sources : /\ ViewOf(s, horizon, plan) \in Drafts
                         /\ ViewOf(s, horizon, plan).type = "DST"
                         /\ Family(ViewOf(s, horizon, plan)) = Family(s)
    <2> SUFFICES ASSUME NEW s \in sources
                 PROVE  /\ ViewOf(s, horizon, plan) \in Drafts
                        /\ ViewOf(s, horizon, plan).type = "DST"
                        /\ Family(ViewOf(s, horizon, plan)) = Family(s)
        OBVIOUS
    <2> DEFINE res == CHOOSE q \in Resolutions : s.name \in q
    <2>1. s \in Rows
        BY <1>2
    <2>2. res \in Resolutions
        BY <2>1, CatalogConstants DEF Rows
    <2>3. plan[res] \in Intervals
        BY <2>2, CatalogConstants DEF Plans
    <2>4. ViewOf(s, horizon, plan) =
              [owner |-> s.owner, name |-> s.name, type |-> "DST",
               interval |-> plan[res], horizon |-> horizon, arr |-> s.arr]
        BY DEF ViewOf
    <2> HIDE DEF res
    <2> QED
        BY <2>1, <2>3, <2>4 DEF Drafts, Rows, Types, Family
<1> HIDE DEF sources, views, D
<1>5. D \in SUBSET Drafts /\ \A v \in D : v.type = "DST"
    BY <1>3, <1>4
<1>6. \A v \in D : FamilyFree(rows, v)
    <2> SUFFICES ASSUME NEW v \in D PROVE FamilyFree(rows, v)
        OBVIOUS
    <2>1. PICK s \in sources : v = ViewOf(s, horizon, plan)
        BY <1>3
    <2>2. v.type = "DST" /\ ~FamilyHas(rows, Family(v), "DET")
        BY <2>1, <1>2, <1>4
    <2> QED
        BY <2>2 DEF FamilyFree, Counterpart
<1>7. PICK last \in seq .. MaxId : \E f \in [D -> (seq + 1) .. last] :
               /\ \A x, y \in D : f[x] = f[y] => x = y
               /\ rows' = Filed(rows, D, f)
               /\ seq' = last
    BY <1>1, FilesFresh
<1>8. PICK f \in [D -> (seq + 1) .. last] :
               /\ \A x, y \in D : f[x] = f[y] => x = y
               /\ rows' = Filed(rows, D, f)
               /\ seq' = last
    BY <1>7
<1>9. \A x, y \in D : x.type = "DET" /\ y.type = "DST" => Family(x) # Family(y)
    BY <1>5
<1> QED
    BY <1>1, <1>5, <1>6, <1>8, <1>9, FilingInv

\* remove_by_ids and clear_time_series: what is left was there before.
LEMMA ShrinkInv ==
    ASSUME CatInv, rows' \subseteq rows, Learn, UNCHANGED <<seq, revision, saved>>
    PROVE  CatInv'
<1>1. rows' \subseteq Rows /\ seq' \in seq .. MaxId /\ revision' \in 1 .. 2
    BY CatalogConstants DEF CatInv, TypeOK
<1>2. WellFiled(rows', seq') /\ FamilyExclusiveIn(rows')
    BY DEF CatInv, TypeOK, WellFiled, FamilyExclusive, FamilyExclusiveIn
<1>3. \A w \in rows' : w.id > seq \/ \E r \in rows : r.id = w.id /\ Series(r) = Series(w)
    BY Zenon
<1> QED
    BY <1>1, <1>2, <1>3, CallInv

LEMMA ReplaceOwnerInv ==
    ASSUME CatInv, NEW old \in Owners, NEW new \in Owners, ReplaceOwner(old, new)
    PROVE  CatInv'
<1> DEFINE moving  == {r \in rows : r.owner = old}
           staying == {r \in rows : r.owner # old}
<1>1. /\ old # new
      /\ ~MoveConflict(moving, staying, new)
      /\ rows' = staying \cup {Moved(m, new) : m \in moving}
      /\ Learn
      /\ UNCHANGED <<seq, revision, saved>>
    BY DEF ReplaceOwner
<1>2. \A m \in moving : /\ m \in rows /\ m.owner = old
                        /\ Moved(m, new) \in Rows
                        /\ Moved(m, new).id = m.id
                        /\ Moved(m, new).type = m.type
                        /\ Family(Moved(m, new)) = <<new, m.name>>
                        /\ Series(Moved(m, new)) = Series(m)
    BY DEF CatInv, TypeOK, Rows, Moved, Family, Series
<1>3. \A r \in staying : r \in rows /\ r \in Rows /\ r.owner # old
    BY DEF CatInv, TypeOK
<1>4. \A w \in rows' : w \in staying \/ \E m \in moving : w = Moved(m, new)
    BY <1>1
<1>5. \A w \in rows' : \E r \in rows : r.id = w.id /\ Series(r) = Series(w) /\ r.type = w.type
    BY <1>2, <1>3, <1>4
<1>6. \A m \in moving, r \in staying :
          /\ m.type = "DET" /\ r.type = "DST" => Family(r) # <<new, m.name>>
          /\ m.type = "DST" /\ r.type = "DET" => Family(r) # <<new, m.name>>
    BY <1>1 DEF MoveConflict, Counterpart, FamilyHas
<1>7. \A r, s \in rows : r.id = s.id => r = s
    BY DEF CatInv, TypeOK, WellFiled
<1>8. FamilyExclusiveIn(rows)
    BY DEF CatInv, FamilyExclusive
<1>9. \A r \in rows : r.id <= seq
    BY DEF CatInv, TypeOK, WellFiled
<1> HIDE DEF moving, staying
<1>10. \A w, x \in rows' : w.id = x.id => w = x
    <2> SUFFICES ASSUME NEW w \in rows', NEW x \in rows', w.id = x.id PROVE w = x
        OBVIOUS
    <2>1. CASE w \in staying /\ x \in staying
        BY <2>1, <1>3, <1>7
    <2>2. ASSUME NEW m \in moving, NEW r \in staying PROVE Moved(m, new).id # r.id
        <3>1. m # r
            BY <1>2, <1>3
        <3> QED BY <3>1, <1>2, <1>3, <1>7
    <2>3. ASSUME NEW m \in moving, NEW p \in moving, Moved(m, new).id = Moved(p, new).id
          PROVE  Moved(m, new) = Moved(p, new)
        <3>1. m = p
            BY <2>3, <1>2, <1>7
        <3> QED BY <3>1
    <2>4. CASE w \notin staying /\ x \in staying
        BY <2>2, <2>4, <1>4
    <2>5. CASE w \in staying /\ x \notin staying
        BY <2>2, <2>5, <1>4
    <2>6. CASE w \notin staying /\ x \notin staying
        BY <2>3, <2>6, <1>4
    <2> QED
        BY <2>1, <2>4, <2>5, <2>6
<1>11. FamilyExclusiveIn(rows')
    <2> SUFFICES ASSUME NEW w \in rows', NEW x \in rows', w.type = "DET", x.type = "DST",
                        Family(w) = Family(x)
                 PROVE  FALSE
        BY DEF FamilyExclusiveIn
    <2>1. CASE w \in staying /\ x \in staying
        BY <2>1, <1>3, <1>8 DEF FamilyExclusiveIn
    <2>2. ASSUME NEW m \in moving, w = Moved(m, new), x \in staying PROVE FALSE
        BY <2>2, <1>2, <1>6
    <2>3. ASSUME NEW m \in moving, x = Moved(m, new), w \in staying PROVE FALSE
        BY <2>3, <1>2, <1>6
    <2>4. ASSUME NEW m \in moving, NEW p \in moving, w = Moved(m, new), x = Moved(p, new)
          PROVE  FALSE
        <3>1. m.type = "DET" /\ p.type = "DST" /\ m.name = p.name
            BY <2>4, <1>2
        <3>2. Family(m) = Family(p)
            BY <3>1, <1>2 DEF Family
        <3> QED BY <3>1, <3>2, <1>2, <1>8 DEF FamilyExclusiveIn
    <2>5. CASE w \notin staying /\ x \in staying
        BY <2>2, <2>5, <1>4
    <2>6. CASE w \in staying /\ x \notin staying
        BY <2>3, <2>6, <1>4
    <2>7. CASE w \notin staying /\ x \notin staying
        BY <2>4, <2>7, <1>4
    <2> QED
        BY <2>1, <2>5, <2>6, <2>7
<1>12. rows' \subseteq Rows
    BY <1>2, <1>3, <1>4
<1>13. WellFiled(rows', seq')
    BY <1>1, <1>5, <1>9, <1>10 DEF WellFiled
<1>14. seq' \in seq .. MaxId /\ revision' \in 1 .. 2
    BY <1>1, CatalogConstants DEF CatInv, TypeOK
<1> QED
    BY <1>1, <1>5, <1>11, <1>12, <1>13, <1>14, CallInv

LEMMA BeginInv == ASSUME CatInv, Begin PROVE CatInv'
<1> DEFINE top == [rows |-> rows, seq |-> seq]
<1>1. /\ saved' = Append(saved, top)
      /\ Len(saved) < MaxDepth
      /\ UNCHANGED <<rows, seq, revision, known>>
    BY DEF Begin
<1>2. /\ saved \in Seq([rows : SUBSET Rows, seq : 0 .. MaxId])
      /\ Len(saved) \in Nat
      /\ DOMAIN saved = 1 .. Len(saved)
    BY SavedTyped
<1>3. /\ top \in [rows : SUBSET Rows, seq : 0 .. MaxId]
      /\ top.rows = rows /\ top.seq = seq
    BY DEF CatInv, TypeOK
<1> HIDE DEF top
<1>4. /\ saved' \in Seq([rows : SUBSET Rows, seq : 0 .. MaxId])
      /\ Len(saved') = Len(saved) + 1
      /\ DOMAIN saved' = 1 .. (Len(saved) + 1)
      /\ saved'[Len(saved) + 1] = top
      /\ \A i \in DOMAIN saved : saved'[i] = saved[i]
    <2>1. /\ Append(saved, top) \in Seq([rows : SUBSET Rows, seq : 0 .. MaxId])
          /\ Len(Append(saved, top)) = Len(saved) + 1
          /\ DOMAIN Append(saved, top) = 1 .. (Len(saved) + 1)
          /\ Append(saved, top)[Len(saved) + 1] = top
          /\ \A i \in DOMAIN saved : Append(saved, top)[i] = saved[i]
        BY <1>2, <1>3, Appended
    <2> QED
        BY <1>1, <2>1, Zenon
<1>5. \A i \in DOMAIN saved' : i \in DOMAIN saved \/ i = Len(saved) + 1
    BY <1>2, <1>4
<1>6. TypeOK'
    BY <1>1, <1>2, <1>4, CatalogConstants DEF CatInv, TypeOK
<1>7. SavedSound'
    <2> SUFFICES ASSUME NEW i \in DOMAIN saved'
                 PROVE  /\ WellFiled(saved'[i].rows, saved'[i].seq)
                        /\ FamilyExclusiveIn(saved'[i].rows)
                        /\ \A r \in saved'[i].rows : \A k \in known :
                               k[1] = r.id => k[2] = Series(r)
        BY <1>1 DEF SavedSound, Agrees
    <2>1. CASE i \in DOMAIN saved
        BY <2>1, <1>4 DEF CatInv, SavedSound, Agrees
    <2>2. CASE i = Len(saved) + 1
        BY <2>2, <1>3, <1>4 DEF CatInv, TypeOK, FamilyExclusive, IdKeepsItsMeaning, Agrees
    <2> QED
        BY <2>1, <2>2, <1>5
<1>8. \A i \in DOMAIN saved : saved[i].seq <= seq /\ saved[i].seq \in Nat
    BY SavedTyped DEF CatInv, MarksRise
<1>9. seq \in Nat
    BY CatalogConstants DEF CatInv, TypeOK
<1>10. \A i \in DOMAIN saved' : saved'[i].seq <= seq
    BY <1>3, <1>4, <1>5, <1>8, <1>9
<1>11. MarksRise'
    <2> SUFFICES ASSUME NEW i \in DOMAIN saved', NEW j \in DOMAIN saved', i <= j
                 PROVE  saved'[i].seq <= saved'[j].seq
        BY <1>1, <1>10 DEF MarksRise
    <2>1. CASE i \in DOMAIN saved /\ j \in DOMAIN saved
        BY <2>1, <1>4 DEF CatInv, MarksRise
    <2>2. CASE j = Len(saved) + 1
        BY <2>2, <1>3, <1>4, <1>10
    <2>3. CASE i = Len(saved) + 1 /\ j \in DOMAIN saved
        BY <2>3, <1>2
    <2> QED
        BY <2>1, <2>2, <2>3, <1>5
<1>12. KnownIssued'
    <2> SUFFICES ASSUME NEW k \in known
                 PROVE  k[1] \in 1 .. seq /\ \A i \in DOMAIN saved' : k[1] <= saved'[i].seq
        BY <1>1 DEF KnownIssued
    <2>1. k[1] \in 1 .. seq /\ \A i \in DOMAIN saved : k[1] <= saved[i].seq
        BY DEF CatInv, KnownIssued
    <2>2. k[1] <= seq
        BY <2>1, <1>9
    <2> QED
        BY <2>1, <2>2, <1>3, <1>4, <1>5
<1> QED
    BY <1>1, <1>6, <1>7, <1>11, <1>12 DEF CatInv, FamilyExclusive, IdKeepsItsMeaning, Agrees

\* What closing a level leaves of the stack.
LEMMA Popped ==
    ASSUME CatInv, saved # <<>>, saved' = SubSeq(saved, 1, Len(saved) - 1)
    PROVE  /\ saved' \in Seq([rows : SUBSET Rows, seq : 0 .. MaxId])
           /\ Len(saved') = Len(saved) - 1
           /\ Len(saved) \in DOMAIN saved
           /\ Len(saved) \in Nat /\ Len(saved) <= MaxDepth
           /\ DOMAIN saved' = 1 .. (Len(saved) - 1)
           /\ \A i \in DOMAIN saved' : i \in DOMAIN saved /\ saved'[i] = saved[i]
                                       /\ i <= Len(saved)
<1> DEFINE n == Len(saved) - 1
<1>1. /\ saved \in Seq([rows : SUBSET Rows, seq : 0 .. MaxId])
      /\ Len(saved) \in Nat /\ Len(saved) <= MaxDepth
      /\ DOMAIN saved = 1 .. Len(saved)
    BY SavedTyped DEF CatInv, TypeOK
<1>2. Len(saved) # 0
    BY <1>1
<1>3. n \in Nat /\ n <= Len(saved) /\ n + 1 = Len(saved)
    BY <1>1, <1>2
<1>4. /\ saved' \in Seq([rows : SUBSET Rows, seq : 0 .. MaxId])
      /\ Len(saved') = n
      /\ DOMAIN saved' = 1 .. n
      /\ \A i \in 1 .. n : saved'[i] = saved[i]
    <2> HIDE DEF n
    <2>1. saved' = SubSeq(saved, 1, n)
        BY DEF n
    <2>2. /\ SubSeq(saved, 1, n) \in Seq([rows : SUBSET Rows, seq : 0 .. MaxId])
          /\ Len(SubSeq(saved, 1, n)) = n
          /\ DOMAIN SubSeq(saved, 1, n) = 1 .. n
          /\ \A i \in 1 .. n : SubSeq(saved, 1, n)[i] = saved[i]
        BY <1>1, <1>3, Prefix, Zenon
    <2> QED
        BY <2>1, <2>2, Zenon
<1>5. Len(saved) \in DOMAIN saved
    BY <1>1, <1>2
<1>6. \A i \in DOMAIN saved' : i \in DOMAIN saved /\ saved'[i] = saved[i] /\ i <= Len(saved)
    BY <1>1, <1>3, <1>4
<1> QED
    BY <1>1, <1>4, <1>5, <1>6

LEMMA CommitInv == ASSUME CatInv, Commit PROVE CatInv'
<1>1. /\ saved # <<>>
      /\ saved' = SubSeq(saved, 1, Len(saved) - 1)
      /\ UNCHANGED <<rows, seq, revision>>
    BY DEF Commit
<1>2. /\ saved' \in Seq([rows : SUBSET Rows, seq : 0 .. MaxId])
      /\ Len(saved') = Len(saved) - 1
      /\ Len(saved) \in DOMAIN saved
      /\ Len(saved) \in Nat /\ Len(saved) <= MaxDepth
      /\ DOMAIN saved' = 1 .. (Len(saved) - 1)
      /\ \A i \in DOMAIN saved' : i \in DOMAIN saved /\ saved'[i] = saved[i]
                                  /\ i <= Len(saved)
    BY <1>1, Popped
<1>3. TypeOK'
    BY <1>1, <1>2, CatalogConstants DEF CatInv, TypeOK
<1>4. MarksRise'
    BY <1>1, <1>2 DEF CatInv, MarksRise
<1>5. CASE Len(saved) # 1
    <2>1. known' = known
        BY <1>5 DEF Commit
    <2>2. SavedSound'
        BY <2>1, <1>2 DEF CatInv, SavedSound, Agrees
    <2>3. KnownIssued'
        BY <2>1, <1>1, <1>2 DEF CatInv, KnownIssued
    <2> QED
        BY <1>1, <1>3, <1>4, <2>1, <2>2, <2>3
        DEF CatInv, FamilyExclusive, IdKeepsItsMeaning, Agrees
<1>6. CASE Len(saved) = 1
    <2>1. known' = known \cup {<<r.id, Series(r)>> : r \in rows}
        BY <1>6 DEF Commit
    <2>2. DOMAIN saved' = {}
        BY <1>6, <1>2
    <2>3. \A r \in rows : r.id \in 1 .. seq
        BY CatalogConstants DEF CatInv, TypeOK, WellFiled, Rows
    <2>4. \A k \in known' : k \in known \/ \E r \in rows : k = <<r.id, Series(r)>>
        BY <2>1
    <2>5. KnownIssued'
        <3> SUFFICES ASSUME NEW k \in known' PROVE k[1] \in 1 .. seq
            BY <1>1, <2>2 DEF KnownIssued
        <3>1. CASE k \in known
            BY <3>1 DEF CatInv, KnownIssued
        <3>2. CASE \E r \in rows : k = <<r.id, Series(r)>>
            BY <3>2, <2>3
        <3> QED BY <3>1, <3>2, <2>4
    <2>6. IdKeepsItsMeaning'
        <3> SUFFICES ASSUME NEW w \in rows, NEW k \in known', k[1] = w.id
                     PROVE  k[2] = Series(w)
            BY <1>1 DEF IdKeepsItsMeaning, Agrees
        <3>1. CASE k \in known
            BY <3>1 DEF CatInv, IdKeepsItsMeaning, Agrees
        <3>2. CASE \E r \in rows : k = <<r.id, Series(r)>>
            <4>1. PICK r \in rows : k = <<r.id, Series(r)>>
                BY <3>2
            <4>2. r = w
                BY <4>1 DEF CatInv, TypeOK, WellFiled
            <4> QED BY <4>1, <4>2
        <3> QED BY <3>1, <3>2, <2>4
    <2>7. SavedSound'
        BY <2>2 DEF SavedSound
    <2> QED
        BY <1>1, <1>3, <1>4, <2>5, <2>6, <2>7 DEF CatInv, FamilyExclusive
<1> QED
    BY <1>5, <1>6

LEMMA RollbackInv == ASSUME CatInv, Rollback PROVE CatInv'
<1> DEFINE n == Len(saved)
<1>1. /\ saved # <<>>
      /\ saved' = SubSeq(saved, 1, Len(saved) - 1)
      /\ rows' = saved[n].rows
      /\ seq' = saved[n].seq
      /\ UNCHANGED <<revision, known>>
    BY DEF Rollback
<1>2. /\ saved' \in Seq([rows : SUBSET Rows, seq : 0 .. MaxId])
      /\ Len(saved') = Len(saved) - 1
      /\ n \in DOMAIN saved
      /\ n \in Nat /\ n <= MaxDepth
      /\ \A i \in DOMAIN saved' : i \in DOMAIN saved /\ saved'[i] = saved[i] /\ i <= n
    BY <1>1, Popped
<1>3. rows' \subseteq Rows /\ seq' \in 0 .. MaxId
    BY <1>1, <1>2, SavedTyped
<1>4. WellFiled(rows', seq') /\ FamilyExclusiveIn(rows') /\ Agrees(rows')
    BY <1>1, <1>2 DEF CatInv, SavedSound
<1> HIDE DEF n
<1>5. TypeOK'
    BY <1>1, <1>2, <1>3, <1>4, CatalogConstants DEF CatInv, TypeOK, n
<1>6. IdKeepsItsMeaning'
    BY <1>1, <1>4 DEF IdKeepsItsMeaning, Agrees
<1>7. SavedSound'
    BY <1>1, <1>2 DEF CatInv, SavedSound, Agrees
<1>8. MarksRise'
    BY <1>1, <1>2 DEF CatInv, MarksRise
<1>9. KnownIssued'
    <2> SUFFICES ASSUME NEW k \in known
                 PROVE  k[1] \in 1 .. seq' /\ \A i \in DOMAIN saved' : k[1] <= saved'[i].seq
        BY <1>1 DEF KnownIssued
    <2>1. k[1] \in 1 .. seq /\ \A i \in DOMAIN saved : k[1] <= saved[i].seq
        BY DEF CatInv, KnownIssued
    <2>2. k[1] <= seq' /\ seq' \in Nat /\ k[1] \in Nat /\ k[1] >= 1
        BY <2>1, <1>1, <1>2, <1>3, CatalogConstants
    <2> QED
        BY <2>1, <2>2, <1>2
<1> QED
    BY <1>4, <1>5, <1>6, <1>7, <1>8, <1>9 DEF CatInv, FamilyExclusive

LEMMA UpgradeInv == ASSUME CatInv, Upgrade PROVE CatInv'
<1>1. seq' = seq /\ UNCHANGED <<rows, saved, known>> /\ revision' \in 1 .. 2
    BY CatalogConstants DEF Upgrade, CatInv, TypeOK
<1> QED
    BY <1>1 DEF CatInv, TypeOK, FamilyExclusive, IdKeepsItsMeaning, Agrees, SavedSound,
                MarksRise, KnownIssued

\* Every step of the specification keeps CatInv.
LEMMA StepInv == CatInv /\ [Next]_vars => CatInv'
<1> SUFFICES ASSUME CatInv, [Next]_vars PROVE CatInv'
    OBVIOUS
<1>1. ASSUME NEW d \in Addable, Add(d) PROVE CatInv'
    BY <1>1, AddInv
<1>2. ASSUME NEW gone \in SUBSET rows, RemoveByIds(gone) PROVE CatInv'
    <2>1. rows' \subseteq rows /\ Learn /\ UNCHANGED <<seq, revision, saved>>
        BY <1>2 DEF RemoveByIds
    <2> QED BY <2>1, ShrinkInv
<1>3. ASSUME NEW gone \in SUBSET rows, NEW o \in Owners, RemoveByIdsForOwner(gone, o)
      PROVE  CatInv'
    BY <1>2, <1>3 DEF RemoveByIdsForOwner
<1>4. ASSUME NEW owners, Clear(owners) PROVE CatInv'
    <2>1. rows' \subseteq rows /\ Learn /\ UNCHANGED <<seq, revision, saved>>
        BY <1>4 DEF Clear
    <2> QED BY <2>1, ShrinkInv
<1>5. ASSUME NEW c \in Categories, NEW old \in c, NEW new \in c, ReplaceOwner(old, new)
      PROVE  CatInv'
    <2>1. old \in Owners /\ new \in Owners
        BY CatalogConstants
    <2> QED BY <1>5, <2>1, ReplaceOwnerInv
<1>6. ASSUME NEW c \in Categories, NEW src \in rows, NEW o \in c, NEW n \in Names,
             Copy(src, o, n)
      PROVE  CatInv'
    <2>1. o \in Owners
        BY CatalogConstants
    <2> QED BY <1>6, <2>1, CopyInv
<1>7. ASSUME NEW doc \in Documents, Import(doc) PROVE CatInv'
    BY <1>7, ImportInv
<1>8. ASSUME NEW owners, NEW names, NEW horizon \in Horizons, NEW plan \in Plans,
             Transform(owners, names, horizon, plan)
      PROVE  CatInv'
    BY <1>8, TransformInv
<1>9. CASE UNCHANGED vars
    BY <1>9 DEF vars, CatInv, TypeOK, FamilyExclusive, IdKeepsItsMeaning, Agrees,
                SavedSound, MarksRise, KnownIssued
<1> QED
    BY <1>1, <1>2, <1>3, <1>4, <1>5, <1>6, <1>7, <1>8, <1>9,
       BeginInv, CommitInv, RollbackInv, UpgradeInv, Zenon
    DEF Next

\* The inductive invariant of the catalog.
THEOREM CatalogInvariant == Spec => []CatInv
<1>1. Init => CatInv
    <2> SUFFICES ASSUME Init PROVE CatInv
        OBVIOUS
    <2>1. rows = {} /\ seq = 0 /\ revision \in 1 .. 2 /\ saved = <<>> /\ known = {}
        BY DEF Init
    <2>2. TypeOK
        BY <2>1, CatalogConstants DEF TypeOK, WellFiled
    <2>3. DOMAIN saved = {}
        BY <2>1
    <2> QED
        BY <2>1, <2>2, <2>3 DEF CatInv, FamilyExclusive, FamilyExclusiveIn,
           IdKeepsItsMeaning, Agrees, SavedSound, MarksRise, KnownIssued
<1> QED
    BY <1>1, StepInv, PTL DEF Spec

\* Rows, the id mark and the savepoints are always well formed: ids unique and
\* never above the mark (INTEGER PRIMARY KEY AUTOINCREMENT).
THEOREM TypeCorrect == Spec => []TypeOK
<1>1. CatInv => TypeOK
    BY DEF CatInv
<1> QED
    BY <1>1, CatalogInvariant, PTL

\* No sequence of calls puts a Deterministic and a view of a SingleTimeSeries
\* in one family (check_forecast_family_free and the owner-move check).
THEOREM FamiliesExclusive == Spec => []FamilyExclusive
<1>1. CatInv => FamilyExclusive
    BY DEF CatInv
<1> QED
    BY <1>1, CatalogInvariant, PTL

\* A committed id never comes to mean another series, through removals,
\* imports, rollbacks and the table rebuild (the contract of TimeSeriesId).
THEOREM CommittedIdsAreStable == Spec => []IdKeepsItsMeaning
<1>1. CatInv => IdKeepsItsMeaning
    BY DEF CatInv
<1> QED
    BY <1>1, CatalogInvariant, PTL

\* Filing rows takes no source away: a row that keeps its id is the same row.
LEMMA FilingKeepsSources ==
    ASSUME CatInv', rows \subseteq rows', NEW v \in rows, NEW w \in rows', v.id = w.id,
           HasSource(v, rows)
    PROVE  HasSource(w, rows')
<1>1. v = w
    BY DEF CatInv, TypeOK, WellFiled
<1> QED
    BY <1>1 DEF HasSource

\* The step form of SourceKept.
LEMMA StepKeepsSources ==
    ASSUME CatInv, CatInv', [Next]_vars, ~(Len(saved') < Len(saved)),
           NEW v \in rows, NEW w \in rows', v.id = w.id, v.type = "DST",
           HasSource(v, rows)
    PROVE  HasSource(w, rows')
<1>1. ASSUME rows \subseteq rows' PROVE HasSource(w, rows')
    BY <1>1, FilingKeepsSources
<1>2. ASSUME NEW D, FileAssigned(D) \/ FileExplicit(D) PROVE HasSource(w, rows')
    <2>1. rows \subseteq rows'
        BY <1>2 DEF FileAssigned, FileExplicit, Filed
    <2> QED BY <2>1, <1>1
<1>3. PICK s \in rows : s.type = "STS" /\ Family(s) = Family(v) /\ s.arr = v.arr
    BY DEF HasSource
<1>4. \A r, q \in rows : r.id = q.id => r = q
    BY DEF CatInv, TypeOK, WellFiled
<1>5. ASSUME NEW gone \in SUBSET rows, RemoveByIds(gone) PROVE HasSource(w, rows')
    <2>1. rows' = rows \ gone /\ NoOrphanedView(gone, rows \ gone)
        BY <1>5 DEF RemoveByIds
    <2>2. v = w
        BY <2>1, <1>4
    <2>3. CASE s \notin gone
        BY <2>1, <2>2, <2>3, <1>3 DEF HasSource
    <2>4. CASE s \in gone
        <3>1. HasSource(s, rows \ gone)
            BY <2>1, <2>2, <2>4, <1>3 DEF NoOrphanedView
        <3> QED
            BY <3>1, <2>1, <2>2, <1>3 DEF HasSource
    <2> QED BY <2>3, <2>4
<1>6. ASSUME NEW owners, Clear(owners) PROVE HasSource(w, rows')
    <2>1. rows' = {r \in rows : r.owner \notin owners}
        BY <1>6 DEF Clear
    <2>2. v = w /\ v.owner \notin owners
        BY <2>1, <1>4
    <2>3. s.owner = v.owner
        BY <1>3 DEF Family
    <2> QED
        BY <2>1, <2>2, <2>3, <1>3 DEF HasSource
<1>7. ASSUME NEW old, NEW new, ReplaceOwner(old, new) PROVE HasSource(w, rows')
    <2> DEFINE moving  == {r \in rows : r.owner = old}
               staying == {r \in rows : r.owner # old}
    <2>1. rows' = staying \cup {Moved(m, new) : m \in moving}
        BY <1>7 DEF ReplaceOwner
    <2>2. \A m \in rows : /\ Moved(m, new).id = m.id
                          /\ Moved(m, new).type = m.type
                          /\ Moved(m, new).arr = m.arr
                          /\ Family(Moved(m, new)) = <<new, m.name>>
        BY DEF CatInv, TypeOK, Rows, Moved, Family
    <2>3. s.owner = v.owner /\ s.name = v.name
        BY <1>3 DEF Family
    <2>4. CASE v.owner = old
        <3>1. w = Moved(v, new)
            <4>1. CASE w \in staying
                <5>1. w = v
                    BY <4>1, <1>4
                <5> QED BY <5>1, <4>1, <2>4
            <4>2. CASE w \notin staying
                <5>1. PICK m \in moving : w = Moved(m, new)
                    BY <4>2, <2>1
                <5>2. m = v
                    BY <5>1, <2>2, <1>4
                <5> QED BY <5>1, <5>2
            <4> QED BY <4>1, <4>2
        <3>2. Moved(s, new) \in rows'
            BY <2>1, <2>3, <2>4
        <3>3. /\ Moved(s, new).type = "STS"
              /\ Moved(s, new).arr = w.arr
              /\ Family(Moved(s, new)) = Family(w)
            BY <3>1, <2>2, <2>3, <1>3
        <3> QED BY <3>2, <3>3 DEF HasSource
    <2>5. CASE v.owner # old
        <3>1. w = v
            <4>1. CASE w \in staying
                BY <4>1, <1>4
            <4>2. CASE w \notin staying
                <5>1. PICK m \in moving : w = Moved(m, new)
                    BY <4>2, <2>1
                <5>2. m = v
                    BY <5>1, <2>2, <1>4
                <5> QED BY <5>2, <2>5
            <4> QED BY <4>1, <4>2
        <3>2. s \in rows'
            BY <2>1, <2>3, <2>5
        <3> QED BY <3>1, <3>2, <1>3 DEF HasSource
    <2> QED BY <2>4, <2>5
<1>8. ASSUME UNCHANGED rows PROVE HasSource(w, rows')
    BY <1>1, <1>8
<1>9. CASE \E d \in Addable : Add(d)
    BY <1>2, <1>9 DEF Add
<1>10. CASE \E gone \in SUBSET rows, o \in Owners : RemoveByIdsForOwner(gone, o)
    BY <1>5, <1>10 DEF RemoveByIdsForOwner
<1>11. CASE \E c \in Categories : \E src \in rows, o \in c, n \in Names :
                src.owner \in c /\ Copy(src, o, n)
    BY <1>2, <1>11 DEF Copy
<1>12. CASE \E doc \in Documents : Import(doc)
    BY <1>2, <1>12 DEF Import
<1>13. CASE \E owners \in Categories \cup {Owners}, names \in Resolutions \cup {Names},
              horizon \in Horizons, plan \in Plans : Transform(owners, names, horizon, plan)
    BY <1>2, <1>13 DEF Transform
<1>14. CASE Begin \/ Commit \/ Upgrade \/ UNCHANGED vars
    BY <1>8, <1>14 DEF Begin, Commit, Upgrade, vars
<1>15. ~Rollback
    <2> SUFFICES ASSUME Rollback PROVE FALSE
        OBVIOUS
    <2>1. saved # <<>> /\ saved' = SubSeq(saved, 1, Len(saved) - 1)
        BY DEF Rollback
    <2>2. Len(saved') = Len(saved) - 1 /\ Len(saved) \in Nat
        BY <2>1, Popped
    <2> QED BY <2>2
<1> QED
    BY <1>5, <1>6, <1>7, <1>9, <1>10, <1>11, <1>12, <1>13, <1>14, <1>15, Zenon DEF Next

\* No call takes the source from under a view that has one
\* (check_no_orphaned_dst, and the wholesale calls that have no guard).
THEOREM ViewsKeepTheirSource == Spec => SourceKept
<1>1. CatInv /\ CatInv' /\ [Next]_vars =>
          [\/ Len(saved') < Len(saved)
           \/ \A v \in rows, w \in rows' :
                 v.id = w.id /\ v.type = "DST" /\ HasSource(v, rows)
                     => HasSource(w, rows')]_vars
    BY StepKeepsSources, Zenon
<1> QED
    BY <1>1, CatalogInvariant, PTL DEF Spec, SourceKept
=============================================================================
