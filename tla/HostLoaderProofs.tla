---------------------------- MODULE HostLoaderProofs ----------------------------
(***************************************************************************)
(* Proofs about the native loader (elf_loader_host.cpp): what its linking  *)
(* does for every well-formed file, and what its locks do for any number   *)
(* of threads.  The two halves share nothing but the module.               *)
(***************************************************************************)
EXTENDS HostLinker, HostLocks, NatFacts, TLAPS

(***************************************************************************)
(* Linking.  The loader derives the number of symbols and the exports of a *)
(* library from its GNU hash table: for every well-formed table neither    *)
(* leaves a symbol out.                                                    *)
(***************************************************************************)
\* A well-formed table has a first bucket, and its buckets a greatest.
LEMMA LastBucket ==
    ASSUME NEW e, WellFormed(e), e.hash = "gnu"
    PROVE  /\ e.symoffset \in e.buckets
           /\ Max(e.buckets) \in e.buckets
           /\ \A b \in e.buckets : b <= Max(e.buckets)
<1>1. /\ e.syms \in Nat /\ e.symoffset \in Nat
      /\ Covered(e) # {} /\ e.buckets \subseteq Covered(e)
      /\ \A i \in Covered(e) : i \in e.buckets <=> (i = e.symoffset \/ i - 1 \in e.ends)
  BY DEF WellFormed
<1>2. e.symoffset \in Covered(e)
  BY <1>1 DEF Covered
<1>3. e.symoffset \in e.buckets
  BY <1>1, <1>2
<1>4. e.buckets \in SUBSET Nat /\ \A b \in e.buckets : b <= e.syms
  BY <1>1 DEF Covered
<1>5. \E x \in e.buckets : \A y \in e.buckets : x >= y
  BY <1>1, <1>3, <1>4, GreatestNat
<1>6. Max(e.buckets) \in e.buckets /\ \A b \in e.buckets : Max(e.buckets) >= b
  BY <1>5 DEF Max
<1>7. QED
  BY <1>3, <1>4, <1>6

\* The chain of the last bucket ends with the last symbol: one that ended earlier
\* would be followed by another bucket's (GNU hash branch of ElfLoader::load).
LEMMA CountExact ==
    ASSUME NEW e, WellFormed(e)
    PROVE  SymCount(e) = e.syms
<1>1. CASE e.hash = "sysv"
  BY <1>1 DEF SymCount
<1>2. CASE e.hash = "gnu"
  <2> DEFINE last == Max(e.buckets)
             rest == {n \in e.ends : last <= n}
  <2>1. /\ e.syms \in Nat /\ e.symoffset \in Nat
        /\ e.buckets \subseteq Covered(e) /\ e.ends \subseteq Covered(e)
        /\ \A i \in Covered(e) : i \in e.buckets <=> (i = e.symoffset \/ i - 1 \in e.ends)
        /\ e.syms - 1 \in e.ends
    BY <1>2 DEF WellFormed
  <2>2. last \in e.buckets /\ \A b \in e.buckets : b <= last
    BY <1>2, LastBucket
  <2>3. last \in Nat /\ last <= e.syms - 1
    BY <2>1, <2>2 DEF Covered
  <2> HIDE DEF last
  <2>4. e.syms - 1 \in rest
    BY <2>1, <2>3
  <2>5. \A n \in rest : n = e.syms - 1
    <3> SUFFICES ASSUME NEW n \in rest, n # e.syms - 1
                 PROVE  FALSE
      OBVIOUS
    <3>1. n \in Nat /\ e.symoffset <= n /\ n < e.syms - 1 /\ last <= n
      BY <2>1 DEF Covered
    <3>2. n + 1 \in Covered(e) /\ (n + 1) - 1 = n
      BY <2>1, <3>1 DEF Covered
    <3>3. n + 1 \in e.buckets
      BY <2>1, <3>2
    <3>4. QED
      BY <2>2, <2>3, <3>1, <3>3
  <2>6. Min(rest) = e.syms - 1
    <3>1. \E x \in rest : \A y \in rest : x <= y
      BY <2>1, <2>4, <2>5
    <3>2. Min(rest) \in rest
      BY <3>1 DEF Min
    <3>3. QED
      BY <2>5, <3>2
  <2>7. SymCount(e) = 1 + Min(rest)
    BY <1>2 DEF SymCount, last
  <2>8. QED
    BY <2>1, <2>6, <2>7
<1>3. QED
  BY <1>1, <1>2 DEF WellFormed

\* Walking the chain of every bucket reaches every covered symbol.
LEMMA ChainsCover ==
    ASSUME NEW e, WellFormed(e), e.hash = "gnu", NEW i \in Covered(e)
    PROVE  InChain(e, i)
<1> DEFINE before == {b \in e.buckets : b <= i}
<1>1. /\ e.syms \in Nat /\ e.symoffset \in Nat
      /\ e.buckets \subseteq Covered(e) /\ e.ends \subseteq Covered(e)
      /\ \A k \in Covered(e) : k \in e.buckets <=> (k = e.symoffset \/ k - 1 \in e.ends)
  BY DEF WellFormed
<1>2. i \in Nat /\ e.symoffset <= i /\ i <= e.syms - 1
  BY <1>1 DEF Covered
<1>3. e.symoffset \in before /\ before \in SUBSET Nat /\ \A b \in before : b <= i
  BY <1>1, <1>2, LastBucket DEF Covered
<1>4. PICK b \in before : \A c \in before : b >= c
  BY <1>2, <1>3, GreatestNat
<1>5. ASSUME NEW j \in b .. (i - 1), j \in e.ends
      PROVE  FALSE
  <2>1. b \in Nat /\ j \in Nat /\ b <= j /\ j < i /\ e.symoffset <= b
    BY <1>1, <1>2, <1>3, <1>5 DEF Covered
  <2>2. j + 1 \in Covered(e) /\ (j + 1) - 1 = j
    BY <1>1, <1>2, <2>1 DEF Covered
  <2>3. j + 1 \in before
    BY <1>1, <1>2, <1>5, <2>1, <2>2
  <2>4. QED
    BY <1>4, <2>1, <2>3
<1>6. QED
  BY <1>4, <1>5 DEF InChain

\* So exports holds every symbol the file defines, and nothing else.
LEMMA ExportsExact ==
    ASSUME NEW e, WellFormed(e)
    PROVE  Exported(e) = e.defined
<1>1. CASE e.hash = "sysv"
  <2>1. e.defined \subseteq 0 .. (e.syms - 1) /\ SymCount(e) = e.syms /\ e.syms \in Nat
    BY CountExact DEF WellFormed
  <2>2. \A i \in e.defined : i < SymCount(e)
    BY <2>1
  <2>3. QED
    BY <1>1, <2>2 DEF Exported
<1>2. CASE e.hash = "gnu"
  <2>1. e.defined \subseteq Covered(e)
    BY <1>2 DEF WellFormed
  <2>2. \A i \in e.defined : InChain(e, i)
    BY <1>2, <2>1, ChainsCover
  <2>3. QED
    BY <1>2, <2>2 DEF Exported
<1>3. QED
  BY <1>1, <1>2 DEF WellFormed

--------------------------------------------------------------------------------
(***************************************************************************)
(* The inductive invariant: every loader that exists was filled in from a  *)
(* well-formed file, the globals name the loaders of their stage, and the  *)
(* table names what the globals name.                                      *)
(***************************************************************************)
FilledIn(r) ==
    /\ WellFormed(r.elf)
    /\ r.count = SymCount(r.elf)
    /\ r.exports = ExportNames(r.elf)

LoadersFilledIn ==
    /\ DOMAIN loader = Loaders
    /\ \A l \in Loaders : DOMAIN loader[l] = DOMAIN Deleted
    /\ \A l \in Loaders : loader[l] = Deleted \/ FilledIn(loader[l])

GlobalsByStage ==
    /\ stage \in {"empty", "second", "link", "start", "up"}
    /\ IF stage = "empty" THEN ssc = NoLoader
       ELSE ssc \in Loaders /\ FilledIn(loader[ssc])
    /\ IF stage \in {"empty", "second"} THEN adi = NoLoader
       ELSE adi \in Loaders /\ FilledIn(loader[adi]) /\ adi # ssc
    /\ stage \in {"second", "link"} => loader[ssc].siblings = {}
    /\ stage = "link" => loader[adi].siblings = {}

TableFollows ==
    /\ registry \in [HostFiles -> Loaders \cup {NoLoader}]
    /\ registry[Ssc] = ssc /\ registry[Adi] = adi
    /\ answer \in {NoLoader, ssc, adi}

HostInv == LoadersFilledIn /\ GlobalsByStage /\ TableFollows /\ LinkedRight

\* A deleted loader is told from one that is filled in: it has no symbols.
LEMMA DeletedIsEmpty == ~FilledIn(Deleted)
<1>1. Deleted.elf.syms = 0
  BY DEF Deleted, NoElf
<1>2. QED
  BY <1>1 DEF FilledIn, WellFormed

\* relocate() changes what cells lead to and page protections only.
LEMMA RelocatedKeeps ==
    ASSUME NEW l, NEW r, DOMAIN r = DOMAIN Deleted
    PROVE  /\ DOMAIN Relocated(l, r) = DOMAIN Deleted
           /\ Relocated(l, r).elf = r.elf /\ Relocated(l, r).count = r.count
           /\ Relocated(l, r).exports = r.exports
           /\ Relocated(l, r).siblings = r.siblings
<1>1. DOMAIN Deleted = {"elf", "count", "exports", "siblings", "got", "sealed"}
  BY DEF Deleted
<1>2. QED
  BY <1>1 DEF Relocated

LEMMA RelocatedCells ==
    ASSUME NEW l, NEW r, DOMAIN r = DOMAIN Deleted
    PROVE  Relocated(l, r).got = [i \in r.elf.relocs |-> ResolveSymbol(l, r, i)]
<1>1. DOMAIN Deleted = {"elf", "count", "exports", "siblings", "got", "sealed"}
  BY DEF Deleted
<1>2. QED
  BY <1>1 DEF Relocated

\* So does giving it a sibling.
LEMMA SiblingKeeps ==
    ASSUME NEW r, DOMAIN r = DOMAIN Deleted, NEW k
    PROVE  /\ DOMAIN [r EXCEPT !.siblings = @ \cup {k}] = DOMAIN Deleted
           /\ [r EXCEPT !.siblings = @ \cup {k}].elf = r.elf
           /\ [r EXCEPT !.siblings = @ \cup {k}].count = r.count
           /\ [r EXCEPT !.siblings = @ \cup {k}].exports = r.exports
           /\ [r EXCEPT !.siblings = @ \cup {k}].siblings = r.siblings \cup {k}
<1>1. DOMAIN Deleted = {"elf", "count", "exports", "siblings", "got", "sealed"}
  BY DEF Deleted
<1>2. QED
  BY <1>1

\* load() makes a new loader that is filled in, and enters it into the table.
LEMMA LoadFillsIn ==
    ASSUME HostInv, NEW l \in Loaders, NEW f \in HostFiles, NEW e \in Content[f],
           Load(l, f, e)
    PROVE  /\ LoadersFilledIn'
           /\ FilledIn(loader'[l]) /\ loader'[l].siblings = {}
           /\ \A k \in Loaders \ {l} : loader'[k] = loader[k]
           /\ loader[l] = Deleted
<1> DEFINE r == [Deleted EXCEPT !.elf = e, !.count = SymCount(e), !.exports = ExportNames(e)]
<1>1. /\ DOMAIN r = DOMAIN Deleted
      /\ r.elf = e /\ r.count = SymCount(e) /\ r.exports = ExportNames(e)
      /\ r.siblings = {}
  BY DEF Deleted
<1>2. /\ loader[l] = Deleted
      /\ loader' = [loader EXCEPT ![l] = Relocated(l, r)]
  BY DEF Load
<1> HIDE DEF r
<1>3. WellFormed(e)
  BY HostLinkerAssumption
<1>4. /\ DOMAIN Relocated(l, r) = DOMAIN Deleted
      /\ FilledIn(Relocated(l, r)) /\ Relocated(l, r).siblings = {}
  <2> DEFINE q == Relocated(l, r)
  <2>1. /\ DOMAIN q = DOMAIN Deleted
        /\ q.elf = r.elf /\ q.count = r.count /\ q.exports = r.exports
        /\ q.siblings = r.siblings
    BY <1>1, RelocatedKeeps
  <2> HIDE DEF q
  <2>2. FilledIn(q)
    BY <1>1, <1>3, <2>1 DEF FilledIn
  <2>3. DOMAIN q = DOMAIN Deleted /\ q.siblings = {}
    BY <1>1, <2>1
  <2>4. QED
    BY <2>2, <2>3 DEF q
<1>5. DOMAIN loader = Loaders
  BY DEF HostInv, LoadersFilledIn
<1>6. loader'[l] = Relocated(l, r) /\ \A k \in Loaders \ {l} : loader'[k] = loader[k]
  BY <1>2, <1>5
<1>7. LoadersFilledIn'
  BY <1>2, <1>4, <1>5, <1>6 DEF HostInv, LoadersFilledIn
<1>8. QED
  BY <1>2, <1>4, <1>6, <1>7

\* What a filled-in loader exports is what its file defines.
LEMMA ExportsAreDefined ==
    ASSUME NEW r, FilledIn(r)
    PROVE  r.exports = DefinedNames(r.elf) /\ r.count = r.elf.syms
<1>1. r.count = r.elf.syms
  BY CountExact DEF FilledIn
<1>2. Exported(r.elf) = r.elf.defined
  BY ExportsExact DEF FilledIn
<1>3. QED
  BY <1>1, <1>2 DEF FilledIn, ExportNames, DefinedNames

\* A relocation of a filled-in loader whose only sibling is filled in too leads to
\* the loader itself if it defines the symbol, else to the sibling if that does.
LEMMA ResolvesRight ==
    ASSUME NEW l \in Loaders, NEW k \in Loaders, NEW r,
           FilledIn(r), FilledIn(loader[k]), r.siblings = {k},
           NEW i \in r.elf.relocs
    PROVE  LET n == r.elf.names[i]
               m == ResolveSymbol(l, r, i)
           IN  /\ m # Null
               /\ n \in r.exports => m = l
               /\ n \notin r.exports /\ n \in loader[k].exports => m = k
               /\ n \notin r.exports /\ n \notin loader[k].exports =>
                     /\ Plain[n] \in r.exports => m = l
                     /\ Plain[n] \notin r.exports /\ Plain[n] \in loader[k].exports => m = k
<1> DEFINE n == r.elf.names[i]
           p == Plain[n]
           there == {s \in r.siblings : n \in loader[s].exports}
           plainly == {s \in r.siblings : p \in loader[s].exports}
<1>1. i \in 0 .. (r.elf.syms - 1) /\ r.count = r.elf.syms /\ r.elf.syms \in Nat
  BY ExportsAreDefined DEF FilledIn, WellFormed
<1>2. ~(i >= r.count)
  BY <1>1
<1>3. i \in r.elf.defined => n \in r.exports
  BY ExportsAreDefined DEF DefinedNames
<1>4. /\ there = IF n \in loader[k].exports THEN {k} ELSE {}
      /\ plainly = IF p \in loader[k].exports THEN {k} ELSE {}
  OBVIOUS
<1>5. /\ there # {} => (CHOOSE s \in there : TRUE) = k
      /\ plainly # {} => (CHOOSE s \in plainly : TRUE) = k
  OBVIOUS
<1>6. ResolveSymbol(l, r, i) =
         IF i \in r.elf.defined \/ n \in r.exports THEN l
         ELSE IF there # {} THEN CHOOSE s \in there : TRUE
         ELSE IF p \in r.exports THEN l
         ELSE IF plainly # {} THEN CHOOSE s \in plainly : TRUE ELSE Hook
  BY <1>2 DEF ResolveSymbol
<1> HIDE DEF there, plainly, p, n
<1>7. l # Null /\ k # Null
  BY HostLinkerAssumption
<1>8. /\ ResolveSymbol(l, r, i) \in {l, k, Hook}
      /\ n \in r.exports => ResolveSymbol(l, r, i) = l
      /\ n \notin r.exports /\ n \in loader[k].exports => ResolveSymbol(l, r, i) = k
      /\ n \notin r.exports /\ n \notin loader[k].exports =>
            /\ p \in r.exports => ResolveSymbol(l, r, i) = l
            /\ p \notin r.exports /\ p \in loader[k].exports => ResolveSymbol(l, r, i) = k
  BY <1>3, <1>4, <1>5, <1>6
<1>9. QED
  BY <1>7, <1>8, HostLinkerAssumption DEF n, p

--------------------------------------------------------------------------------
LEMMA HostInvInit == HostInit => HostInv
<1> SUFFICES ASSUME HostInit PROVE HostInv
  OBVIOUS
<1>1. LoadersFilledIn /\ GlobalsByStage /\ LinkedRight
  BY DEF HostInit, LoadersFilledIn, GlobalsByStage, LinkedRight
<1>2. TableFollows
  BY DEF HostInit, TableFollows, HostFiles
<1>3. QED
  BY <1>1, <1>2 DEF HostInv

\* A step that leaves the loaders and the globals alone and moves between the
\* stages in which both are linked.
LEMMA LooksOnly ==
    ASSUME HostInv, UNCHANGED <<loader, ssc, adi, registry>>,
           stage \in {"start", "up"}, stage' \in {"start", "up"},
           answer' \in {NoLoader, ssc, adi}
    PROVE  HostInv'
<1>1. LoadersFilledIn' /\ GlobalsByStage'
  BY DEF HostInv, LoadersFilledIn, GlobalsByStage
<1>2. TableFollows'
  BY DEF HostInv, TableFollows
<1>3. LinkedRight'
  BY DEF HostInv, LinkedRight, LeadsRight, Having
<1>4. QED
  BY <1>1, <1>2, <1>3 DEF HostInv

\* After the second pass every relocation leads where it should.
LEMMA LinkKeeps == HostInv /\ Link => HostInv'
<1> SUFFICES ASSUME HostInv, Link PROVE HostInv'
  OBVIOUS
<1> DEFINE rs == [loader[ssc] EXCEPT !.siblings = @ \cup {adi}]
           ra == [loader[adi] EXCEPT !.siblings = @ \cup {ssc}]
           qs == Relocated(ssc, rs)
           qa == Relocated(adi, ra)
<1>1. /\ stage = "link" /\ stage' = "start"
      /\ UNCHANGED <<ssc, adi, registry, answer>>
      /\ loader' = [loader EXCEPT ![ssc] = qs, ![adi] = qa]
  BY DEF Link, WithSibling
<1>2. /\ ssc \in Loaders /\ adi \in Loaders /\ adi # ssc
      /\ FilledIn(loader[ssc]) /\ FilledIn(loader[adi])
      /\ loader[ssc].siblings = {} /\ loader[adi].siblings = {}
  BY <1>1 DEF HostInv, GlobalsByStage
<1>3. /\ DOMAIN loader = Loaders
      /\ DOMAIN loader[ssc] = DOMAIN Deleted /\ DOMAIN loader[adi] = DOMAIN Deleted
  BY <1>2 DEF HostInv, LoadersFilledIn
<1> HIDE DEF qs, qa
<1>4. /\ loader'[ssc] = qs /\ loader'[adi] = qa
      /\ \A k \in Loaders \ {ssc, adi} : loader'[k] = loader[k]
      /\ DOMAIN loader' = Loaders
  BY <1>1, <1>2, <1>3
<1>5. /\ DOMAIN rs = DOMAIN Deleted
      /\ rs.elf = loader[ssc].elf /\ rs.count = loader[ssc].count
      /\ rs.exports = loader[ssc].exports /\ rs.siblings = loader[ssc].siblings \cup {adi}
  BY <1>3, SiblingKeeps
<1>6. /\ DOMAIN ra = DOMAIN Deleted
      /\ ra.elf = loader[adi].elf /\ ra.count = loader[adi].count
      /\ ra.exports = loader[adi].exports /\ ra.siblings = loader[adi].siblings \cup {ssc}
  BY <1>3, SiblingKeeps
<1> HIDE DEF rs, ra
<1>7. /\ FilledIn(rs) /\ rs.siblings = {adi} /\ FilledIn(ra) /\ ra.siblings = {ssc}
  BY <1>2, <1>5, <1>6 DEF FilledIn
<1>8. /\ DOMAIN qs = DOMAIN Deleted
      /\ qs.elf = rs.elf /\ qs.count = rs.count /\ qs.exports = rs.exports
      /\ qs.got = [i \in rs.elf.relocs |-> ResolveSymbol(ssc, rs, i)]
  BY <1>5, RelocatedKeeps, RelocatedCells DEF qs
<1>9. /\ DOMAIN qa = DOMAIN Deleted
      /\ qa.elf = ra.elf /\ qa.count = ra.count /\ qa.exports = ra.exports
      /\ qa.got = [i \in ra.elf.relocs |-> ResolveSymbol(adi, ra, i)]
  BY <1>6, RelocatedKeeps, RelocatedCells DEF qa
<1>10. FilledIn(qs) /\ FilledIn(qa)
  BY <1>7, <1>8, <1>9 DEF FilledIn
<1>11. LoadersFilledIn'
  BY <1>4, <1>8, <1>9, <1>10 DEF HostInv, LoadersFilledIn
<1>12. GlobalsByStage'
  BY <1>1, <1>2, <1>4, <1>10 DEF GlobalsByStage
<1>13. TableFollows'
  BY <1>1 DEF HostInv, TableFollows
<1>14. rs.exports = DefinedNames(rs.elf) /\ ra.exports = DefinedNames(ra.elf)
  BY <1>7, ExportsAreDefined
<1>15. /\ DefinedNames(loader'[ssc].elf) = rs.exports
       /\ DefinedNames(loader'[adi].elf) = ra.exports
  BY <1>4, <1>8, <1>9, <1>14
<1>16. /\ loader[adi].exports = ra.exports /\ loader[ssc].exports = rs.exports
  BY <1>5, <1>6
<1>17. ASSUME NEW i \in rs.elf.relocs
       PROVE  LET n == rs.elf.names[i] IN
              /\ qs.got[i] # Null
              /\ n \in rs.exports => qs.got[i] = ssc
              /\ n \notin rs.exports /\ n \in ra.exports => qs.got[i] = adi
              /\ n \notin rs.exports /\ n \notin ra.exports =>
                    /\ Plain[n] \in rs.exports => qs.got[i] = ssc
                    /\ Plain[n] \notin rs.exports /\ Plain[n] \in ra.exports => qs.got[i] = adi
  <2>1. qs.got[i] = ResolveSymbol(ssc, rs, i)
    BY <1>8
  <2>2. QED
    BY <1>2, <1>7, <1>16, <2>1, ResolvesRight
<1>18. ASSUME NEW i \in ra.elf.relocs
       PROVE  LET n == ra.elf.names[i] IN
              /\ qa.got[i] # Null
              /\ n \in ra.exports => qa.got[i] = adi
              /\ n \notin ra.exports /\ n \in rs.exports => qa.got[i] = ssc
              /\ n \notin ra.exports /\ n \notin rs.exports =>
                    /\ Plain[n] \in ra.exports => qa.got[i] = adi
                    /\ Plain[n] \notin ra.exports /\ Plain[n] \in rs.exports => qa.got[i] = ssc
  <2>1. qa.got[i] = ResolveSymbol(adi, ra, i)
    BY <1>9
  <2>2. QED
    BY <1>2, <1>7, <1>16, <2>1, ResolvesRight
<1>19. ASSUME NEW l \in {ssc, adi}, NEW i \in loader'[l].elf.relocs
       PROVE  LeadsRight(l, i)'
  <2> DEFINE e == loader'[l].elf
             m == loader'[l].got[i]
             H(x) == {k \in {ssc, adi} : x \in DefinedNames(loader'[k].elf)}
  <2>h. ASSUME NEW x
        PROVE  /\ ssc \in H(x) <=> x \in rs.exports
               /\ adi \in H(x) <=> x \in ra.exports
               /\ H(x) \subseteq {ssc, adi}
    BY <1>15
  <2>g. LeadsRight(l, i)' <=>
          LET n == e.names[i]
          IN  /\ m # Null
              /\ n \in DefinedNames(e) => m = l
              /\ H(n) # {} => m \in H(n)
              /\ H(n) = {} /\ H(Plain[n]) # {} => m \in H(Plain[n])
    BY <1>1 DEF LeadsRight, Having, DefinedNames
  <2> HIDE DEF H
  <2>1. CASE l = ssc
    <3>1. e = rs.elf /\ i \in rs.elf.relocs /\ m = qs.got[i] /\ DefinedNames(e) = rs.exports
      BY <2>1, <1>4, <1>8, <1>15
    <3> HIDE DEF e, m
    <3>2. QED
      BY <2>1, <2>g, <2>h, <3>1, <1>17
  <2>2. CASE l = adi
    <3>1. e = ra.elf /\ i \in ra.elf.relocs /\ m = qa.got[i] /\ DefinedNames(e) = ra.exports
      BY <2>2, <1>4, <1>9, <1>15
    <3> HIDE DEF e, m
    <3>2. QED
      BY <2>2, <2>g, <2>h, <3>1, <1>18
  <2>3. QED
    BY <2>1, <2>2
<1>20. LinkedRight'
  BY <1>1, <1>19 DEF LinkedRight
<1>21. QED
  BY <1>11, <1>12, <1>13, <1>20 DEF HostInv

LEMMA HostInvNext == HostInv /\ [HostNext]_hostVars => HostInv'
<1> SUFFICES ASSUME HostInv, [HostNext]_hostVars PROVE HostInv'
  OBVIOUS
<1> USE DEF HostInv
<1>1. ASSUME NEW l \in Loaders, NEW e \in Content[Ssc], LoadSsc(l, e) PROVE HostInv'
  <2>1. /\ stage = "empty" /\ stage' = "second" /\ ssc' = l /\ adi' = adi
        /\ Load(l, Ssc, e)
    BY <1>1 DEF LoadSsc
  <2>2. /\ LoadersFilledIn'
        /\ FilledIn(loader'[l]) /\ loader'[l].siblings = {}
    BY <2>1, LoadFillsIn DEF HostFiles
  <2>3. GlobalsByStage'
    BY <2>1, <2>2 DEF GlobalsByStage
  <2>4. TableFollows'
    BY <2>1, HostLinkerAssumption DEF TableFollows, GlobalsByStage, Load, HostFiles
  <2>5. QED
    BY <2>1, <2>2, <2>3, <2>4 DEF LinkedRight
<1>2. ASSUME NEW l \in Loaders, NEW e \in Content[Adi], LoadAdi(l, e) PROVE HostInv'
  <2>1. /\ stage = "second" /\ stage' = "link" /\ adi' = l /\ ssc' = ssc
        /\ Load(l, Adi, e)
    BY <1>2 DEF LoadAdi
  <2>2. /\ LoadersFilledIn'
        /\ FilledIn(loader'[l]) /\ loader'[l].siblings = {}
        /\ \A k \in Loaders \ {l} : loader'[k] = loader[k]
        /\ loader[l] = Deleted
    BY <2>1, LoadFillsIn DEF HostFiles
  <2>3. ssc \in Loaders /\ FilledIn(loader[ssc]) /\ loader[ssc].siblings = {}
    BY <2>1 DEF GlobalsByStage
  <2>4. ssc # l
    BY <2>2, <2>3, DeletedIsEmpty
  <2>5. GlobalsByStage'
    BY <2>1, <2>2, <2>3, <2>4 DEF GlobalsByStage
  <2>6. TableFollows'
    BY <2>1, HostLinkerAssumption DEF TableFollows, GlobalsByStage, Load, HostFiles
  <2>7. QED
    BY <2>1, <2>2, <2>5, <2>6 DEF LinkedRight
<1>3. CASE Link
  BY <1>3, LinkKeeps
<1>4. CASE StartedUp
  BY <1>4, LooksOnly DEF StartedUp, TableFollows
<1>5. CASE GiveUp
  <2>1. /\ stage \in {"second", "start"} /\ stage' = "empty"
        /\ ssc' = NoLoader /\ adi' = NoLoader /\ answer' = NoLoader
        /\ loader' = [l \in Loaders |-> IF l \in {ssc, adi} THEN Deleted ELSE loader[l]]
        /\ registry' = [f \in HostFiles |-> IF registry[f] \in {ssc, adi} THEN NoLoader
                                            ELSE registry[f]]
    BY <1>5 DEF GiveUp, DeleteBoth
  <2>2. LoadersFilledIn'
    BY <2>1 DEF LoadersFilledIn
  <2>3. GlobalsByStage'
    BY <2>1 DEF GlobalsByStage
  <2>4. TableFollows'
    BY <2>1 DEF TableFollows, HostFiles
  <2>5. QED
    BY <2>1, <2>2, <2>3, <2>4 DEF LinkedRight
<1>6. ASSUME NEW f \in HostFiles, Dlopen(f) PROVE HostInv'
  <2>1. registry[f] \in {ssc, adi}
    BY DEF TableFollows, HostFiles
  <2>2. QED
    BY <1>6, <2>1, LooksOnly DEF Dlopen
<1>7. ASSUME NEW l \in Loaders, NEW n \in SymbolNames, Dlsym(l, n) PROVE HostInv'
  <2>1. {registry[f] : f \in HostFiles} \subseteq {ssc, adi}
    BY DEF TableFollows, HostFiles
  <2>2. answer' \in {NoLoader, ssc, adi}
    BY <1>7, <2>1 DEF Dlsym
  <2>3. QED
    BY <1>7, <2>2, LooksOnly DEF Dlsym
<1>8. CASE UNCHANGED hostVars
  <2>1. LoadersFilledIn' /\ GlobalsByStage'
    BY <1>8 DEF hostVars, LoadersFilledIn, GlobalsByStage
  <2>2. TableFollows' /\ LinkedRight'
    BY <1>8 DEF hostVars, TableFollows, LinkedRight, LeadsRight, Having
  <2>3. QED
    BY <2>1, <2>2
<1>9. QED
  BY <1>1, <1>2, <1>3, <1>4, <1>5, <1>6, <1>7, <1>8 DEF HostNext

THEOREM HostInvHolds == HostSpec => []HostInv
<1>1. QED
  BY HostInvInit, HostInvNext, PTL DEF HostSpec

--------------------------------------------------------------------------------
\* A loader that exists is a filled-in one.
LEMMA LoadedFilledIn == HostInv => \A l \in Loaders : l \in Loaded <=> FilledIn(loader[l])
<1>1. QED
  BY DeletedIsEmpty DEF HostInv, LoadersFilledIn, Loaded

\* load() finds every symbol of a library, whatever its hash table looks like:
\* the count reaches the last one and the walk along the chains leaves out none.
THEOREM SymbolsFound == HostSpec => []EverySymbolFound
<1>1. HostInv => EverySymbolFound
  <2> SUFFICES ASSUME HostInv, NEW l \in Loaded
               PROVE  /\ loader[l].count = loader[l].elf.syms
                      /\ loader[l].exports = DefinedNames(loader[l].elf)
    BY DEF EverySymbolFound
  <2>1. FilledIn(loader[l])
    BY LoadedFilledIn DEF Loaded
  <2>2. QED
    BY <2>1, ExportsAreDefined
<1>2. QED
  BY <1>1, HostInvHolds, PTL

\* When library code runs, the second relocation has led every symbol to a
\* library that defines it, the own one first.
THEOREM LinkingIsRight == HostSpec => []LinkedRight
<1>1. HostInv => LinkedRight
  BY DEF HostInv
<1>2. QED
  BY <1>1, HostInvHolds, PTL

\* dlopen and dlsym never hand out a loader that a failed setup deleted.
THEOREM TableIsLive == HostSpec => []RegistryLive
<1>1. HostInv => RegistryLive
  <2> SUFFICES ASSUME HostInv PROVE RegistryLive
    OBVIOUS
  <2>1. /\ ssc # NoLoader => ssc \in Loaded
        /\ adi # NoLoader => adi \in Loaded
    BY LoadedFilledIn DEF HostInv, GlobalsByStage
  <2>2. QED
    BY <2>1, HostLinkerAssumption DEF HostInv, TableFollows, RegistryLive, HostFiles
<1>2. QED
  BY <1>1, HostInvHolds, PTL

--------------------------------------------------------------------------------
(***************************************************************************)
(* Page protection.                                                        *)
(***************************************************************************)
\* Division with a remainder.
LEMMA PageOf ==
    ASSUME NEW n \in Nat
    PROVE  /\ n \div PageSize \in Nat
           /\ PageSize * (n \div PageSize) \in Nat
           /\ PageSize * (n \div PageSize) <= n
           /\ n < PageSize * (n \div PageSize) + PageSize
           /\ n - (n % PageSize) = PageSize * (n \div PageSize)
<1>1. PageSize \in Nat \ {0}
  BY HostLinkerAssumption
<1>2. n \div PageSize \in Nat
  BY <1>1
<1>3. PageSize * (n \div PageSize) \in Nat
  BY <1>1, <1>2
<1>4. /\ PageSize * (n \div PageSize) <= n
      /\ n < PageSize * (n \div PageSize) + PageSize
      /\ n - (n % PageSize) = PageSize * (n \div PageSize)
  BY <1>1
<1> QED BY <1>2, <1>3, <1>4

\* The page of an address is the only one that begins at or before it and ends
\* after it.
LEMMA PageUnique ==
    ASSUME NEW n \in Nat, NEW p \in Nat, PageSize * p <= n, n < PageSize * p + PageSize
    PROVE  n \div PageSize = p
BY HostLinkerAssumption

\* A page that begins before another one ends does not come after it.
LEMMA PageOrder ==
    ASSUME NEW p \in Nat, NEW q \in Nat, PageSize * p < PageSize * q + PageSize
    PROVE  p <= q
<1>1. PageSize \in Nat \ {0}
  BY HostLinkerAssumption
<1>2. CASE p >= q + 1
  <2>1. PageSize * p >= PageSize * (q + 1)
    BY <1>1, <1>2
  <2>2. PageSize * (q + 1) = PageSize * q + PageSize
    BY <1>1
  <2> QED BY <1>1, <2>1, <2>2
<1> QED BY <1>2

\* The pages relocate() makes R+X are those with a byte of the segment, no page
\* less for the rounding down of its start and none more for that of its end.
LEMMA SealedExactly ==
    ASSUME NEW seg \in [at : Nat, size : Nat \ {0}], NEW p
    PROVE  p \in SealedPages(seg)
              <=> \E b \in seg.at .. (seg.at + seg.size - 1) : b \div PageSize = p
<1> DEFINE at == seg.at
           end == seg.at + seg.size
           first == at \div PageSize
<1>1. /\ at \in Nat /\ seg.size \in Nat \ {0} /\ PageSize \in Nat \ {0}
      /\ end = at + seg.size
  BY HostLinkerAssumption
<1>2. /\ first \in Nat /\ PageSize * first \in Nat
      /\ PageSize * first <= at /\ at < PageSize * first + PageSize
      /\ at - (at % PageSize) = PageSize * first
  BY <1>1, PageOf
<1> HIDE DEF first, at, end
<1>3. p \in SealedPages(seg) <=>
         /\ p \in 0 .. (end + PageSize - 1)
         /\ PageSize * first <= p * PageSize
         /\ (p + 1) * PageSize <= end + PageSize - 1
  <2>1. PageSize * first + (seg.size + (at - PageSize * first) + (PageSize - 1)) = end + PageSize - 1
    BY <1>1, <1>2 DEF end
  <2> QED BY <1>1, <1>2, <2>1 DEF SealedPages, at, end
<1>4. ASSUME p \in SealedPages(seg)
      PROVE  \E b \in at .. (end - 1) : b \div PageSize = p
  <2>1. p \in Nat /\ PageSize * p \in Nat /\ PageSize * first <= PageSize * p
    BY <1>1, <1>3, <1>4
  <2>2. (p + 1) * PageSize = PageSize * p + PageSize
    BY <1>1, <2>1
  <2>3. PageSize * p <= end - 1
    BY <1>1, <1>3, <1>4, <2>1, <2>2
  <2>4. CASE at <= PageSize * p
    <3>1. (PageSize * p) \div PageSize = p
      BY <1>1, <2>1, PageUnique
    <3>2. PageSize * p \in at .. (end - 1)
      BY <1>1, <2>1, <2>3, <2>4
    <3> QED BY <3>1, <3>2
  <2>5. CASE PageSize * p < at
    <3>1. at \div PageSize = p
      BY <1>1, <1>2, <2>1, <2>5, PageUnique
    <3>2. at \in at .. (end - 1)
      BY <1>1
    <3> QED BY <3>1, <3>2
  <2> QED BY <1>1, <2>1, <2>4, <2>5
<1>5. ASSUME NEW b \in at .. (end - 1), b \div PageSize = p
      PROVE  p \in SealedPages(seg)
  <2>1. b \in Nat /\ at <= b /\ b <= end - 1
    BY <1>1
  <2>2. p \in Nat /\ PageSize * p \in Nat /\ PageSize * p <= b /\ b < PageSize * p + PageSize
    BY <1>1, <1>5, <2>1, PageOf
  <2>3. first <= p
    BY <1>1, <1>2, <2>1, <2>2, PageOrder
  <2>4. PageSize * first <= p * PageSize
    BY <1>1, <1>2, <2>2, <2>3
  <2>5. (p + 1) * PageSize = PageSize * p + PageSize
    BY <1>1, <2>2
  <2>6. (p + 1) * PageSize <= end + PageSize - 1
    BY <1>1, <2>1, <2>2, <2>5
  <2>7. p <= PageSize * p
    BY <1>1, <2>2
  <2>8. p \in 0 .. (end + PageSize - 1)
    BY <1>1, <2>1, <2>2, <2>7
  <2> QED BY <1>3, <2>4, <2>6, <2>8
<1> QED BY <1>4, <1>5 DEF at, end

\* What is R+X of a loader: the pages of the code segments of its file.
SealedFollows ==
    \A l \in Loaders :
        loader[l].sealed = UNION {SealedPages(seg) : seg \in loader[l].elf.code}

LEMMA RelocatedSeals ==
    ASSUME NEW l, NEW r, DOMAIN r = DOMAIN Deleted
    PROVE  /\ Relocated(l, r).elf = r.elf
           /\ Relocated(l, r).sealed = r.sealed \cup UNION {SealedPages(seg) : seg \in r.elf.code}
BY DEF Relocated, Deleted

LEMMA SealedNext == HostInv /\ SealedFollows /\ [HostNext]_hostVars => SealedFollows'
<1> SUFFICES ASSUME HostInv, SealedFollows, [HostNext]_hostVars PROVE SealedFollows'
  OBVIOUS
<1> DEFINE Pages(e) == UNION {SealedPages(seg) : seg \in e.code}
<1>a. DOMAIN loader = Loaders /\ \A l \in Loaders : DOMAIN loader[l] = DOMAIN Deleted
  BY DEF HostInv, LoadersFilledIn
<1>b. \A l \in Loaders : loader[l].sealed = Pages(loader[l].elf)
  BY DEF SealedFollows
<1>c. Deleted.sealed = Pages(Deleted.elf)
  BY DEF Deleted, NoElf
<1>d. ASSUME \A l \in Loaders : loader'[l].sealed = Pages(loader'[l].elf)
      PROVE  SealedFollows'
  BY <1>d DEF SealedFollows
<1>1. ASSUME NEW l \in Loaders, NEW f \in HostFiles, NEW e \in Content[f], Load(l, f, e)
      PROVE  SealedFollows'
  <2> DEFINE r == [Deleted EXCEPT !.elf = e, !.count = SymCount(e), !.exports = ExportNames(e)]
  <2>1. DOMAIN r = DOMAIN Deleted /\ r.elf = e /\ r.sealed = {}
    BY DEF Deleted
  <2> HIDE DEF r
  <2>2. Relocated(l, r).elf = e /\ Relocated(l, r).sealed = Pages(e)
    BY <2>1, RelocatedSeals
  <2>3. loader' = [loader EXCEPT ![l] = Relocated(l, r)]
    BY <1>1 DEF Load, r
  <2> HIDE DEF Pages
  <2>4. \A k \in Loaders : loader'[k].sealed = Pages(loader'[k].elf)
    BY <1>a, <1>b, <2>2, <2>3
  <2> QED BY <1>d, <2>4 DEF Pages
<1>2. ASSUME NEW l \in Loaders, NEW k
      PROVE  WithSibling(l, k).sealed = Pages(WithSibling(l, k).elf)
  <2> DEFINE r == [loader[l] EXCEPT !.siblings = @ \cup {k}]
  <2>1. DOMAIN r = DOMAIN Deleted /\ r.elf = loader[l].elf /\ r.sealed = loader[l].sealed
    BY <1>a DEF Deleted
  <2> HIDE DEF r
  <2>2. /\ Relocated(l, r).elf = r.elf
        /\ Relocated(l, r).sealed = r.sealed \cup Pages(r.elf)
    BY <2>1, RelocatedSeals
  <2> HIDE DEF Pages
  <2> QED BY <1>b, <2>1, <2>2 DEF WithSibling, r
<1>3. CASE Link
  <2>1. loader' = [loader EXCEPT ![ssc] = WithSibling(ssc, adi), ![adi] = WithSibling(adi, ssc)]
    BY <1>3 DEF Link
  <2>2. ssc \in Loaders /\ adi \in Loaders
    BY <1>3 DEF Link, HostInv, GlobalsByStage
  <2> HIDE DEF Pages
  <2>3. \A k \in Loaders : loader'[k].sealed = Pages(loader'[k].elf)
    BY <1>a, <1>b, <1>2, <2>1, <2>2
  <2> QED BY <1>d, <2>3 DEF Pages
<1>4. CASE GiveUp
  <2>1. \A k \in Loaders : loader'[k] = Deleted \/ loader'[k] = loader[k]
    BY <1>4 DEF GiveUp, DeleteBoth
  <2> HIDE DEF Pages
  <2>2. \A k \in Loaders : loader'[k].sealed = Pages(loader'[k].elf)
    BY <1>b, <1>c, <2>1
  <2> QED BY <1>d, <2>2 DEF Pages
<1>5. CASE UNCHANGED loader
  BY <1>5 DEF SealedFollows
<1> QED
  BY <1>1, <1>3, <1>4, <1>5
     DEF HostNext, LoadSsc, LoadAdi, StartedUp, Dlopen, Dlsym, hostVars, HostFiles

\* Every page with code is R+X after the first relocation and, for a file that
\* keeps its code and its data apart, none that the second one writes to is.
THEOREM CodeIsSealed == HostSpec => []CodeSealed
<1>1. HostInit => SealedFollows
  BY DEF HostInit, SealedFollows, Deleted, NoElf
<1>2. HostInv /\ SealedFollows => CodeSealed
  <2> SUFFICES ASSUME HostInv, SealedFollows, NEW l \in Loaded
               PROVE  LET r == loader[l] IN
                      /\ \A seg \in r.elf.code : \A b \in seg.at .. (seg.at + seg.size - 1) :
                            b \div PageSize \in r.sealed
                      /\ KeptApart(r.elf) => \A t \in r.elf.targets : t \div PageSize \notin r.sealed
    BY DEF CodeSealed
  <2> DEFINE e == loader[l].elf
  <2>1. /\ e.code \subseteq [at : Nat, size : Nat \ {0}]
        /\ loader[l].sealed = UNION {SealedPages(seg) : seg \in e.code}
    BY LoadedFilledIn DEF Loaded, FilledIn, WellFormed, SealedFollows
  <2> HIDE DEF e
  <2>2. ASSUME NEW seg \in e.code, NEW b \in seg.at .. (seg.at + seg.size - 1)
        PROVE  b \div PageSize \in loader[l].sealed
    <3>1. b \div PageSize \in SealedPages(seg)
      BY <2>1, SealedExactly
    <3> QED BY <2>1, <3>1
  <2>3. ASSUME KeptApart(e), NEW t \in e.targets, t \div PageSize \in loader[l].sealed
        PROVE  FALSE
    <3>1. PICK seg \in e.code : t \div PageSize \in SealedPages(seg)
      BY <2>1, <2>3
    <3>2. PICK b \in seg.at .. (seg.at + seg.size - 1) : b \div PageSize = t \div PageSize
      BY <2>1, <3>1, SealedExactly
    <3> QED BY <2>3, <3>2 DEF KeptApart
  <2> QED BY <2>2, <2>3 DEF e
<1> QED BY <1>1, <1>2, SealedNext, HostInvHolds, PTL DEF HostSpec

--------------------------------------------------------------------------------
(***************************************************************************)
(* Locks.  LocksInv is inductive: a host lock in the table changes only    *)
(* through the calls of the guest lock it was made for, and destroy relies *)
(* on nobody using that one.                                               *)
(***************************************************************************)
LEMMA LocksInvInit == LocksInit => LocksInv
<1> SUFFICES ASSUME LocksInit PROVE LocksInv
  OBVIOUS
<1>1. LocksTypeOK
  BY DEF LocksInit, LocksTypeOK, NotCalling
<1>2. TableSound /\ PointerStaysGood
  BY DEF LocksInit, TableSound, PointerStaysGood, Idle
<1>3. HoldsAgree /\ WriterExcludes
  BY DEF LocksInit, HoldsAgree, WriterExcludes
<1>4. CallsFit
  BY DEF LocksInit, CallsFit, Idle, NotCalling
<1>5. QED
  BY <1>1, <1>2, <1>3, <1>4 DEF LocksInv

\* get_host_rwlock returns the lock the table has for g, and leaves every lock
\* that was in the table, with those who hold it, as it was.
LEMMA FindOrCreateKeeps ==
    ASSUME LocksInv, NEW g \in GuestLocks, NEW h \in HostLockIds, FindOrCreate(g, h)
    PROVE  /\ hostLock' \in [GuestLocks -> HostLockIds \cup {NoLock}]
           /\ allocated' \subseteq HostLockIds
           /\ readers' \in [HostLockIds -> SUBSET LockThreads]
           /\ writer' \in [HostLockIds -> LockThreads \cup {Nobody}]
           /\ TableSound'
           /\ hostLock'[g] = h /\ h \in allocated'
           /\ \A k \in GuestLocks : hostLock[k] # NoLock =>
                 /\ hostLock'[k] = hostLock[k]
                 /\ hostLock[k] \in allocated'
                 /\ readers'[hostLock[k]] = readers[hostLock[k]]
                 /\ writer'[hostLock[k]] = writer[hostLock[k]]
<1> USE LocksAssumption DEF LocksInv, LocksTypeOK
<1>1. CASE hostLock[g] = h /\ UNCHANGED <<hostLock, allocated, readers, writer>>
  BY <1>1 DEF TableSound
<1>2. CASE /\ hostLock[g] = NoLock
           /\ h \in HostLockIds \ allocated
           /\ hostLock' = [hostLock EXCEPT ![g] = h]
           /\ allocated' = allocated \cup {h}
           /\ readers' = [readers EXCEPT ![h] = {}]
           /\ writer' = [writer EXCEPT ![h] = Nobody]
  <2>1. \A k \in GuestLocks : hostLock[k] # NoLock => hostLock[k] # h /\ k # g
    BY <1>2 DEF TableSound
  <2>2. /\ hostLock' \in [GuestLocks -> HostLockIds \cup {NoLock}]
        /\ allocated' \subseteq HostLockIds
        /\ readers' \in [HostLockIds -> SUBSET LockThreads]
        /\ writer' \in [HostLockIds -> LockThreads \cup {Nobody}]
    BY <1>2
  <2>3. TableSound'
    BY <1>2, <2>1 DEF TableSound
  <2>4. \A k \in GuestLocks : hostLock[k] # NoLock =>
           /\ hostLock'[k] = hostLock[k]
           /\ hostLock[k] \in allocated'
           /\ readers'[hostLock[k]] = readers[hostLock[k]]
           /\ writer'[hostLock[k]] = writer[hostLock[k]]
    BY <1>2, <2>1 DEF TableSound
  <2>5. hostLock'[g] = h /\ h \in allocated'
    BY <1>2
  <2>6. QED
    BY <2>2, <2>3, <2>4, <2>5
<1>3. QED
  BY <1>1, <1>2 DEF FindOrCreate

\* What every call of the table keeps, whether the thread goes on to wait or not.
LEMMA TableGrows ==
    ASSUME LocksInv, NEW g \in GuestLocks, NEW h \in HostLockIds, FindOrCreate(g, h),
           UNCHANGED holds
    PROVE  /\ HoldsAgree' /\ WriterExcludes'
           /\ \A t \in LockThreads :
                 call'[t] = call[t] /\ ~Idle(t) =>
                    /\ call'[t].host \in allocated'
                    /\ hostLock'[call'[t].guest] = call'[t].host
<1>1. \A k \in GuestLocks : hostLock[k] # NoLock =>
         /\ hostLock'[k] = hostLock[k]
         /\ readers'[hostLock[k]] = readers[hostLock[k]]
         /\ writer'[hostLock[k]] = writer[hostLock[k]]
  BY FindOrCreateKeeps
<1>2. HoldsAgree'
  BY <1>1 DEF LocksInv, HoldsAgree
<1>3. WriterExcludes'
  BY DEF LocksInv, WriterExcludes
<1>4. ASSUME NEW t \in LockThreads, call'[t] = call[t], ~Idle(t)
      PROVE  /\ call'[t].host \in allocated'
             /\ hostLock'[call'[t].guest] = call'[t].host
  <2>1. /\ call[t].guest \in GuestLocks /\ call[t].host \in allocated
        /\ hostLock[call[t].guest] = call[t].host
    BY <1>4 DEF LocksInv, CallsFit, PointerStaysGood
  <2>2. hostLock[call[t].guest] # NoLock
    BY <2>1, LocksAssumption DEF LocksInv, LocksTypeOK
  <2>3. hostLock[call[t].guest] \in allocated'
    BY <2>1, <2>2, FindOrCreateKeeps
  <2>4. QED
    BY <1>1, <1>4, <2>1, <2>2, <2>3
<1>5. QED
  BY <1>2, <1>3, <1>4

LEMMA InitLockKeeps ==
    ASSUME LocksInv, NEW t \in LockThreads, NEW g \in GuestLocks, NEW h \in HostLockIds,
           InitLock(t, g, h)
    PROVE  LocksInv'
<1>1. FindOrCreate(g, h) /\ UNCHANGED <<call, holds>>
  BY DEF InitLock
<1>2. LocksTypeOK' /\ TableSound'
  BY <1>1, FindOrCreateKeeps DEF LocksInv, LocksTypeOK
<1>3. HoldsAgree' /\ WriterExcludes' /\ PointerStaysGood'
  BY <1>1, TableGrows DEF PointerStaysGood, Idle
<1>4. CallsFit'
  BY <1>1 DEF LocksInv, CallsFit, Idle
<1>5. QED
  BY <1>2, <1>3, <1>4 DEF LocksInv

LEMMA AskLockKeeps ==
    ASSUME LocksInv, NEW t \in LockThreads, NEW g \in GuestLocks, NEW h \in HostLockIds,
           NEW op \in {"read", "write"}, AskLock(t, g, op, h)
    PROVE  LocksInv'
<1>1. /\ FindOrCreate(g, h) /\ UNCHANGED holds /\ Idle(t) /\ holds[t][g] = "no"
      /\ call' = [call EXCEPT ![t] = [op |-> op, guest |-> g, host |-> h]]
  BY DEF AskLock, Enters
<1>2. /\ call'[t] = [op |-> op, guest |-> g, host |-> h]
      /\ \A u \in LockThreads \ {t} : call'[u] = call[u]
  BY <1>1 DEF LocksInv, LocksTypeOK
<1>3. LocksTypeOK' /\ TableSound'
  BY <1>1, FindOrCreateKeeps DEF LocksInv, LocksTypeOK
<1>4. HoldsAgree' /\ WriterExcludes'
  BY <1>1, TableGrows
<1>5. PointerStaysGood'
  <2> SUFFICES ASSUME NEW u \in LockThreads, ~Idle(u)'
               PROVE  /\ call'[u].host \in allocated'
                      /\ hostLock'[call'[u].guest] = call'[u].host
    BY DEF PointerStaysGood
  <2>1. CASE u = t
    BY <1>1, <1>2, <2>1, FindOrCreateKeeps
  <2>2. CASE u # t
    BY <1>1, <1>2, <2>2, TableGrows DEF Idle
  <2>3. QED
    BY <2>1, <2>2
<1>6. CallsFit'
  BY <1>1, <1>2 DEF LocksInv, CallsFit, Idle, NotCalling
<1>7. QED
  BY <1>3, <1>4, <1>5, <1>6 DEF LocksInv

--------------------------------------------------------------------------------
\* A thread that is in a call uses the host lock of its guest lock, no other one.
LEMMA CallsOwn ==
    ASSUME LocksInv, NEW t \in LockThreads, call[t].op # "none"
    PROVE  /\ ~Idle(t) /\ call[t].guest \in GuestLocks
           /\ call[t].host \in HostLockIds /\ call[t].host # NoLock
           /\ hostLock[call[t].guest] = call[t].host
           /\ \A g \in GuestLocks : hostLock[g] = call[t].host => g = call[t].guest
<1>1. ~Idle(t) /\ call[t].guest \in GuestLocks
  BY DEF LocksInv, CallsFit
<1>2. hostLock[call[t].guest] = call[t].host /\ call[t].host \in HostLockIds
  BY <1>1 DEF LocksInv, PointerStaysGood, LocksTypeOK
<1>3. QED
  BY <1>1, <1>2, LocksAssumption DEF LocksInv, TableSound

\* The end of a call disturbs neither the table nor another thread's call.
LEMMA LeavesKeeps ==
    ASSUME LocksInv, NEW t \in LockThreads, Leaves(t),
           UNCHANGED <<hostLock, allocated>>,
           NEW g \in GuestLocks, NEW v \in {"no", "read", "write"},
           holds' = [holds EXCEPT ![t][g] = v]
    PROVE  TableSound' /\ PointerStaysGood' /\ CallsFit'
<1>1. /\ call'[t] = NotCalling
      /\ \A u \in LockThreads \ {t} : call'[u] = call[u] /\ holds'[u] = holds[u]
  BY DEF LocksInv, LocksTypeOK, Leaves
<1>2. TableSound'
  BY DEF LocksInv, TableSound
<1>3. PointerStaysGood'
  BY <1>1 DEF LocksInv, PointerStaysGood, Idle
<1>4. CallsFit'
  BY <1>1 DEF LocksInv, CallsFit, Idle, NotCalling
<1>5. QED
  BY <1>2, <1>3, <1>4

LEMMA LockRefusedKeeps ==
    ASSUME LocksInv, NEW t \in LockThreads, LockRefused(t)
    PROVE  LocksInv'
<1>1. /\ call[t].op \in {"read", "write"} /\ Leaves(t)
      /\ UNCHANGED <<hostLock, allocated, readers, writer, holds>>
  BY DEF LockRefused
<1>2. call[t].guest \in GuestLocks
  BY <1>1 DEF LocksInv, CallsFit
<1> DEFINE g == call[t].guest
<1>3. /\ holds[t][g] \in {"no", "read", "write"}
      /\ holds' = [holds EXCEPT ![t][g] = holds[t][g]]
  BY <1>1, <1>2 DEF LocksInv, LocksTypeOK
<1> HIDE DEF g
<1>4. TableSound' /\ PointerStaysGood' /\ CallsFit'
  BY <1>1, <1>2, <1>3, LeavesKeeps DEF g
<1>5. LocksTypeOK'
  BY <1>1 DEF LocksInv, LocksTypeOK, Leaves, NotCalling
<1>6. HoldsAgree' /\ WriterExcludes'
  BY <1>1 DEF LocksInv, HoldsAgree, WriterExcludes
<1>7. QED
  BY <1>4, <1>5, <1>6 DEF LocksInv

LEMMA TakeReadKeeps ==
    ASSUME LocksInv, NEW t \in LockThreads, TakeRead(t)
    PROVE  LocksInv'
<1> DEFINE g == call[t].guest
           h == call[t].host
<1>1. /\ call[t].op = "read" /\ writer[h] = Nobody
      /\ readers' = [readers EXCEPT ![h] = @ \cup {t}]
      /\ holds' = [holds EXCEPT ![t][g] = "read"]
      /\ Leaves(t) /\ UNCHANGED <<hostLock, allocated, writer>>
  BY DEF TakeRead
<1>2. /\ g \in GuestLocks /\ h \in HostLockIds /\ hostLock[g] = h /\ h # NoLock
      /\ \A k \in GuestLocks : hostLock[k] = h => k = g
  BY <1>1, CallsOwn
<1> HIDE DEF g, h
<1>3. TableSound' /\ PointerStaysGood' /\ CallsFit'
  BY <1>1, <1>2, LeavesKeeps
<1>4. LocksTypeOK'
  BY <1>1, <1>2 DEF LocksInv, LocksTypeOK, Leaves, NotCalling
<1>5. \A u \in LockThreads, k \in GuestLocks :
         holds'[u][k] = IF u = t /\ k = g THEN "read" ELSE holds[u][k]
  BY <1>1, <1>2 DEF LocksInv, LocksTypeOK
<1>6. \A u \in LockThreads : holds[u][g] # "write"
  BY <1>1, <1>2, LocksAssumption DEF LocksInv, HoldsAgree
<1>7. HoldsAgree'
  BY <1>1, <1>2, <1>5, <1>6 DEF LocksInv, HoldsAgree, LocksTypeOK
<1>8. WriterExcludes'
  BY <1>2, <1>5, <1>6 DEF LocksInv, WriterExcludes
<1>9. QED
  BY <1>3, <1>4, <1>7, <1>8 DEF LocksInv

LEMMA TakeWriteKeeps ==
    ASSUME LocksInv, NEW t \in LockThreads, TakeWrite(t)
    PROVE  LocksInv'
<1> DEFINE g == call[t].guest
           h == call[t].host
<1>1. /\ call[t].op = "write" /\ writer[h] = Nobody /\ readers[h] = {}
      /\ writer' = [writer EXCEPT ![h] = t]
      /\ holds' = [holds EXCEPT ![t][g] = "write"]
      /\ Leaves(t) /\ UNCHANGED <<hostLock, allocated, readers>>
  BY DEF TakeWrite
<1>2. /\ g \in GuestLocks /\ h \in HostLockIds /\ hostLock[g] = h /\ h # NoLock
      /\ \A k \in GuestLocks : hostLock[k] = h => k = g
  BY <1>1, CallsOwn
<1> HIDE DEF g, h
<1>3. TableSound' /\ PointerStaysGood' /\ CallsFit'
  BY <1>1, <1>2, LeavesKeeps
<1>4. LocksTypeOK'
  BY <1>1, <1>2 DEF LocksInv, LocksTypeOK, Leaves, NotCalling
<1>5. \A u \in LockThreads, k \in GuestLocks :
         holds'[u][k] = IF u = t /\ k = g THEN "write" ELSE holds[u][k]
  BY <1>1, <1>2 DEF LocksInv, LocksTypeOK
<1>6. \A u \in LockThreads : holds[u][g] = "no"
  <2> SUFFICES ASSUME NEW u \in LockThreads PROVE holds[u][g] = "no"
    OBVIOUS
  <2>1. holds[u][g] # "write"
    BY <1>1, <1>2, LocksAssumption DEF LocksInv, HoldsAgree
  <2>2. holds[u][g] # "read"
    BY <1>1, <1>2 DEF LocksInv, HoldsAgree
  <2>3. holds[u][g] \in {"no", "read", "write"}
    BY <1>2 DEF LocksInv, LocksTypeOK
  <2>4. QED
    BY <2>1, <2>2, <2>3
<1>7. HoldsAgree'
  BY <1>1, <1>2, <1>5, <1>6 DEF LocksInv, HoldsAgree, LocksTypeOK
<1>8. WriterExcludes'
  BY <1>2, <1>5, <1>6 DEF LocksInv, WriterExcludes
<1>9. QED
  BY <1>3, <1>4, <1>7, <1>8 DEF LocksInv

LEMMA AskUnlockKeeps ==
    ASSUME LocksInv, NEW t \in LockThreads, NEW g \in GuestLocks, AskUnlock(t, g)
    PROVE  LocksInv'
<1>1. /\ Idle(t) /\ holds[t][g] # "no" /\ hostLock[g] # NoLock
      /\ call' = [call EXCEPT ![t] = [op |-> "unlock", guest |-> g, host |-> hostLock[g]]]
      /\ UNCHANGED <<hostLock, allocated, readers, writer, holds>>
  BY DEF AskUnlock, Enters
<1>2. /\ call'[t] = [op |-> "unlock", guest |-> g, host |-> hostLock[g]]
      /\ \A u \in LockThreads \ {t} : call'[u] = call[u]
  BY <1>1 DEF LocksInv, LocksTypeOK
<1>3. LocksTypeOK'
  BY <1>1 DEF LocksInv, LocksTypeOK
<1>4. TableSound' /\ HoldsAgree' /\ WriterExcludes'
  BY <1>1 DEF LocksInv, TableSound, HoldsAgree, WriterExcludes
<1>5. PointerStaysGood'
  BY <1>1, <1>2 DEF LocksInv, PointerStaysGood, TableSound, Idle
<1>6. CallsFit'
  BY <1>1, <1>2 DEF LocksInv, CallsFit, Idle, NotCalling
<1>7. QED
  BY <1>3, <1>4, <1>5, <1>6 DEF LocksInv

LEMMA ReleaseKeeps ==
    ASSUME LocksInv, NEW t \in LockThreads, Release(t)
    PROVE  LocksInv'
<1> DEFINE g == call[t].guest
           h == call[t].host
<1>1. /\ call[t].op = "unlock"
      /\ readers' = [readers EXCEPT ![h] = @ \ {t}]
      /\ writer' = [writer EXCEPT ![h] = IF @ = t THEN Nobody ELSE @]
      /\ holds' = [holds EXCEPT ![t][g] = "no"]
      /\ Leaves(t) /\ UNCHANGED <<hostLock, allocated>>
  BY DEF Release
<1>2. /\ g \in GuestLocks /\ h \in HostLockIds /\ hostLock[g] = h /\ h # NoLock
      /\ \A k \in GuestLocks : hostLock[k] = h => k = g
  BY <1>1, CallsOwn
<1> HIDE DEF g, h
<1>3. TableSound' /\ PointerStaysGood' /\ CallsFit'
  BY <1>1, <1>2, LeavesKeeps
<1>4. LocksTypeOK'
  BY <1>1, <1>2 DEF LocksInv, LocksTypeOK, Leaves, NotCalling
<1>5. \A u \in LockThreads, k \in GuestLocks :
         holds'[u][k] = IF u = t /\ k = g THEN "no" ELSE holds[u][k]
  BY <1>1, <1>2 DEF LocksInv, LocksTypeOK
<1>6. /\ readers'[h] = readers[h] \ {t}
      /\ writer'[h] = IF writer[h] = t THEN Nobody ELSE writer[h]
      /\ \A k \in HostLockIds \ {h} : readers'[k] = readers[k] /\ writer'[k] = writer[k]
  BY <1>1, <1>2 DEF LocksInv, LocksTypeOK
<1>7. HoldsAgree'
  <2> SUFFICES ASSUME NEW u \in LockThreads, NEW k \in GuestLocks
               PROVE  /\ holds'[u][k] = "write" =>
                            /\ hostLock'[k] # NoLock /\ writer'[hostLock'[k]] = u
                            /\ readers'[hostLock'[k]] = {}
                      /\ holds'[u][k] = "read" =>
                            /\ hostLock'[k] # NoLock /\ u \in readers'[hostLock'[k]]
                            /\ writer'[hostLock'[k]] = Nobody
    BY DEF HoldsAgree
  <2>1. CASE k # g
    BY <1>1, <1>2, <1>5, <1>6, <2>1 DEF LocksInv, HoldsAgree, LocksTypeOK
  <2>2. CASE k = g
    BY <1>1, <1>2, <1>5, <1>6, <2>2 DEF LocksInv, HoldsAgree, LocksTypeOK
  <2>3. QED
    BY <2>1, <2>2
<1>8. WriterExcludes'
  BY <1>2, <1>5 DEF LocksInv, WriterExcludes
<1>9. QED
  BY <1>3, <1>4, <1>7, <1>8 DEF LocksInv

\* destroy frees a lock that no call and no thread has anything to do with.
LEMMA DestroyKeeps ==
    ASSUME LocksInv, NEW t \in LockThreads, NEW g \in GuestLocks, Destroy(t, g)
    PROVE  LocksInv'
<1>1. /\ Unused(g)
      /\ allocated' = allocated \ {hostLock[g]}
      /\ hostLock' = [hostLock EXCEPT ![g] = NoLock]
      /\ UNCHANGED <<readers, writer, call, holds>>
  BY DEF Destroy
<1>2. /\ hostLock'[g] = NoLock
      /\ \A k \in GuestLocks \ {g} : hostLock'[k] = hostLock[k]
  BY <1>1 DEF LocksInv, LocksTypeOK
<1>3. LocksTypeOK'
  BY <1>1 DEF LocksInv, LocksTypeOK
<1>4. TableSound'
  BY <1>1, <1>2 DEF LocksInv, TableSound
<1>5. PointerStaysGood'
  <2> SUFFICES ASSUME NEW u \in LockThreads, ~Idle(u)
               PROVE  /\ call[u].host \in allocated'
                      /\ hostLock'[call[u].guest] = call[u].host
    BY <1>1 DEF PointerStaysGood, Idle
  <2>1. /\ call[u].guest \in GuestLocks /\ call[u].guest # g
        /\ call[u].host \in allocated /\ hostLock[call[u].guest] = call[u].host
    BY <1>1 DEF LocksInv, CallsFit, PointerStaysGood, Unused
  <2>2. call[u].host # NoLock
    BY <2>1, LocksAssumption DEF LocksInv, LocksTypeOK
  <2>3. call[u].host # hostLock[g]
    BY <2>1, <2>2 DEF LocksInv, TableSound
  <2>4. QED
    BY <1>1, <1>2, <2>1, <2>3
<1>6. HoldsAgree'
  BY <1>1, <1>2 DEF LocksInv, HoldsAgree, Unused
<1>7. WriterExcludes' /\ CallsFit'
  BY <1>1 DEF LocksInv, WriterExcludes, CallsFit, Idle
<1>8. QED
  BY <1>3, <1>4, <1>5, <1>6, <1>7 DEF LocksInv

--------------------------------------------------------------------------------
LEMMA LocksInvNext == LocksInv /\ [LocksNext]_lockVars => LocksInv'
<1> SUFFICES ASSUME LocksInv, [LocksNext]_lockVars PROVE LocksInv'
  OBVIOUS
<1>1. ASSUME NEW t \in LockThreads, NEW g \in GuestLocks, NEW h \in HostLockIds,
             InitLock(t, g, h)
      PROVE  LocksInv'
  BY <1>1, InitLockKeeps
<1>2. ASSUME NEW t \in LockThreads, NEW g \in GuestLocks, NEW h \in HostLockIds,
             NEW op \in {"read", "write"}, AskLock(t, g, op, h)
      PROVE  LocksInv'
  BY <1>2, AskLockKeeps
<1>3. ASSUME NEW t \in LockThreads, NEW g \in GuestLocks, AskUnlock(t, g)
      PROVE  LocksInv'
  BY <1>3, AskUnlockKeeps
<1>4. ASSUME NEW t \in LockThreads, NEW g \in GuestLocks, Destroy(t, g)
      PROVE  LocksInv'
  BY <1>4, DestroyKeeps
<1>5. ASSUME NEW t \in LockThreads, TakeRead(t) PROVE LocksInv'
  BY <1>5, TakeReadKeeps
<1>6. ASSUME NEW t \in LockThreads, TakeWrite(t) PROVE LocksInv'
  BY <1>6, TakeWriteKeeps
<1>7. ASSUME NEW t \in LockThreads, Release(t) PROVE LocksInv'
  BY <1>7, ReleaseKeeps
<1>8. ASSUME NEW t \in LockThreads, LockRefused(t) PROVE LocksInv'
  BY <1>8, LockRefusedKeeps
<1>9. CASE UNCHANGED lockVars
  <2>1. LocksTypeOK' /\ TableSound' /\ PointerStaysGood'
    BY <1>9 DEF lockVars, LocksInv, LocksTypeOK, TableSound, PointerStaysGood, Idle
  <2>2. HoldsAgree' /\ WriterExcludes' /\ CallsFit'
    BY <1>9 DEF lockVars, LocksInv, HoldsAgree, WriterExcludes, CallsFit, Idle
  <2>3. QED
    BY <2>1, <2>2 DEF LocksInv
<1>10. QED
  BY <1>1, <1>2, <1>3, <1>4, <1>5, <1>6, <1>7, <1>8, <1>9 DEF LocksNext

THEOREM LocksInvHolds == LocksSpec => []LocksInv
<1>1. QED
  BY LocksInvInit, LocksInvNext, PTL DEF LocksSpec

\* The pointer a thread waits on is good although the table's mutex is not held,
\* and no host lock serves two locks of the guest.
THEOREM LocksAreSound == LocksSpec => []LocksSound
<1>1. LocksInv => LocksSound
  BY DEF LocksInv, LocksSound
<1>2. QED
  BY <1>1, LocksInvHolds, PTL

\* A writer is alone, for any number of threads and locks.
THEOREM WritersAreAlone == LocksSpec => []WriterExcludes
<1>1. LocksInv => WriterExcludes
  BY DEF LocksInv
<1>2. QED
  BY <1>1, LocksInvHolds, PTL
================================================================================
