------------------------- MODULE VerifyChainProofs -------------------------
(***************************************************************************)
(* Proofs about Credential.tla and VerifyChain.tla, for every set of keys  *)
(* and caveats, every window, any number of links, every trusted root, any *)
(* max_depth, and a deny-list that moves under the call.                   *)
(*                                                                         *)
(* First the links: what a lineage is, and that chains made by this        *)
(* library only narrow.  Then what an accepted credential is, from the     *)
(* loop invariant Walked: the links before the i-th passed their checks    *)
(* under the deny-list of the call's beginning, are the lineage of the     *)
(* last of them, and the accumulators say exactly what they say.  It holds *)
(* on entry with nothing walked, each iteration extends it by one link, no *)
(* other actor can disturb it (links are never changed, the deny-list only *)
(* grows), and after the last link it is the property.  No induction over  *)
(* the list is needed: the loop is one.                                    *)
(***************************************************************************)
EXTENDS VerifyChain, TLAPS

-----------------------------------------------------------------------------
(* Credential.tla: the links. *)

\* The lineage of a link is its parent's, then itself; it runs over older links.
LineageInv ==
    \A n \in Id :
        /\ Len(lineage[n]) > 0
        /\ lineage[n][Len(lineage[n])] = n
        /\ \A k \in 1..Len(lineage[n]) : lineage[n][k] \in 1..n
        /\ links[n].prev = ZERO32 => lineage[n] = <<n>>
        /\ links[n].prev # ZERO32 => lineage[n] = Append(lineage[links[n].prev], n)

CredInv == TypeOK /\ LineageInv

\* A step that leaves the links made so far, and their lineages, as they are.
Grows ==
    /\ Len(links') >= Len(links)
    /\ \A n \in Id : links'[n] = links[n] /\ lineage'[n] = lineage[n]

-----------------------------------------------------------------------------

\* Adding a well-formed link whose parent exists puts it at the end of the table
\* and touches nothing else.
LEMMA AddLinkTable ==
    ASSUME TypeOK, NEW l \in Link, l.prev \in Id \cup {ZERO32}, AddLink(l)
    PROVE  /\ links' \in Seq(Link)
           /\ Len(links') = Len(links) + 1
           /\ links'[Len(links) + 1] = l
           /\ \A n \in Id : links'[n] = links[n]
           /\ Id' = Id \cup {Len(links) + 1}
           /\ \A n \in Id' : links'[n].prev < n
  <1>1. links \in Seq(Link) /\ Len(links) \in Nat /\ links' = Append(links, l)
    BY DEF TypeOK, AddLink
  <1>2. /\ links' \in Seq(Link) /\ Len(links') = Len(links) + 1
        /\ links'[Len(links) + 1] = l
        /\ \A n \in 1..Len(links) : links'[n] = links[n]
    BY <1>1
  <1>3. Id' = Id \cup {Len(links) + 1}
    BY <1>1, <1>2 DEF Id
  <1>4. \A n \in Id' : links'[n].prev < n
    <2> TAKE n \in Id'
    <2>1. CASE n \in Id
      BY <2>1, <1>2 DEF TypeOK, Id
    <2>2. CASE n = Len(links) + 1
      BY <2>2, <1>1, <1>2 DEF Id, ZERO32
    <2> QED BY <2>1, <2>2, <1>3
  <1> QED BY <1>2, <1>3, <1>4 DEF Id

\* The same of the history of lineages.
LEMMA AddLinkLineage ==
    ASSUME TypeOK, NEW l \in Link, l.prev \in Id \cup {ZERO32}, AddLink(l)
    PROVE  /\ lineage' \in Seq(Seq(Nat))
           /\ Len(lineage') = Len(links')
           /\ \A n \in Id : lineage'[n] = lineage[n]
           /\ lineage'[Len(links) + 1] =
                 Append(IF l.prev = ZERO32 THEN <<>> ELSE lineage[l.prev], Len(links) + 1)
  <1> DEFINE above == IF l.prev = ZERO32 THEN <<>> ELSE lineage[l.prev]
  <1>1. /\ lineage \in Seq(Seq(Nat)) /\ Len(lineage) = Len(links) /\ Len(links) \in Nat
        /\ lineage' = Append(lineage, Append(above, Len(links) + 1))
    BY DEF TypeOK, AddLink
  <1>2. above \in Seq(Nat)
    BY <1>1 DEF Id
  <1>3. Append(above, Len(links) + 1) \in Seq(Nat)
    BY <1>1, <1>2
  <1>4. Len(links') = Len(links) + 1
    BY AddLinkTable
  <1> HIDE DEF above
  <1>5. /\ lineage' \in Seq(Seq(Nat)) /\ Len(lineage') = Len(links')
        /\ \A n \in 1..Len(links) : lineage'[n] = lineage[n]
        /\ lineage'[Len(links) + 1] = Append(above, Len(links) + 1)
    BY <1>1, <1>3, <1>4
  <1> QED BY <1>5 DEF above, Id

\* Adding a link keeps the typing of the table and of the lineages.
LEMMA AddLinkInv ==
    ASSUME CredInv, NEW l \in Link, l.prev \in Id \cup {ZERO32}, AddLink(l),
           lib' \subseteq Id'
    PROVE  CredInv' /\ Grows
  <1>1. TypeOK /\ LineageInv /\ Len(links) \in Nat /\ Len(lineage) = Len(links)
    BY DEF CredInv, TypeOK
  <1>2. TypeOK'
    BY <1>1, AddLinkTable, AddLinkLineage DEF TypeOK, AddLink
  <1>3. Grows
    BY <1>1, AddLinkTable, AddLinkLineage DEF Grows
  <1>4. LineageInv'
    <2> SUFFICES ASSUME NEW n \in Id'
                 PROVE  /\ Len(lineage'[n]) > 0
                        /\ lineage'[n][Len(lineage'[n])] = n
                        /\ \A k \in 1..Len(lineage'[n]) : lineage'[n][k] \in 1..n
                        /\ links'[n].prev = ZERO32 => lineage'[n] = <<n>>
                        /\ links'[n].prev # ZERO32 =>
                              lineage'[n] = Append(lineage'[links'[n].prev], n)
      BY DEF LineageInv, ZERO32
    <2>1. CASE n \in Id
      <3>1. links'[n] = links[n] /\ lineage'[n] = lineage[n]
        BY <2>1, <1>3 DEF Grows
      <3>2. links[n].prev # ZERO32 => links[n].prev \in Id
        <4>1. links[n] \in Link /\ links[n].prev < n /\ n \in 1..Len(links)
          BY <2>1, <1>1 DEF TypeOK, Id
        <4>2. links[n].prev \in Nat
          BY <4>1 DEF Link
        <4> QED BY <4>1, <4>2, <1>1 DEF Id, ZERO32
      <3>3. links[n].prev # ZERO32 => lineage'[links[n].prev] = lineage[links[n].prev]
        BY <3>2, <1>3 DEF Grows
      <3> QED BY <2>1, <3>1, <3>3, <1>1 DEF LineageInv
    <2>2. CASE n = Len(links) + 1
      <3>1. /\ links'[n] = l
            /\ lineage'[n] = Append(IF l.prev = ZERO32 THEN <<>> ELSE lineage[l.prev], n)
        BY <2>2, <1>1, AddLinkTable, AddLinkLineage
      <3>2. CASE l.prev = ZERO32
        BY <3>1, <3>2, <2>2, <1>1
      <3>3. CASE l.prev # ZERO32
        <4>1. l.prev \in Id /\ l.prev < n
          BY <3>3, <2>2, <1>1 DEF Id
        <4>2. /\ lineage[l.prev] \in Seq(Nat) /\ Len(lineage[l.prev]) > 0
              /\ \A k \in 1..Len(lineage[l.prev]) : lineage[l.prev][k] \in 1..l.prev
          BY <4>1, <1>1 DEF LineageInv, TypeOK, Id
        <4>3. lineage'[l.prev] = lineage[l.prev]
          BY <4>1, <1>3 DEF Grows
        <4>4. lineage'[n] = Append(lineage[l.prev], n)
          BY <3>1, <3>3
        <4>5. /\ Len(lineage'[n]) = Len(lineage[l.prev]) + 1
              /\ lineage'[n][Len(lineage[l.prev]) + 1] = n
              /\ \A k \in 1..Len(lineage[l.prev]) : lineage'[n][k] = lineage[l.prev][k]
          BY <4>2, <4>4
        <4>6. \A k \in 1..Len(lineage'[n]) : lineage'[n][k] \in 1..n
          <5> TAKE k \in 1..Len(lineage'[n])
          <5>1. CASE k \in 1..Len(lineage[l.prev])
            <6>1. lineage'[n][k] = lineage[l.prev][k] /\ lineage[l.prev][k] \in 1..l.prev
              BY <5>1, <4>2, <4>5
            <6> QED BY <6>1, <4>1, <2>2, <1>1 DEF Id
          <5>2. CASE k = Len(lineage[l.prev]) + 1
            BY <5>2, <4>5, <2>2, <1>1
          <5> QED BY <5>1, <5>2, <4>5, <4>2
        <4> QED BY <3>1, <3>3, <4>2, <4>3, <4>4, <4>5, <4>6
      <3> QED BY <3>2, <3>3
    <2> QED BY <2>1, <2>2, <1>1, AddLinkTable
  <1> QED BY <1>2, <1>3, <1>4 DEF CredInv

\* Each action adds a well-formed link, or none.
LEMMA MintAdds ==
    ASSUME CredInv, MintStep
    PROVE  \E l \in Link : /\ l.prev = ZERO32 /\ AddLink(l)
                           /\ l.v = VERSION /\ l.sig = l.dgr /\ l.dgr \notin WeakKey
                           /\ lib' = lib \cup {Len(links) + 1} /\ lib' \subseteq Id'
  <1>1. PICK root \in Key \ WeakKey, delegate \in Key, caveats \in SUBSET Caveat,
             ttl \in TTL, nbf \in NotBefore \cup {Now} :
             Mint(root, delegate, caveats, ttl, nbf)
    BY DEF MintStep
  <1> DEFINE l == [v |-> VERSION, prev |-> ZERO32, dgr |-> root, dge |-> delegate,
                   cav |-> caveats, nbf |-> nbf, exp |-> nbf + ttl, sig |-> root]
  <1>2. nbf \in Int /\ ttl \in Int
    BY TimeAssumption DEF CredInv, TypeOK, Now
  <1>3. l \in Link
    BY <1>2, FormatAssumption DEF Link, ZERO32
  <1>4. l.prev = ZERO32 /\ AddLink(l) /\ lib' = lib \cup {Len(links) + 1}
    BY <1>1 DEF Mint
  <1>5. lib' \subseteq Id'
    BY <1>3, <1>4, AddLinkTable DEF CredInv, TypeOK
  <1> QED BY <1>3, <1>4, <1>5

LEMMA ChildWindow ==
    ASSUME CredInv, NEW p \in Id, NEW ttl \in TTL \cup {NoTTL}
    PROVE  /\ ChildNbf(links[p]) \in Int /\ ChildExp(links[p], ttl) \in Int
           /\ ChildNbf(links[p]) >= links[p].nbf
           /\ ChildExp(links[p], ttl) <= links[p].exp
  <1>1. links[p] \in Link
    BY DEF CredInv, TypeOK, Id
  <1>2. links[p].nbf \in Int /\ links[p].exp \in Int /\ clock \in Int
    <2>1. links[p].nbf \in Int /\ links[p].exp \in Int
      BY <1>1 DEF Link
    <2>2. clock \in Int
      BY DEF CredInv, TypeOK
    <2> QED BY <2>1, <2>2
  <1>3. ChildNbf(links[p]) \in Int /\ ChildNbf(links[p]) >= links[p].nbf
    BY <1>2 DEF ChildNbf, Later, Now
  <1>4. CASE ttl = NoTTL
    BY <1>2, <1>3, <1>4 DEF ChildExp
  <1>5. CASE ttl # NoTTL
    <2>1. ttl \in Int
      BY <1>5, TimeAssumption
    <2> QED BY <1>2, <1>3, <1>5, <2>1 DEF ChildExp, Sooner
  <1> QED BY <1>3, <1>4, <1>5

LEMMA AttenuateAdds ==
    ASSUME CredInv, AttenuateStep
    PROVE  \E p \in Id, l \in Link :
              /\ l.prev = p /\ AddLink(l)
              /\ l.nbf >= links[p].nbf /\ l.exp <= links[p].exp
              /\ l.v = VERSION /\ l.sig = l.dgr /\ l.dgr \notin WeakKey
              /\ l.dgr = links[p].dge
              /\ lib' = lib \cup {Len(links) + 1} /\ lib' \subseteq Id'
  <1>1. PICK p \in Id, holder \in Key \ WeakKey, delegate \in Key,
             caveats \in SUBSET Caveat, ttl \in TTL \cup {NoTTL} :
             Attenuate(p, holder, delegate, caveats, ttl)
    BY DEF AttenuateStep
  <1> DEFINE l == [v |-> VERSION, prev |-> p, dgr |-> holder, dge |-> delegate,
                   cav |-> caveats, nbf |-> ChildNbf(links[p]),
                   exp |-> ChildExp(links[p], ttl), sig |-> holder]
  <1>2. p \in Nat
    BY DEF CredInv, TypeOK, Id
  <1>3. l \in Link
    BY <1>2, ChildWindow, FormatAssumption DEF Link
  <1>4. /\ l.prev = p /\ AddLink(l) /\ lib' = lib \cup {Len(links) + 1}
        /\ l.dgr = links[p].dge
    BY <1>1 DEF Attenuate
  <1>5. lib' \subseteq Id'
    BY <1>3, <1>4, AddLinkTable DEF CredInv, TypeOK
  <1>6. l.nbf >= links[p].nbf /\ l.exp <= links[p].exp
    BY ChildWindow
  <1> QED BY <1>3, <1>4, <1>5, <1>6

LEMMA ElsewhereAdds ==
    ASSUME CredInv, ElsewhereStep
    PROVE  \E l \in Link : l.prev \in Id \cup {ZERO32} /\ AddLink(l)
                           /\ lib' = lib /\ lib' \subseteq Id'
  <1>1. PICK f \in Foreign, prev \in Id \cup {ZERO32} :
             MadeElsewhere([v |-> f.v, prev |-> prev, dgr |-> f.dgr, dge |-> f.dge,
                            cav |-> f.cav, nbf |-> f.nbf, exp |-> f.exp,
                            sig |-> IF f.signed THEN f.dgr ELSE NoKey])
    BY DEF ElsewhereStep
  <1> DEFINE l == [v |-> f.v, prev |-> prev, dgr |-> f.dgr, dge |-> f.dge,
                   cav |-> f.cav, nbf |-> f.nbf, exp |-> f.exp,
                   sig |-> IF f.signed THEN f.dgr ELSE NoKey]
  <1>2. prev \in Nat /\ f \in [v : Int, dgr : Key, dge : Key, cav : SUBSET Caveat,
                              nbf : Int, exp : Int, signed : BOOLEAN]
    BY FormatAssumption DEF CredInv, TypeOK, Id, ZERO32
  <1>3. l \in Link
    BY <1>2 DEF Link
  <1>4. l.prev \in Id \cup {ZERO32} /\ AddLink(l) /\ lib' = lib
    BY <1>1 DEF MadeElsewhere
  <1>5. lib' \subseteq Id'
    BY <1>3, <1>4, AddLinkTable DEF CredInv, TypeOK
  <1> QED BY <1>3, <1>4, <1>5

\* Every step of the credentials, alone or in a composition, keeps the invariant
\* and only adds to the table.
LEMMA CredStep ==
    ASSUME CredInv, [Next]_credVars
    PROVE  CredInv' /\ Grows
  <1>1. CASE MintStep
    BY <1>1, MintAdds, AddLinkInv
  <1>2. CASE AttenuateStep
    BY <1>2, AttenuateAdds, AddLinkInv
  <1>3. CASE ElsewhereStep
    BY <1>3, ElsewhereAdds, AddLinkInv
  <1>4. CASE Tick
    <2>1. links' = links /\ lineage' = lineage /\ lib' = lib /\ Id' = Id
      BY <1>4 DEF Tick, Id
    <2>2. clock' \in 0..MaxTime
      BY <1>4, TimeAssumption DEF Tick, CredInv, TypeOK
    <2> QED BY <2>1, <2>2 DEF CredInv, TypeOK, LineageInv, Grows
  <1>5. CASE UNCHANGED credVars
    BY <1>5 DEF credVars, CredInv, TypeOK, LineageInv, Grows, Id
  <1> QED BY <1>1, <1>2, <1>3, <1>4, <1>5 DEF Next

LEMMA CredInit == Init => CredInv
  BY TimeAssumption DEF Init, CredInv, TypeOK, LineageInv, Id

-----------------------------------------------------------------------------

\* The table, the lineages and the clock are well typed in every state, and
\* parents are older than their children.
THEOREM Typing == Spec => []TypeOK
  <1>1. CredInv /\ [Next]_credVars => CredInv'
    BY CredStep
  <1>2. CredInv => TypeOK
    BY DEF CredInv
  <1> QED BY CredInit, <1>1, <1>2, PTL DEF Spec

\* LibraryNarrows for one link, under a set of library links.
NarrowAt(n) ==
    (\A k \in 1..Len(lineage[n]) : lineage[n][k] \in lib) =>
        \A k \in 1..Len(lineage[n]) :
            /\ links[n].nbf >= links[lineage[n][k]].nbf
            /\ links[n].exp <= links[lineage[n][k]].exp

\* A new link leaves what was true of the older ones as it was, because their
\* lineages run over older links only and no older link becomes a library link.
LEMMA OldNarrow ==
    ASSUME CredInv, CredInv', LibraryNarrows, Grows,
           lib' \subseteq lib \cup {Len(links) + 1}, NEW n, n \in Id
    PROVE  NarrowAt(n)'
  <1>1. links'[n] = links[n] /\ lineage'[n] = lineage[n]
    BY DEF Grows
  <1>2. Len(links) \in Nat /\ n \in 1..Len(links)
    BY DEF CredInv, TypeOK, Id
  <1>3. \A k \in 1..Len(lineage[n]) :
           lineage[n][k] \in Id /\ lineage[n][k] # Len(links) + 1
    <2> TAKE k \in 1..Len(lineage[n])
    <2>1. lineage[n][k] \in 1..n
      BY DEF CredInv, LineageInv
    <2> QED BY <2>1, <1>2 DEF Id
  <1>4. \A k \in 1..Len(lineage[n]) : links'[lineage[n][k]] = links[lineage[n][k]]
    BY <1>3 DEF Grows
  <1>5. NarrowAt(n)
    BY DEF LibraryNarrows, NarrowAt
  <1>6. (\A k \in 1..Len(lineage[n]) : lineage[n][k] \in lib')
           => (\A k \in 1..Len(lineage[n]) : lineage[n][k] \in lib)
    BY <1>3
  <1> QED BY <1>1, <1>4, <1>5, <1>6 DEF NarrowAt

\* The child of a link whose lineage narrows has a lineage that narrows.
LEMMA ChildNarrow ==
    ASSUME CredInv, CredInv', LibraryNarrows, Grows,
           NEW p \in Id, NEW l \in Link, l.prev = p, AddLink(l),
           l.nbf >= links[p].nbf, l.exp <= links[p].exp,
           lib' = lib \cup {Len(links) + 1}, NEW n \in Nat, n = Len(links) + 1
    PROVE  NarrowAt(n)'
  <1>1. Len(links) \in Nat /\ p \in 1..Len(links) /\ p # ZERO32
        /\ lineage[p] \in Seq(Nat) /\ Len(lineage[p]) \in Nat
    BY DEF CredInv, TypeOK, Id, ZERO32
  <1>2. links'[n] = l /\ n \in Id'
    BY AddLinkTable DEF CredInv
  <1>3. lineage'[n] = Append(lineage[p], n)
    BY <1>1, AddLinkLineage DEF CredInv
  <1>4. /\ Len(lineage'[n]) = Len(lineage[p]) + 1
        /\ lineage'[n][Len(lineage[p]) + 1] = n
        /\ \A k \in 1..Len(lineage[p]) : lineage'[n][k] = lineage[p][k]
    BY <1>1, <1>3
  <1>5. NarrowAt(p)'
    <2>1. lib' \subseteq lib \cup {Len(links) + 1}
      OBVIOUS
    <2> QED BY <2>1, OldNarrow
  <1>6. links'[p] = links[p] /\ lineage'[p] = lineage[p]
    BY DEF Grows
  <1>7. SUFFICES ASSUME \A j \in 1..Len(lineage'[n]) : lineage'[n][j] \in lib',
                        NEW k \in 1..Len(lineage'[n])
                 PROVE  /\ links'[n].nbf >= links'[lineage'[n][k]].nbf
                        /\ links'[n].exp <= links'[lineage'[n][k]].exp
    BY DEF NarrowAt
  <1>8. l.nbf \in Int /\ l.exp \in Int
    BY DEF Link
  <1>9. CASE k = Len(lineage[p]) + 1
    BY <1>9, <1>2, <1>4, <1>8
  <1>10. CASE k \in 1..Len(lineage[p])
    <2> DEFINE m == lineage[p][k]
    <2>1. \A j \in 1..Len(lineage[p]) : lineage[p][j] \in lib'
      <3> TAKE j \in 1..Len(lineage[p])
      <3>1. j \in 1..Len(lineage'[n]) /\ lineage'[n][j] = lineage[p][j]
        BY <1>4, <1>1
      <3> QED BY <3>1, <1>7
    <2>2. links[p].nbf >= links'[m].nbf /\ links[p].exp <= links'[m].exp
      BY <1>5, <1>6, <1>10, <2>1 DEF NarrowAt
    <2>3. m \in 1..p /\ m \in Id'
      <3>1. m \in 1..p
        BY <1>10 DEF CredInv, LineageInv
      <3> QED BY <3>1, <1>1, AddLinkTable DEF CredInv, Id
    <2>4. links'[m] \in Link /\ links[p] \in Link
      <3>1. links' \in Seq(Link) /\ links \in Seq(Link) /\ m \in 1..Len(links')
        BY <2>3 DEF CredInv, TypeOK, Id
      <3> HIDE DEF m
      <3> QED BY <3>1, <1>1
    <2>5. /\ links'[m].nbf \in Int /\ links'[m].exp \in Int
          /\ links[p].nbf \in Int /\ links[p].exp \in Int
      BY <2>4 DEF Link
    <2>6. lineage'[n][k] = m
      BY <1>4, <1>10
    <2> HIDE DEF m
    <2> QED BY <1>2, <1>8, <2>2, <2>5, <2>6
  <1> QED BY <1>9, <1>10, <1>4, <1>1

\* A root link has nobody above it.
LEMMA RootNarrow ==
    ASSUME CredInv, NEW l \in Link, l.prev = ZERO32, AddLink(l),
           NEW n \in Nat, n = Len(links) + 1
    PROVE  NarrowAt(n)'
  <1>1. links'[n] = l /\ lineage'[n] = <<n>>
    BY AddLinkTable, AddLinkLineage DEF CredInv
  <1>2. l.nbf \in Int /\ l.exp \in Int /\ Len(links) \in Nat
    BY DEF Link, CredInv, TypeOK
  <1> QED BY <1>1, <1>2 DEF NarrowAt

LEMMA NarrowStep ==
    ASSUME CredInv, LibraryNarrows, [Next]_credVars
    PROVE  LibraryNarrows'
  <1>1. CredInv' /\ Grows
    BY CredStep
  <1>2. SUFFICES ASSUME NEW n, n \in Id' PROVE NarrowAt(n)'
    BY DEF LibraryNarrows, NarrowAt
  <1>3. \A l \in Link : AddLink(l) /\ l.prev \in Id \cup {ZERO32} =>
           n \in Id \/ (n = Len(links) + 1 /\ n \in Nat)
    BY <1>2, AddLinkTable DEF CredInv, TypeOK
  <1>4. CASE MintStep
    <2>1. PICK l \in Link : l.prev = ZERO32 /\ AddLink(l) /\ lib' = lib \cup {Len(links) + 1}
      BY <1>4, MintAdds
    <2>2. CASE n \in Id
      BY <2>1, <2>2, <1>1, OldNarrow
    <2>3. CASE n = Len(links) + 1 /\ n \in Nat
      BY <2>1, <2>3, RootNarrow
    <2> QED BY <2>1, <2>2, <2>3, <1>3
  <1>5. CASE AttenuateStep
    <2>1. PICK p \in Id, l \in Link :
              /\ l.prev = p /\ AddLink(l)
              /\ l.nbf >= links[p].nbf /\ l.exp <= links[p].exp
              /\ lib' = lib \cup {Len(links) + 1}
      BY <1>5, AttenuateAdds
    <2>2. CASE n \in Id
      BY <2>1, <2>2, <1>1, OldNarrow
    <2>3. CASE n = Len(links) + 1 /\ n \in Nat
      BY <2>1, <2>3, <1>1, ChildNarrow
    <2> QED BY <2>1, <2>2, <2>3, <1>3
  <1>6. CASE ElsewhereStep
    <2>1. PICK l \in Link : l.prev \in Id \cup {ZERO32} /\ AddLink(l) /\ lib' = lib
      BY <1>6, ElsewhereAdds
    <2>2. CASE n \in Id
      BY <2>1, <2>2, <1>1, OldNarrow
    <2>3. CASE n = Len(links) + 1 /\ n \in Nat
      <3>1. n \notin lib' /\ n \in Id'
        BY <2>1, <2>3, <1>2 DEF CredInv, TypeOK, Id
      <3>2. /\ Len(lineage'[n]) \in Nat /\ Len(lineage'[n]) > 0
            /\ lineage'[n][Len(lineage'[n])] = n
        <4>1. lineage'[n] \in Seq(Nat)
          <5>1. lineage' \in Seq(Seq(Nat)) /\ n \in 1..Len(lineage')
            BY <3>1, <1>1 DEF CredInv, TypeOK, Id
          <5> QED BY <5>1
        <4> QED BY <4>1, <3>1, <1>1 DEF CredInv, LineageInv
      <3>3. \E k \in 1..Len(lineage'[n]) : lineage'[n][k] \notin lib'
        BY <3>1, <3>2
      <3> QED BY <3>3 DEF NarrowAt
    <2> QED BY <2>1, <2>2, <2>3, <1>3
  <1>7. CASE Tick \/ UNCHANGED credVars
    <2>1. links' = links /\ lineage' = lineage /\ lib' = lib
      BY <1>7 DEF Tick, credVars
    <2>2. n \in Id
      BY <2>1, <1>2 DEF Id
    <2>3. NarrowAt(n)
      BY <2>2 DEF LibraryNarrows, NarrowAt
    <2> QED BY <2>1, <2>3 DEF NarrowAt
  <1> QED BY <1>4, <1>5, <1>6, <1>7 DEF Next

\* Chains made by mint and attenuate alone only narrow, however many links they
\* have, whenever they were made, and whatever other links they sit among.
THEOREM Narrowing == Spec => []LibraryNarrows
  <1>1. Init => LibraryNarrows
    BY DEF Init, LibraryNarrows, Id
  <1>2. CredInv /\ LibraryNarrows /\ [Next]_credVars => (CredInv /\ LibraryNarrows)'
    BY CredStep, NarrowStep
  <1> QED BY CredInit, <1>1, <1>2, PTL DEF Spec

-----------------------------------------------------------------------------
(* What the links of a lineage have in common, for the verifier. *)

\* Along the lineage of n every link's prev is the link before it.
BindsAt(n) ==
    /\ links[lineage[n][1]].prev = ZERO32
    /\ \A k \in 2..Len(lineage[n]) : links[lineage[n][k]].prev = lineage[n][k - 1]

\* What mint and attenuate sign is of the right version, and by the right key.
MadeAt(n) ==
    n \in lib =>
        /\ links[n].v = VERSION
        /\ links[n].sig = links[n].dgr /\ links[n].dgr \notin WeakKey
        /\ links[n].prev # ZERO32 => links[n].dgr = links[links[n].prev].dge

Made == \A n \in Id : BindsAt(n) /\ MadeAt(n)

LEMMA OldMade ==
    ASSUME CredInv, Made, Grows, lib' \subseteq lib \cup {Len(links) + 1}, NEW n \in Id
    PROVE  BindsAt(n)' /\ MadeAt(n)'
  <1>1. Len(links) \in Nat /\ n \in 1..Len(links) /\ lineage[n] \in Seq(Nat)
        /\ Len(lineage[n]) \in Nat /\ Len(lineage[n]) > 0
    BY DEF CredInv, TypeOK, LineageInv, Id
  <1>2. links'[n] = links[n] /\ lineage'[n] = lineage[n]
    BY DEF Grows
  <1>3. \A k \in 1..Len(lineage[n]) : lineage[n][k] \in Id /\ links'[lineage[n][k]] = links[lineage[n][k]]
    BY <1>1 DEF CredInv, LineageInv, Grows, Id
  <1>4. BindsAt(n)'
    <2>1. BindsAt(n)
      BY DEF Made
    <2>2. 1 \in 1..Len(lineage[n]) /\ \A k \in 2..Len(lineage[n]) : k \in 1..Len(lineage[n])
      BY <1>1
    <2> QED BY <1>2, <1>3, <2>1, <2>2 DEF BindsAt
  <1>5. n \in lib' => n \in lib
    BY <1>1
  <1>6. links[n].prev # ZERO32 => links'[links[n].prev] = links[links[n].prev]
    <2>1. links[n] \in Link /\ links[n].prev < n
      BY <1>1 DEF CredInv, TypeOK
    <2>2. links[n].prev # ZERO32 => links[n].prev \in Id
      BY <1>1, <2>1 DEF Link, Id, ZERO32
    <2> QED BY <2>2 DEF Grows
  <1> QED BY <1>2, <1>4, <1>5, <1>6 DEF Made, MadeAt

LEMMA NewMade ==
    ASSUME CredInv, CredInv', Made, Grows, NEW l \in Link, AddLink(l), l.prev \in Id \cup {ZERO32},
           NEW n \in Nat, n = Len(links) + 1,
           n \in lib' => /\ l.v = VERSION /\ l.sig = l.dgr /\ l.dgr \notin WeakKey
                         /\ l.prev # ZERO32 => l.dgr = links[l.prev].dge
    PROVE  BindsAt(n)' /\ MadeAt(n)'
  <1>1. links'[n] = l /\ Len(links) \in Nat
    BY AddLinkTable DEF CredInv, TypeOK
  <1>2. lineage'[n] = Append(IF l.prev = ZERO32 THEN <<>> ELSE lineage[l.prev], n)
    BY AddLinkLineage DEF CredInv
  <1>3. CASE l.prev = ZERO32
    <2>1. lineage'[n] = <<n>>
      BY <1>2, <1>3
    <2> QED BY <1>1, <1>3, <2>1 DEF BindsAt, MadeAt
  <1>4. CASE l.prev # ZERO32
    <2> DEFINE p == l.prev
               above == lineage[p]
    <2>1. /\ p \in Id /\ above \in Seq(Nat) /\ Len(above) \in Nat /\ Len(above) > 0
          /\ above[Len(above)] = p
          /\ \A k \in 1..Len(above) : above[k] \in Id
      <3>1. p \in Id /\ Id = 1..Len(links) /\ Len(lineage) = Len(links)
            /\ lineage \in Seq(Seq(Nat))
        BY <1>4 DEF CredInv, TypeOK, Id
      <3>2. above \in Seq(Nat) /\ Len(above) \in Nat
        BY <3>1
      <3>3. Len(above) > 0 /\ above[Len(above)] = p /\ \A k \in 1..Len(above) : above[k] \in 1..p
        BY <3>1 DEF CredInv, LineageInv
      <3>4. \A j \in 1..p : j \in Id
        BY <1>1, <3>1
      <3> QED BY <3>1, <3>2, <3>3, <3>4
    <2>2. lineage'[n] = Append(above, n)
      BY <1>2, <1>4
    <2>3. BindsAt(p)
      BY <2>1 DEF Made
    <2>4. \A k \in 1..Len(above) : links'[above[k]] = links[above[k]]
      BY <2>1 DEF Grows
    <2>5. links'[p].dge = links[p].dge
      BY <2>1 DEF Grows
    <2>6. /\ Len(lineage'[n]) = Len(above) + 1 /\ lineage'[n][Len(above) + 1] = n
          /\ \A k \in 1..Len(above) : lineage'[n][k] = above[k]
      BY <2>1, <2>2
    <2>7. links'[lineage'[n][1]].prev = ZERO32
      BY <2>1, <2>3, <2>4, <2>6 DEF BindsAt
    <2>8. ASSUME NEW k \in 2..Len(lineage'[n])
          PROVE  links'[lineage'[n][k]].prev = lineage'[n][k - 1]
      <3>1. CASE k = Len(above) + 1
        <4>1. k - 1 = Len(above) /\ k - 1 \in 1..Len(above)
          BY <2>1, <3>1
        <4>2. lineage'[n][k] = n /\ lineage'[n][k - 1] = p
          BY <2>1, <2>6, <3>1, <4>1
        <4> QED BY <1>1, <4>2
      <3>2. CASE k # Len(above) + 1
        <4>1. k \in 2..Len(above) /\ k \in 1..Len(above) /\ k - 1 \in 1..Len(above)
          BY <2>1, <2>6, <3>2
        <4>2. lineage'[n][k] = above[k] /\ lineage'[n][k - 1] = above[k - 1]
          BY <2>6, <4>1
        <4>3. links[above[k]].prev = above[k - 1]
          BY <2>3, <4>1 DEF BindsAt
        <4> QED BY <2>4, <4>1, <4>2, <4>3
      <3> QED BY <3>1, <3>2
    <2> QED BY <1>1, <2>5, <2>7, <2>8 DEF BindsAt, MadeAt
  <1> QED BY <1>3, <1>4

LEMMA MadeStep ==
    ASSUME CredInv, Made, [Next]_credVars
    PROVE  Made'
  <1>1. CredInv' /\ Grows
    BY CredStep
  <1>2. CASE MintStep \/ AttenuateStep \/ ElsewhereStep
    <2>1. PICK l \in Link :
              /\ l.prev \in Id \cup {ZERO32} /\ AddLink(l)
              /\ \/ lib' = lib
                 \/ /\ lib' = lib \cup {Len(links) + 1}
                    /\ l.v = VERSION /\ l.sig = l.dgr /\ l.dgr \notin WeakKey
                    /\ l.prev # ZERO32 => l.dgr = links[l.prev].dge
      BY <1>2, MintAdds, AttenuateAdds, ElsewhereAdds
    <2>2. lib' \subseteq lib \cup {Len(links) + 1}
      BY <2>1
    <2>3. Len(links) + 1 \in Nat /\ Len(links) + 1 \notin lib
          /\ Id' = Id \cup {Len(links) + 1}
      BY <2>1, AddLinkTable DEF CredInv, TypeOK, Id
    <2>4. \A n \in Id : BindsAt(n)' /\ MadeAt(n)'
      BY <1>1, <2>2, OldMade
    <2>5. Len(links) + 1 \in lib' =>
              /\ l.v = VERSION /\ l.sig = l.dgr /\ l.dgr \notin WeakKey
              /\ l.prev # ZERO32 => l.dgr = links[l.prev].dge
      BY <2>1, <2>3
    <2>6. \A n \in Nat : n = Len(links) + 1 => BindsAt(n)' /\ MadeAt(n)'
      BY <1>1, <2>1, <2>5, NewMade
    <2> QED BY <2>3, <2>4, <2>6 DEF Made
  <1>3. CASE Tick \/ UNCHANGED credVars
    <2>1. links' = links /\ lineage' = lineage /\ lib' = lib /\ Id' = Id
      BY <1>3 DEF Tick, credVars, Id
    <2> QED BY <2>1 DEF Made, BindsAt, MadeAt
  <1> QED BY <1>2, <1>3 DEF Next

-----------------------------------------------------------------------------
(* VerifyChain.tla: the loop. *)

\* The links of the first k hops.
Hops(k) == {links[chain[j]] : j \in 1..k}

\* The first k hops bind to each other and passed every check.
Passed(k) ==
    /\ links[chain[1]].dgr \in Root
    /\ \A j \in 1..k : LinkOK(chain, j, revoked0)

\* The first k hops are, in order, the lineage of the k-th.
IsLineage(k) == k > 0 => lineage[chain[k]] = [j \in 1..k |-> chain[j]]

\* The accumulators are exact for the first k hops.
Accumulated(k) ==
    /\ effCav = UNION {l.cav : l \in Hops(k)}
    /\ effNbf \in {0} \cup {l.nbf : l \in Hops(k)}
    /\ effExp \in {Far} \cup {l.exp : l \in Hops(k)}
    /\ 0 <= effNbf /\ effExp <= Far
    /\ \A l \in Hops(k) : l.nbf <= effNbf /\ effExp <= l.exp

Walked(k) == Passed(k) /\ IsLineage(k) /\ Accumulated(k)

LoopInv ==
    /\ pc \in {"loop", "accepted"} =>
          /\ Len(chain) \in 1..MAX_DEPTH /\ Len(chain) <= max_depth
          /\ Walked(i - 1)
    /\ pc = "accepted" => i = Len(chain) + 1 /\ effNbf <= at /\ at <= effExp

VInv == CredInv /\ VTypeOK /\ LoopInv

-----------------------------------------------------------------------------

LEMMA VInitInv == VInit => VInv
  <1> SUFFICES ASSUME VInit PROVE VInv
    OBVIOUS
  <1>1. CredInv
    BY CredInit DEF VInit
  <1>2. VTypeOK
    BY <1>1, VerifierAssumption DEF VInit, VTypeOK, CredInv
  <1>3. LoopInv
    BY DEF VInit, LoopInv
  <1> QED BY <1>1, <1>2, <1>3 DEF VInv

\* Steps that keep the call's own variables and only add links or revocations
\* keep what the call has found out.
LEMMA OthersKeep ==
    ASSUME VInv, CredInv', Grows, UNCHANGED callVars,
           revoked' \subseteq Id', revoked \subseteq revoked'
    PROVE  VInv'
  <1>1. Id \subseteq Id'
    BY DEF Grows, Id, VInv, CredInv, TypeOK
  <1>2. VTypeOK'
    BY <1>1 DEF VTypeOK, VInv, CredInv, callVars
  <1>3. \A k \in 1..Len(chain) : chain[k] \in Id /\ links'[chain[k]] = links[chain[k]]
                                 /\ lineage'[chain[k]] = lineage[chain[k]]
    BY DEF VInv, VTypeOK, Grows
  <1>4. LoopInv'
    <2>1. UNCHANGED <<pc, chain, i, at, max_depth, effNbf, effExp, effCav, revoked0>>
      BY DEF callVars
    <2>2. SUFFICES ASSUME pc \in {"loop", "accepted"}
                   PROVE  Walked(i - 1)'
      BY <2>1 DEF LoopInv, VInv
    <2>3. /\ Len(chain) \in 1..MAX_DEPTH /\ Len(chain) <= max_depth
          /\ Walked(i - 1) /\ i - 1 \in 0..Len(chain) /\ Len(chain) \in Nat
      BY <2>2 DEF LoopInv, VInv, VTypeOK
    <2>4. Hops(i - 1)' = Hops(i - 1)
      BY <2>1, <2>3, <1>3 DEF Hops
    <2>5. Accumulated(i - 1)'
      BY <2>1, <2>3, <2>4 DEF Walked, Accumulated
    <2>6. IsLineage(i - 1)'
      BY <2>1, <2>3, <1>3 DEF Walked, IsLineage
    <2>7. Passed(i - 1)'
      <3>1. links'[chain[1]].dgr \in Root
        BY <2>3, <1>3 DEF Walked, Passed
      <3>2. ASSUME NEW j \in 1..(i - 1) PROVE LinkOK(chain, j, revoked0)'
        <4>1. j \in 1..Len(chain) /\ LinkOK(chain, j, revoked0)
          BY <2>3 DEF Walked, Passed
        <4>2. j # 1 => j - 1 \in 1..Len(chain)
          BY <4>1
        <4> QED BY <2>1, <4>1, <4>2, <1>3
                DEF LinkOK, Binds, VerifySig, RawVerify, IsSmallOrder
      <3> QED BY <2>1, <3>1, <3>2 DEF Passed
    <2> QED BY <2>5, <2>6, <2>7 DEF Walked
  <1> QED BY <1>2, <1>4 DEF VInv

\* Entering the loop, nothing is walked yet.
LEMMA BeginKeeps == VInv /\ BeginStep => VInv'
  <1> SUFFICES ASSUME VInv, BeginStep PROVE VInv'
    OBVIOUS
  <1>1. PICK c \in Chains, t \in GivenAt \cup {Now}, depth \in GivenDepth : Begin(c, t, depth)
    BY DEF BeginStep
  <1>2. CredInv' /\ Id' = Id /\ links' = links
    BY <1>1 DEF Begin, credVars, VInv, CredInv, TypeOK, LineageInv, Id
  <1>3. c \in Seq(Nat) /\ \A k \in 1..Len(c) : c[k] \in Id
    <2>1. PICK n \in 0..(MAX_DEPTH + 1) : c \in [1..n -> Id]
      BY DEF Chains
    <2>2. n \in Nat /\ Id \subseteq Nat
      BY <2>1, VerifierAssumption DEF Id, VInv, CredInv, TypeOK
    <2>3. c = [j \in 1..n |-> c[j]] /\ \A j \in 1..n : c[j] \in Id /\ c[j] \in Nat
      BY <2>1, <2>2
    <2>4. c \in Seq(Nat) /\ Len(c) = n
      BY <2>2, <2>3
    <2> QED BY <2>3, <2>4
  <1>4. t \in Int /\ depth \in 0..MAX_DEPTH
    BY VerifierAssumption DEF Now, VInv, CredInv, TypeOK
  <1>5. VTypeOK'
    BY <1>1, <1>2, <1>3, <1>4, VerifierAssumption
       DEF Begin, VTypeOK, VInv, CredInv
  <1>6. LoopInv'
    <2>1. SUFFICES ASSUME pc' = "loop"
                   PROVE  Len(c) \in 1..MAX_DEPTH /\ Len(c) <= depth /\ Walked(0)'
      <3>1. pc' \in {"loop", "rejected"} /\ chain' = c /\ max_depth' = depth /\ i' - 1 = 0
        BY <1>1 DEF Begin
      <3>2. Walked(0)' => Walked(i - 1)'
        BY <3>1
      <3> QED BY <3>1, <3>2 DEF LoopInv
    <2>2. EntryOK(c, depth) /\ chain' = c
      BY <1>1, <2>1 DEF Begin
    <2>3. Len(c) \in 1..MAX_DEPTH /\ Len(c) <= depth
      BY <2>2, <1>3, <1>4, VerifierAssumption DEF EntryOK
    <2>4. Passed(0)'
      BY <2>2, <1>2 DEF EntryOK, Passed
    <2>5. IsLineage(0)'
      BY DEF IsLineage
    <2>6. Accumulated(0)'
      <3>1. Hops(0)' = {}
        BY DEF Hops
      <3>2. effNbf' = 0 /\ effExp' = Far /\ effCav' = {}
        BY <1>1 DEF Begin
      <3> QED BY <3>1, <3>2, VerifierAssumption DEF Accumulated
    <2> QED BY <2>3, <2>4, <2>5, <2>6 DEF Walked
  <1> QED BY <1>2, <1>5, <1>6 DEF VInv

LEMMA ReturnKeeps == VInv /\ Return => VInv'
  <1> SUFFICES ASSUME VInv, Return PROVE VInv'
    OBVIOUS
  <1>1. CredInv' /\ Id' = Id
    BY DEF Return, credVars, VInv, CredInv, TypeOK, LineageInv, Id
  <1>2. VTypeOK'
    BY <1>1, VerifierAssumption DEF Return, VTypeOK, VInv, CredInv
  <1>3. LoopInv'
    BY DEF Return, LoopInv
  <1> QED BY <1>1, <1>2, <1>3 DEF VInv

\* Leaving the loop, everything is walked.
LEMMA CheckWindowKeeps == VInv /\ CheckWindow => VInv'
  <1> SUFFICES ASSUME VInv, CheckWindow PROVE VInv'
    OBVIOUS
  <1>1. CredInv' /\ Id' = Id
    BY DEF CheckWindow, credVars, VInv, CredInv, TypeOK, LineageInv, Id
  <1>2. VTypeOK'
    BY <1>1 DEF CheckWindow, VTypeOK, VInv, CredInv
  <1>3. Walked(i - 1)' <=> Walked(i - 1)
    BY DEF CheckWindow, credVars, Walked, Passed, IsLineage, Accumulated, Hops,
           LinkOK, Binds, VerifySig, RawVerify, IsSmallOrder
  <1>4. LoopInv'
    BY <1>3 DEF CheckWindow, Outside, LoopInv, VInv, VTypeOK
  <1> QED BY <1>1, <1>2, <1>4 DEF VInv

-----------------------------------------------------------------------------
(* One iteration. *)

\* A link that binds to the walked prefix has that prefix as its lineage.
LEMMA BindsLineage ==
    ASSUME VInv, pc = "loop", i <= Len(chain), Binds(chain, i), IsLineage(i - 1)
    PROVE  IsLineage(i)
  <1>1. /\ i \in 1..Len(chain) /\ chain[i] \in Id /\ chain \in Seq(Nat)
        /\ lineage \in Seq(Seq(Nat)) /\ Len(chain) \in Nat
    BY DEF VInv, VTypeOK, CredInv, TypeOK
  <1>2. CASE i = 1
    <2>1. lineage[chain[1]] = <<chain[1]>>
      BY <1>1, <1>2 DEF Binds, VInv, CredInv, LineageInv
    <2> QED BY <1>2, <2>1 DEF IsLineage
  <1>3. CASE i # 1
    <2>1. /\ i - 1 \in 1..Len(chain) /\ links[chain[i]].prev = chain[i - 1]
          /\ chain[i - 1] \in Id /\ chain[i - 1] # ZERO32
      BY <1>1, <1>3 DEF Binds, VInv, VTypeOK, Id, ZERO32
    <2>2. lineage[chain[i]] = Append(lineage[chain[i - 1]], chain[i])
      BY <1>1, <2>1 DEF VInv, CredInv, LineageInv
    <2>3. lineage[chain[i - 1]] = [j \in 1..(i - 1) |-> chain[j]]
      BY <2>1 DEF IsLineage
    <2>4. Append([j \in 1..(i - 1) |-> chain[j]], chain[i]) = [j \in 1..i |-> chain[j]]
      <3> DEFINE s == [j \in 1..(i - 1) |-> chain[j]]
      <3>1. \A j \in 1..(i - 1) : chain[j] \in Nat
        BY <1>1
      <3>2. s \in Seq(Nat) /\ Len(s) = i - 1
        BY <3>1, <1>1
      <3> QED BY <3>2, <1>1
    <2> QED BY <2>2, <2>3, <2>4 DEF IsLineage
  <1> QED BY <1>2, <1>3

\* The accumulators take one more link in.
LEMMA AccumulateKeeps ==
    ASSUME VInv, pc = "loop", i <= Len(chain), Accumulate(links[chain[i]]),
           UNCHANGED <<links, chain>>, Accumulated(i - 1), NEW k, k = i
    PROVE  Accumulated(k)'
  <1>1. i \in 1..Len(chain) /\ chain[i] \in Id
    BY DEF VInv, VTypeOK
  <1>2. links[chain[i]] \in Link
    BY <1>1 DEF VInv, CredInv, TypeOK, Id
  <1> DEFINE l == links[chain[i]]
  <1>3. l.nbf \in Int /\ l.exp \in Int /\ effNbf \in Int /\ effExp \in Int /\ Far \in Int
    BY <1>2, VerifierAssumption DEF Link, VInv, VTypeOK
  <1>4. Hops(k)' = Hops(i - 1) \cup {l}
    BY <1>1 DEF Hops
  <1>5. \A h \in Hops(i - 1) : h.nbf \in Int /\ h.exp \in Int
    <2> SUFFICES ASSUME NEW j \in 1..(i - 1)
                 PROVE  links[chain[j]].nbf \in Int /\ links[chain[j]].exp \in Int
      BY DEF Hops
    <2>1. chain[j] \in Id
      BY <1>1 DEF VInv, VTypeOK
    <2>2. links[chain[j]] \in Link
      BY <2>1 DEF VInv, CredInv, TypeOK, Id
    <2> QED BY <2>2 DEF Link
  <1>6. effNbf' = Later(effNbf, l.nbf) /\ effExp' = Sooner(effExp, l.exp)
        /\ effCav' = effCav \cup l.cav
    BY DEF Accumulate
  <1> HIDE DEF l
  <1>7. effCav' = UNION {h.cav : h \in Hops(i - 1) \cup {l}}
    BY <1>6 DEF Accumulated
  <1>8. /\ effNbf' \in {0} \cup {h.nbf : h \in Hops(i - 1) \cup {l}}
        /\ effExp' \in {Far} \cup {h.exp : h \in Hops(i - 1) \cup {l}}
    BY <1>6 DEF Accumulated, Later, Sooner
  <1>9. 0 <= effNbf' /\ effExp' <= Far
    BY <1>3, <1>6 DEF Accumulated, Later, Sooner
  <1>10. \A h \in Hops(i - 1) \cup {l} : h.nbf <= effNbf' /\ effExp' <= h.exp
    BY <1>3, <1>5, <1>6 DEF Accumulated, Later, Sooner
  <1> QED BY <1>4, <1>7, <1>8, <1>9, <1>10 DEF Accumulated

LEMMA CheckLinkKeeps == VInv /\ CheckLink => VInv'
  <1> SUFFICES ASSUME VInv, CheckLink PROVE VInv'
    OBVIOUS
  <1>1. /\ pc = "loop" /\ i \in 1..Len(chain) /\ chain[i] \in Id /\ Len(chain) \in Nat
        /\ UNCHANGED <<links, lineage, chain, at, max_depth, revoked, revoked0>>
    BY DEF CheckLink, VInv, VTypeOK, credVars
  <1>2. CredInv' /\ Id' = Id
    BY DEF CheckLink, credVars, VInv, CredInv, TypeOK, LineageInv, Id
  <1>3. Len(chain) \in 1..MAX_DEPTH /\ Len(chain) <= max_depth /\ Walked(i - 1)
    BY <1>1 DEF VInv, LoopInv
  <1>4. CASE LinkOK(chain, i, revoked)
    <2>1. Accumulate(links[chain[i]]) /\ i' = i + 1 /\ pc' = pc
      BY <1>4 DEF CheckLink
    <2>2. links[chain[i]] \in Link
      BY <1>1 DEF VInv, CredInv, TypeOK, Id
    <2>3. VTypeOK'
      <3>1. effNbf' \in Nat /\ effExp' \in Int /\ effCav' \subseteq Caveat
        <4> DEFINE l == links[chain[i]]
        <4>1. l.nbf \in Int /\ l.exp \in Int /\ l.cav \subseteq Caveat
          BY <2>2 DEF Link
        <4>2. effNbf \in Nat /\ effExp \in Int /\ effCav \subseteq Caveat
          BY DEF VInv, VTypeOK
        <4>3. /\ effNbf' = Later(effNbf, l.nbf) /\ effExp' = Sooner(effExp, l.exp)
              /\ effCav' = effCav \cup l.cav
          BY <2>1 DEF Accumulate
        <4> HIDE DEF l
        <4>4. effNbf' \in Nat
          BY <4>1, <4>2, <4>3 DEF Later
        <4>5. effExp' \in Int
          BY <4>1, <4>2, <4>3 DEF Sooner
        <4>6. effCav' \subseteq Caveat
          BY <4>1, <4>2, <4>3
        <4> QED BY <4>4, <4>5, <4>6
      <3>2. i' \in 1..(Len(chain') + 1)
        BY <1>1, <2>1
      <3>3. TypeOK'
        BY <1>2 DEF CredInv
      <3> QED BY <1>1, <1>2, <2>1, <3>1, <3>2, <3>3 DEF VTypeOK, VInv
    <2>4. Passed(i)
      <3>1. LinkOK(chain, i, revoked0)
        BY <1>4 DEF LinkOK, VInv, VTypeOK
      <3>2. \A j \in 1..i : j \in 1..(i - 1) \/ j = i
        BY <1>1
      <3> QED BY <1>3, <3>1, <3>2 DEF Walked, Passed
    <2>5. IsLineage(i)
      BY <1>1, <1>3, <1>4, BindsLineage DEF Walked, LinkOK
    <2>6. \A k : k = i => (Passed(k) => Passed(k)') /\ (IsLineage(k) => IsLineage(k)')
      BY <1>1 DEF Passed, IsLineage, LinkOK, Binds, VerifySig, RawVerify, IsSmallOrder
    <2>7. \A k : k = i => Accumulated(k)'
      BY <1>1, <1>3, <2>1, AccumulateKeeps DEF Walked
    <2>8. \A k : k = i => Walked(k)'
      BY <2>4, <2>5, <2>6, <2>7 DEF Walked
    <2>9. Walked(i - 1)'
      <3>1. PICK k : k = i
        OBVIOUS
      <3>2. i' - 1 = k
        BY <2>1, <3>1, <1>1
      <3>3. Walked(k)'
        BY <3>1, <2>8
      <3> QED BY <3>2, <3>3 DEF Walked, Passed, IsLineage, Accumulated, Hops
    <2>10. LoopInv'
      BY <1>1, <1>3, <2>1, <2>9 DEF LoopInv
    <2> QED BY <1>2, <2>3, <2>10 DEF VInv
  <1>5. CASE ~LinkOK(chain, i, revoked)
    <2>1. pc' = "rejected" /\ UNCHANGED <<effNbf, effExp, effCav, i>>
      BY <1>5 DEF CheckLink
    <2>2. VTypeOK'
      BY <1>1, <1>2, <2>1 DEF VTypeOK, VInv, CredInv
    <2>3. LoopInv'
      BY <2>1 DEF LoopInv
    <2> QED BY <1>2, <2>2, <2>3 DEF VInv
  <1> QED BY <1>4, <1>5

-----------------------------------------------------------------------------

LEMMA VStep == VInv /\ [VNext]_vars => VInv'
  <1> SUFFICES ASSUME VInv, [VNext]_vars PROVE VInv'
    OBVIOUS
  <1>1. CASE Next /\ UNCHANGED <<revoked, callVars>>
    <2>1. CredInv' /\ Grows
      BY <1>1, CredStep DEF VInv
    <2>2. Id \subseteq Id'
      BY <2>1 DEF Grows, Id, VInv, CredInv, TypeOK
    <2> QED BY <1>1, <2>1, <2>2, OthersKeep DEF VInv, VTypeOK
  <1>2. CASE RevokeStep \/ UNCHANGED vars
    <2>1. UNCHANGED <<credVars, callVars>> /\ revoked \subseteq revoked' /\ revoked' \subseteq Id
      BY <1>2 DEF RevokeStep, Revoke, vars, VInv, VTypeOK
    <2>2. UNCHANGED credVars /\ CredInv /\ Id' = Id
      BY <2>1 DEF credVars, VInv, Id
    <2>3. CredInv' /\ Grows
      BY <2>2, CredStep
    <2> QED BY <2>1, <2>2, <2>3, OthersKeep
  <1>3. CASE BeginStep
    BY <1>3, BeginKeeps
  <1>4. CASE CheckLink
    BY <1>4, CheckLinkKeeps
  <1>5. CASE CheckWindow
    BY <1>5, CheckWindowKeeps
  <1>6. CASE Return
    BY <1>6, ReturnKeeps
  <1> QED BY <1>1, <1>2, <1>3, <1>4, <1>5, <1>6 DEF VNext, VerifyStep

LEMMA VInvariant == VSpec => []VInv
  BY VInitInv, VStep, PTL DEF VSpec

\* The verifier's variables are well typed in every state.
THEOREM VTyping == VSpec => []VTypeOK
  <1>1. VInv => VTypeOK
    BY DEF VInv
  <1> QED BY VInvariant, <1>1, PTL

\* No splice: whatever list is presented, an accepted one is the lineage that
\* its leaf's hash commits to.
THEOREM NoSplice == VSpec => []AcceptedIsLineage
  <1>1. VInv => AcceptedIsLineage
    <2> SUFFICES ASSUME VInv, pc = "accepted"
                 PROVE  chain = lineage[chain[Len(chain)]]
      BY DEF AcceptedIsLineage
    <2>1. Len(chain) \in 1..MAX_DEPTH /\ IsLineage(Len(chain)) /\ chain \in Seq(Nat)
      BY DEF VInv, LoopInv, Walked, VTypeOK
    <2>2. chain = [j \in 1..Len(chain) |-> chain[j]]
      BY <2>1
    <2> QED BY <2>1, <2>2 DEF IsLineage
  <1> QED BY VInvariant, <1>1, PTL

\* Every hop of an accepted credential was signed by the key its predecessor
\* delegated to, the first by a trusted root, none by a degenerate key.
THEOREM Accountability == VSpec => []Accountable
  <1>1. VInv => Accountable
    <2> SUFFICES ASSUME VInv, pc = "accepted"
                 PROVE  /\ links[chain[1]].sig \in Root
                        /\ \A k \in 2..Len(chain) :
                              links[chain[k]].sig = links[chain[k - 1]].dge
                        /\ \A k \in 1..Len(chain) : links[chain[k]].sig \notin WeakKey
      BY DEF Accountable
    <2>1. Len(chain) \in 1..MAX_DEPTH /\ Passed(Len(chain)) /\ Len(chain) \in Nat
      BY DEF VInv, LoopInv, Walked, VTypeOK
    <2>2. \A k \in 1..Len(chain) :
             /\ Binds(chain, k)
             /\ links[chain[k]].sig = links[chain[k]].dgr
             /\ links[chain[k]].dgr \notin WeakKey
      BY <2>1 DEF Passed, LinkOK, VerifySig, RawVerify, IsSmallOrder
    <2> QED BY <2>1, <2>2 DEF Binds, Passed
  <1> QED BY VInvariant, <1>1, PTL

\* The Decision carries exactly the authority of the whole chain.
THEOREM ExactDecision == VSpec => []DecisionExact
  <1>1. VInv => DecisionExact
    <2> SUFFICES ASSUME VInv, pc = "accepted" PROVE DecisionExact
      BY DEF DecisionExact
    <2>1. Accumulated(Len(chain))
      BY DEF VInv, VTypeOK, LoopInv, Walked
    <2> QED BY <2>1 DEF Accumulated, Hops, DecisionExact
  <1> QED BY VInvariant, <1>1, PTL

-----------------------------------------------------------------------------
(* The verdict under a moving deny-list. *)

Refused == pc = "rejected" => ~Valid(chain, at, revoked) \/ Len(chain) > max_depth

\* More revocations, and more links, never make the list of a call valid.
LEMMA NeverValidAgain ==
    ASSUME VInv, VInv', Grows, UNCHANGED <<chain, at>>, revoked \subseteq revoked',
           Valid(chain, at, revoked)'
    PROVE  Valid(chain, at, revoked)
  <1>1. \A k \in 1..Len(chain) : links'[chain[k]] = links[chain[k]]
    BY DEF VInv, VTypeOK, Grows
  <1>2. Len(chain) \in Nat /\ \A k \in 2..Len(chain) : k \in 1..Len(chain) /\ k - 1 \in 1..Len(chain)
    BY DEF VInv, VTypeOK
  <1>3. Len(chain) \in 1..MAX_DEPTH /\ 1 \in 1..Len(chain)
    BY VerifierAssumption, <1>2 DEF Valid
  <1> QED BY <1>1, <1>2, <1>3 DEF Valid

\* A list that fails an entry check, a check of the loop, or the window, is not
\* valid under the deny-list of that moment.
LEMMA RefusalJust ==
    ASSUME VInv, VInv', Refused, VerifyStep \/ BeginStep, pc' = "rejected"
    PROVE  (~Valid(chain, at, revoked) \/ Len(chain) > max_depth)'
  <1>1. CASE BeginStep
    <2>1. PICK c \in Chains, t \in GivenAt \cup {Now}, depth \in GivenDepth : Begin(c, t, depth)
      BY <1>1 DEF BeginStep
    <2>2. /\ ~EntryOK(c, depth) /\ chain' = c /\ links' = links /\ max_depth' = depth
          /\ c \in Seq(Nat) /\ Len(c) \in Nat /\ depth \in Int
      BY <2>1, VerifierAssumption DEF Begin, credVars, VInv, VTypeOK
    <2> QED BY <2>2, VerifierAssumption DEF EntryOK, Valid
  <1>2. CASE CheckLink
    <2>1. /\ i \in 1..Len(chain) /\ chain[i] \in Id /\ Len(chain) \in Nat
          /\ ~LinkOK(chain, i, revoked)
          /\ UNCHANGED <<links, chain, at, revoked>>
      BY <1>2 DEF CheckLink, VInv, VTypeOK, credVars
    <2>2. links[chain[i]] \in Link
      BY <2>1 DEF VInv, CredInv, TypeOK, Id
    <2>3. links[chain[i]].nbf \in Int /\ links[chain[i]].exp \in Int /\ at \in Int
      BY <2>2 DEF Link, VInv, VTypeOK
    <2>4. SUFFICES ASSUME Valid(chain, at, revoked) PROVE LinkOK(chain, i, revoked)
      BY <2>1 DEF Valid
    <2>5. /\ links[chain[i]].v = VERSION
          /\ links[chain[i]].sig = links[chain[i]].dgr
          /\ links[chain[i]].dgr \notin WeakKey
          /\ links[chain[i]].nbf <= at /\ at <= links[chain[i]].exp
          /\ chain[i] \notin revoked
      BY <2>1, <2>4 DEF Valid
    <2>6. Binds(chain, i)
      BY <2>1, <2>4 DEF Valid, Binds
    <2> QED BY <2>3, <2>5, <2>6 DEF LinkOK, VerifySig, RawVerify, IsSmallOrder
  <1>3. CASE CheckWindow
    <2>1. /\ at < effNbf \/ at > effExp
          /\ i - 1 = Len(chain) /\ Len(chain) \in Nat
          /\ UNCHANGED <<links, chain, at, revoked>>
      BY <1>3 DEF CheckWindow, Outside, VInv, VTypeOK, credVars
    <2>2. Accumulated(Len(chain))
      BY <1>3, <2>1 DEF CheckWindow, VInv, LoopInv, Walked
    <2>3. SUFFICES ASSUME Valid(chain, at, revoked) PROVE FALSE
      BY <2>1 DEF Valid
    <2>4. /\ 0 <= at /\ at <= Far
          /\ \A h \in Hops(Len(chain)) : h.nbf <= at /\ at <= h.exp
      BY <2>3 DEF Valid, Hops
    <2>5. effNbf <= at
      BY <2>2, <2>4 DEF Accumulated
    <2>6. at <= effExp
      BY <2>2, <2>4 DEF Accumulated
    <2>7. at \in Int /\ effNbf \in Int /\ effExp \in Int
      BY DEF VInv, VTypeOK
    <2> QED BY <2>1, <2>5, <2>6, <2>7
  <1> QED BY <1>1, <1>2, <1>3 DEF VerifyStep

LEMMA RefusedStep == VInv /\ VInv' /\ Refused /\ [VNext]_vars => Refused'
  <1> SUFFICES ASSUME VInv, VInv', Refused, [VNext]_vars, pc' = "rejected"
               PROVE  (~Valid(chain, at, revoked) \/ Len(chain) > max_depth)'
    BY DEF Refused
  <1>1. CASE VerifyStep \/ BeginStep
    BY <1>1, RefusalJust
  <1>2. CASE Return
    BY <1>2 DEF Return
  <1>3. CASE \/ Next /\ UNCHANGED <<revoked, callVars>>
             \/ RevokeStep \/ UNCHANGED vars
    <2>1. Grows
      <3>1. CASE Next /\ UNCHANGED <<revoked, callVars>>
        BY <3>1, CredStep DEF VInv
      <3>2. CASE RevokeStep \/ UNCHANGED vars
        BY <3>2 DEF RevokeStep, Revoke, vars, credVars, Grows, VInv, CredInv, TypeOK
      <3> QED BY <1>3, <3>1, <3>2
    <2>2. UNCHANGED <<pc, chain, at, max_depth>> /\ revoked \subseteq revoked'
      BY <1>3 DEF callVars, vars, RevokeStep, Revoke
    <2> QED BY <2>1, <2>2, NeverValidAgain DEF Refused
  <1> QED BY <1>1, <1>2, <1>3 DEF VNext

\* A verdict is sound both ways although the deny-list moves under the call: an
\* accepted credential was valid when the call began, a rejected one is not
\* valid under the deny-list of now, or longer than the caller admits.
THEOREM SoundVerdict == VSpec => []VerdictSound
  <1>1. VInit => Refused
    BY DEF VInit, Refused
  <1>2. VInv /\ Refused => VerdictSound
    <2> SUFFICES ASSUME VInv, Refused, pc = "accepted"
                 PROVE  Valid(chain, at, revoked0) /\ Len(chain) <= max_depth
      BY DEF VerdictSound, Refused
    <2>1. /\ Len(chain) \in 1..MAX_DEPTH /\ Len(chain) <= max_depth /\ Passed(Len(chain)) /\ Accumulated(Len(chain))
          /\ Len(chain) \in Nat /\ effNbf <= at /\ at <= effExp
          /\ at \in Int /\ effNbf \in Int /\ effExp \in Int
      BY DEF VInv, LoopInv, Walked, VTypeOK
    <2>2. \A k \in 1..Len(chain) :
             /\ links[chain[k]].v = VERSION /\ Binds(chain, k)
             /\ links[chain[k]].sig = links[chain[k]].dgr
             /\ links[chain[k]].dgr \notin WeakKey
             /\ chain[k] \notin revoked0
      BY <2>1 DEF Passed, LinkOK, VerifySig, RawVerify, IsSmallOrder
    <2>3. \A k \in 1..Len(chain) : links[chain[k]].nbf <= at /\ at <= links[chain[k]].exp
      <3> SUFFICES ASSUME NEW k \in 1..Len(chain)
                   PROVE  links[chain[k]].nbf <= at /\ at <= links[chain[k]].exp
        OBVIOUS
      <3>1. links[chain[k]] \in Link
        BY DEF VInv, VTypeOK, CredInv, TypeOK, Id
      <3>2. links[chain[k]].nbf <= effNbf /\ effExp <= links[chain[k]].exp
        BY <2>1 DEF Accumulated, Hops
      <3> QED BY <2>1, <3>1, <3>2 DEF Link
    <2>4. 0 <= at /\ at <= Far
      BY <2>1, VerifierAssumption DEF Accumulated
    <2> QED BY <2>1, <2>2, <2>3, <2>4 DEF Valid, Passed, Binds, ZERO32
  <1> QED BY VInvariant, VInitInv, VStep, RefusedStep, <1>1, <1>2, PTL DEF VSpec

-----------------------------------------------------------------------------
(* The library's own credentials. *)

\* The lineage of a link that the library made with everything above it is a
\* valid list, but for what its makers could know or an operator decided.
LEMMA LibraryValid ==
    ASSUME VInv, LibraryNarrows, Made, chain # <<>>,
           chain = lineage[chain[Len(chain)]],
           \A k \in 1..Len(chain) : chain[k] \in lib,
           links[chain[1]].dgr \in Root, Len(chain) <= MAX_DEPTH,
           \A k \in 1..Len(chain) : chain[k] \notin revoked,
           at >= Later(0, links[chain[Len(chain)]].nbf),
           at <= Sooner(Far, links[chain[Len(chain)]].exp)
    PROVE  Valid(chain, at, revoked)
  <1> DEFINE n == chain[Len(chain)]
  <1>1. /\ chain \in Seq(Nat) /\ Len(chain) \in Nat /\ Len(chain) > 0 /\ n \in Id
        /\ \A k \in 1..Len(chain) : chain[k] \in Id /\ links[chain[k]] \in Link
        /\ at \in Int /\ Far \in Int
    <2>1. /\ chain \in Seq(Nat) /\ at \in Int /\ Far \in Int
          /\ \A k \in 1..Len(chain) : chain[k] \in Id
      BY VerifierAssumption DEF VInv, VTypeOK
    <2>2. Len(chain) \in Nat /\ Len(chain) > 0
      BY <2>1
    <2>3. \A j \in Id : links[j] \in Link
      BY DEF VInv, CredInv, TypeOK, Id
    <2> QED BY <2>1, <2>2, <2>3
  <1>2. /\ links[chain[1]].prev = ZERO32
        /\ \A k \in 2..Len(chain) : links[chain[k]].prev = chain[k - 1]
    BY <1>1 DEF Made, BindsAt
  <1>3. /\ at >= 0 /\ at <= Far /\ at >= links[n].nbf /\ at <= links[n].exp
        /\ links[n].nbf \in Int /\ links[n].exp \in Int
    BY <1>1 DEF Later, Sooner, Link
  <1>4. ASSUME NEW k \in 1..Len(chain)
        PROVE  links[chain[k]].nbf <= at /\ at <= links[chain[k]].exp
    <2>1. links[n].nbf >= links[chain[k]].nbf /\ links[n].exp <= links[chain[k]].exp
      BY <1>1 DEF LibraryNarrows
    <2>2. links[chain[k]].nbf \in Int /\ links[chain[k]].exp \in Int /\ at \in Int
      BY <1>1 DEF Link
    <2> QED BY <1>3, <2>1, <2>2
  <1>5. \A k \in 1..Len(chain) : MadeAt(chain[k])
    BY <1>1 DEF Made
  <1>6. \A k \in 2..Len(chain) : links[chain[k]].dgr = links[chain[k - 1]].dge
    <2> SUFFICES ASSUME NEW k \in 2..Len(chain)
                 PROVE  links[chain[k]].dgr = links[chain[k - 1]].dge
      OBVIOUS
    <2>1. k \in 1..Len(chain) /\ k - 1 \in 1..Len(chain)
      BY <1>1
    <2>2. links[chain[k]].prev = chain[k - 1]
      BY <1>2
    <2>3. chain[k - 1] # ZERO32
      <3>1. chain[k - 1] \in Id
        BY <1>1, <2>1
      <3> QED BY <3>1 DEF Id, ZERO32
    <2> QED BY <1>1, <1>5, <2>1, <2>2, <2>3 DEF MadeAt
  <1>7. Len(chain) \in 1..MAX_DEPTH
    BY <1>1, VerifierAssumption
  <1> QED BY <1>2, <1>3, <1>4, <1>5, <1>6, <1>7 DEF Valid, MadeAt

\* A credential made by mint and attenuate alone and presented whole is refused
\* only for an untrusted root, its depth, a revocation or its last link's
\* window, although verify_chain checks every hop and attenuate checks none.
THEOREM AcceptsOwn == VSpec => []LibraryAccepted
  <1> DEFINE Own == VInv /\ Refused /\ LibraryNarrows /\ Made
  <1>1. VInit => Own
    <2>1. VInit => VInv /\ Refused
      BY VInitInv DEF VInit, Refused
    <2>2. VInit => LibraryNarrows /\ Made
      BY DEF VInit, Init, LibraryNarrows, Made, Id
    <2> QED BY <2>1, <2>2
  <1>2. Own /\ [VNext]_vars => Own'
    <2> SUFFICES ASSUME Own, [VNext]_vars PROVE Own'
      OBVIOUS
    <2>1. VInv'
      BY VStep
    <2>2. Refused'
      BY <2>1, RefusedStep
    <2>3. [Next]_credVars
      BY DEF VNext, BeginStep, Begin, VerifyStep, CheckLink, CheckWindow, Return,
             RevokeStep, Revoke, vars
    <2>4. LibraryNarrows' /\ Made'
      BY <2>3, NarrowStep, MadeStep DEF VInv
    <2> QED BY <2>1, <2>2, <2>4
  <1>3. Own => LibraryAccepted
    <2> SUFFICES ASSUME Own, pc = "rejected", chain # <<>>,
                        chain = lineage[chain[Len(chain)]],
                        \A k \in 1..Len(chain) : chain[k] \in lib,
                        links[chain[1]].dgr \in Root, ~(Len(chain) > max_depth),
                        \A k \in 1..Len(chain) : chain[k] \notin revoked,
                        ~(at < Later(0, links[chain[Len(chain)]].nbf)),
                        ~(at > Sooner(Far, links[chain[Len(chain)]].exp))
                 PROVE  FALSE
      BY DEF LibraryAccepted
    <2>1. /\ Len(chain) \in Nat /\ MAX_DEPTH \in Nat /\ max_depth \in 0..MAX_DEPTH /\ at \in Int /\ Far \in Int
          /\ chain[Len(chain)] \in Id
      BY VerifierAssumption DEF VInv, VTypeOK
    <2>2. links[chain[Len(chain)]] \in Link
      BY <2>1 DEF VInv, CredInv, TypeOK, Id
    <2>3. /\ Later(0, links[chain[Len(chain)]].nbf) \in Int
          /\ Sooner(Far, links[chain[Len(chain)]].exp) \in Int
      BY <2>1, <2>2 DEF Link, Later, Sooner
    <2>4. /\ Len(chain) <= MAX_DEPTH
          /\ at >= Later(0, links[chain[Len(chain)]].nbf)
          /\ at <= Sooner(Far, links[chain[Len(chain)]].exp)
      BY <2>1, <2>3
    <2> QED BY <2>4, LibraryValid DEF Refused
  <1> HIDE DEF Own
  <1> QED BY <1>1, <1>2, <1>3, PTL DEF VSpec
=============================================================================
