--------------------------- MODULE MetadataProofs ---------------------------
(***************************************************************************)
(* Proofs about Metadata, for any number of roots, documents, faults and   *)
(* crashes.  The inductive invariant says how the repositories publish     *)
(* (their documents are ordered by key and version), what the table of     *)
(* roots looks like, which documents updateMeta holds at each of its steps *)
(* and how they agree with the database.                                   *)
(***************************************************************************)
EXTENDS Metadata, TLAPS

Sequenced(r, d, e) ==
  /\ d.gen <= e.gen
  /\ d.gen = e.gen => IF r = "director" THEN d.ver <= e.ver ELSE d.ver < e.ver

\* The documents of a role, of which the last may be signed with keys up to g.
OrderedDocs(r, s, g) ==
  \A j \in 1..Len(s) : s[j].gen <= g /\ \A i \in 1..(j - 1) : Sequenced(r, s[i], s[j])

\* Versions that grow from each document to the next one grow altogether.
GrowDocs(s) ==
  (\A i \in 2..Len(s) : s[i - 1].ver < s[i].ver)
    => \A j \in 1..Len(s) : \A i \in 1..(j - 1) : s[i].ver < s[j].ver

\* The types, in the form the proofs need them.
Typed ==
  /\ roots \in [Repo -> Seq(Nat)]
  /\ docs \in [Repo -> [Role -> Seq(Doc)]]
  /\ DOMAIN root_store = Repo
  /\ meta_store \in [Repo -> [Role -> Nat]]
  /\ root_mem \in [Repo -> Nat]
  /\ meta_mem \in [Repo -> [Role -> Nat]]
  /\ pc \in {"idle", "first", "latest", "chain", "clear", "new", "check"} \cup Role
  /\ repo \in Repo
  /\ remote \in Nat /\ faults \in Nat /\ crashes \in Nat

\* What the two repositories have published.
Published ==
  \A r \in Repo :
    /\ Len(roots[r]) > 0
    /\ \A role \in Role :
         /\ Len(docs[r][role]) > 0 <=> role \in RolesOf(r)
         /\ OrderedDocs(r, docs[r][role], Last(roots[r]))
         /\ GrowDocs(docs[r][role])

\* Documents and roots are named by their places in these sequences.
InRange ==
  \A r \in Repo :
    /\ root_mem[r] \in 0..Len(roots[r])
    /\ \A role \in Role : /\ meta_mem[r][role] \in 0..Len(docs[r][role])
                          /\ meta_store[r][role] \in 0..Len(docs[r][role])

\* The table of roots: one stored under another version than its own can only
\* be the first, and there is a latest one; nothing is stored before a root.
StoredRoots ==
  \A r \in Repo :
    LET D == DOMAIN root_store[r]
    IN  /\ \A v \in D : /\ v \in 1..Len(roots[r]) /\ root_store[r][v] \in 1..Len(roots[r])
                        /\ v # 1 => root_store[r][v] = v
        /\ D = {} => meta_store[r] = NoMeta
        /\ D # {} => \E m \in D : \A v \in D : v <= m

\* The roles that updateMeta has behind it in the repository it is at.
Fetched ==
  IF pc = "snapshot" THEN {"timestamp"}
  ELSE IF pc = "targets" THEN RolesOf(repo) \ {"targets"}
  ELSE IF pc \in {"new", "check"} THEN RolesOf(repo) ELSE {}

\* What a repository object holds: the latest stored root and, of the roles
\* behind it, documents that verify.
Held ==
  /\ pc = "first" => DOMAIN root_store[repo] = {}
  /\ pc \notin {"idle", "first"} => DOMAIN root_store[repo] # {} /\ root_mem[repo] = loadLatestRoot(repo)
  /\ pc \in {"timestamp", "snapshot"} => repo = "images"
  /\ pc = "new" => repo = "director"
  /\ pc # "idle" =>
       \A role \in Role :
         IF role \in Fetched
         THEN /\ meta_mem[repo][role] # 0
              /\ Verifies(repo, role, meta_mem[repo][role], root_mem[repo], meta_mem[repo])
         ELSE meta_mem[repo][role] = 0

\* The Images repository is asked only once the Director's is done with.
Assigned(a) == docs["director"]["targets"][meta_mem["director"]["targets"]].assigns = a
DirectorFirst ==
  /\ pc # "idle" /\ repo = "images" =>
       /\ DOMAIN root_store["director"] # {} /\ root_mem["director"] = loadLatestRoot("director")
       /\ meta_mem["director"]["targets"] # 0 /\ Assigned("new")
       /\ Verifies("director", "targets", meta_mem["director"]["targets"], root_mem["director"],
                   meta_mem["director"])
  /\ pc = "check" /\ repo = "director" => Assigned("nothing")

ImagesHeld ==
  ImagesChain /\ \A role \in Role : meta_mem["images"][role] # 0 => root_mem["images"] # 0

CInv == Typed /\ Published /\ InRange /\ StoredRoots /\ Held /\ DirectorFirst /\ ImagesHeld

\* How a publication extends what there is.
RootsGrow(r) ==
  \/ roots'[r] = roots[r]
  \/ \E g \in Nat : Last(roots[r]) <= g /\ roots'[r] = Append(roots[r], g)
DocsGrow(r, role) ==
  \/ docs'[r][role] = docs[r][role]
  \/ \E d \in Doc :
       /\ role \in RolesOf(r)
       /\ docs'[r][role] = Append(docs[r][role], d)
       /\ d.gen = Last(roots'[r])
       /\ Last(docs[r][role]).gen = d.gen => Sequenced(r, Last(docs[r][role]), d)

Grown ==
  /\ roots' = [r \in Repo |-> roots'[r]]
  /\ docs' = [r \in Repo |-> [role \in Role |-> docs'[r][role]]]
  /\ \A r \in Repo : RootsGrow(r) /\ \A role \in Role : DocsGrow(r, role)

\* Nothing that was published is taken back.
Kept ==
  \A r \in Repo :
    /\ Len(roots[r]) <= Len(roots'[r])
    /\ \A i \in 1..Len(roots[r]) : roots'[r][i] = roots[r][i]
    /\ \A role \in Role :
         /\ Len(docs[r][role]) <= Len(docs'[r][role])
         /\ \A i \in 1..Len(docs[r][role]) : docs'[r][role][i] = docs[r][role][i]

-----------------------------------------------------------------------------
(* The repositories. *)

\* A document signed with the latest keys comes after all the others.
LEMMA OrderedAppend ==
  ASSUME NEW r \in Repo, NEW s \in Seq(Doc), NEW g \in Nat, NEW h \in Nat, g <= h,
         OrderedDocs(r, s, g), Len(s) > 0, NEW d \in Doc, d.gen = h,
         s[Len(s)].gen = h => Sequenced(r, s[Len(s)], d)
  PROVE  OrderedDocs(r, Append(s, d), h)
<1> DEFINE t == Append(s, d)
<1>1. Len(t) = Len(s) + 1 /\ t[Len(s) + 1] = d /\ Len(s) \in Nat
  OBVIOUS
<1>2. \A i \in 1..Len(s) : t[i] = s[i] /\ s[i] \in Doc /\ s[i].gen <= g
  BY DEF OrderedDocs
<1>3. \A i \in 1..Len(s) : s[i].gen \in Nat /\ s[i].ver \in Nat
  BY <1>2, Zenon DEF Doc
<1>4. d.gen \in Nat /\ d.ver \in Nat
  BY Zenon DEF Doc
<1>5. \A i \in 1..(Len(s) - 1) : Sequenced(r, s[i], s[Len(s)])
  BY <1>1 DEF OrderedDocs
<1>6. ASSUME NEW i \in 1..Len(s) PROVE Sequenced(r, s[i], d)
  <2> DEFINE l == s[Len(s)]
  <2>1. s[i].gen \in Nat /\ s[i].ver \in Nat /\ l.gen \in Nat /\ l.ver \in Nat /\ l.gen <= h /\ s[i].gen <= h
    BY <1>1, <1>2, <1>3
  <2>2. s[i] = l \/ Sequenced(r, s[i], l)
    BY <1>1, <1>5
  <2> HIDE DEF l
  <2>3. l.gen = h => Sequenced(r, l, d)
    BY Zenon DEF l
  <2>4. CASE l.gen = h
    BY <1>4, <2>1, <2>2, <2>3, <2>4 DEF Sequenced
  <2>5. CASE l.gen # h
    <3>1. s[i].gen <= l.gen
      BY <2>1, <2>2 DEF Sequenced
    <3>2. s[i].gen < d.gen
      BY <2>1, <2>5, <3>1
    <3> QED  BY <1>4, <2>1, <3>2 DEF Sequenced
  <2> QED  BY <2>4, <2>5, Zenon
<1> HIDE DEF t
<1>7. \A j \in 1..Len(s) : \A i \in 1..(j - 1) : Sequenced(r, t[i], t[j])
  BY <1>1, <1>2 DEF OrderedDocs
<1>8. \A i \in 1..Len(s) : Sequenced(r, t[i], t[Len(s) + 1])
  BY <1>1, <1>2, <1>6, Zenon
<1>9. \A j \in 1..Len(t) : t[j].gen <= h
  BY <1>1, <1>2, <1>3, <1>4
<1>10. OrderedDocs(r, t, h)
  BY <1>1, <1>7, <1>8, <1>9 DEF OrderedDocs
<1> QED  BY <1>10, Zenon DEF t

\* Growth from document to document stays growth altogether.
LEMMA GrowAppend ==
  ASSUME NEW s \in Seq(Doc), NEW d \in Doc, GrowDocs(s)
  PROVE  GrowDocs(Append(s, d))
<1> DEFINE t == Append(s, d)
<1>1. Len(t) = Len(s) + 1 /\ t[Len(s) + 1] = d /\ Len(s) \in Nat
  OBVIOUS
<1>2. \A i \in 1..Len(s) : t[i] = s[i]
  OBVIOUS
<1>3. \A i \in 1..Len(t) : t[i].ver \in Nat
  <2>1. \A i \in 1..Len(t) : t[i] \in Doc
    OBVIOUS
  <2> QED  BY <2>1, Zenon DEF Doc
<1> HIDE DEF t
<1>4. SUFFICES ASSUME \A i \in 2..Len(t) : t[i - 1].ver < t[i].ver,
                      NEW j \in 1..Len(t), NEW i \in 1..(j - 1)
               PROVE  t[i].ver < t[j].ver
  BY Zenon DEF GrowDocs, t
<1>5. \A k \in 2..Len(s) : s[k - 1].ver < s[k].ver
  BY <1>1, <1>2, <1>4
<1>6. \A k \in 1..Len(s) : \A l \in 1..(k - 1) : s[l].ver < s[k].ver
  BY <1>5, Zenon DEF GrowDocs
<1>7. CASE j \in 1..Len(s)
  BY <1>1, <1>2, <1>6, <1>7
<1>8. CASE j = Len(s) + 1 /\ i = Len(s)
  BY <1>1, <1>4, <1>8
<1>9. CASE j = Len(s) + 1 /\ i \in 1..(Len(s) - 1)
  <2>1. t[i].ver < t[Len(s)].ver
    BY <1>1, <1>2, <1>6, <1>9
  <2>2. t[Len(s)].ver < t[j].ver
    BY <1>1, <1>4, <1>9
  <2> QED  BY <1>1, <1>3, <1>9, <2>1, <2>2
<1> QED  BY <1>1, <1>7, <1>8, <1>9

\* What a session of commands on the Director's targets may leave.
LEMMA StagedType ==
  ASSUME Typed, Published, NEW st \in Staged
  PROVE  /\ current \in Doc
         /\ st.ver \in {current.ver, current.ver + 1}
         /\ st.assigns \in {"nothing", "new", "bad"}
<1> DEFINE c == docs["director"]["targets"]
           Docket == [ver : {current.ver, current.ver + 1}, assigns : {"nothing", "new", "bad"}]
<1>1. c \in Seq(Doc) /\ Len(c) > 0
  BY Zenon DEF Typed, Published, Repo, Role, RolesOf
<1>2. current \in Doc
  BY <1>1 DEF current, Last
<1>3. current.assigns \in {"nothing", "new", "bad"}
  BY <1>2, Zenon DEF Doc
<1>4. oldTargets \in Docket
  BY <1>3, Zenon DEF oldTargets
<1>5. \A x \in Docket, a \in {"nothing", "new", "bad"} : addTarget(x, a) \in Docket
  BY Zenon DEF addTarget
<1>6. \A x \in Docket : emptyTargets(x) \in Docket
  BY Zenon DEF emptyTargets
<1> HIDE DEF Docket
<1>7. Staged \subseteq Docket
  BY <1>4, <1>5, <1>6 DEF Staged
<1> QED  BY <1>2, <1>7, Zenon DEF Docket

\* The last document of a role that a repository publishes.
LEMMA LastDoc ==
  ASSUME Typed, Published, NEW r \in Repo, NEW role \in RolesOf(r)
  PROVE  /\ role \in Role /\ docs[r][role] \in Seq(Doc) /\ Len(docs[r][role]) \in Nat \ {0}
         /\ Last(docs[r][role]) \in Doc /\ Last(docs[r][role]).gen <= Last(roots[r])
         /\ Last(roots[r]) \in Nat
<1>1. role \in Role
  BY Zenon DEF RolesOf, Role
<1>2. docs[r][role] \in Seq(Doc) /\ Len(docs[r][role]) > 0 /\ roots[r] \in Seq(Nat) /\ Len(roots[r]) > 0
  BY <1>1, Zenon DEF Typed, Published
<1>3. OrderedDocs(r, docs[r][role], Last(roots[r]))
  BY <1>1, Zenon DEF Published
<1> QED  BY <1>1, <1>2, <1>3 DEF Last, OrderedDocs

\* Sign extends every role with a document of the keys it is given, of a
\* version that follows the last one unless the keys are new.
LEMMA SignGrows ==
  ASSUME Typed, Published, NEW r \in Repo, NEW gen \in Nat, NEW reset \in BOOLEAN,
         NEW assigns \in {"nothing", "new", "bad"}, Sign(r, gen, reset, assigns),
         gen = Last(roots'[r]), reset => Last(roots[r]) < gen
  PROVE  \A q \in Repo, role \in Role : DocsGrow(q, role)
<1> SUFFICES ASSUME NEW q \in Repo, NEW role \in Role PROVE DocsGrow(q, role)
  OBVIOUS
<1>1. docs \in [Repo -> [Role -> Seq(Doc)]]
  BY Zenon DEF Typed
<1>2. CASE q # r
  BY <1>1, <1>2, Zenon DEF Sign, DocsGrow
<1>3. CASE q = r /\ role \notin RolesOf(r)
  <2>1. Len(docs[r][role]) = 0 /\ docs[r][role] \in Seq(Doc)
    BY <1>1, <1>3 DEF Published
  <2>2. docs[r][role] = <<>>
    BY <2>1
  <2>3. docs'[r][role] = <<>>
    BY <1>1, <1>3, Zenon DEF Sign
  <2> QED  BY <1>3, <2>2, <2>3, Zenon DEF DocsGrow
<1>4. CASE q = r /\ role \in RolesOf(r)
  <2> DEFINE l == Last(docs[r][role])
             d == [ver |-> IF reset THEN 1 ELSE l.ver + 1, gen |-> gen,
                   pin |-> IF role = "timestamp" THEN Len(docs[r]["snapshot"]) + 1
                                                 ELSE Len(docs[r]["targets"]) + 1,
                   assigns |-> assigns]
  <2>1. docs'[r][role] = Append(docs[r][role], d)
    BY <1>1, <1>4, Zenon DEF Sign, signTuf
  <2>2. l \in Doc /\ l.gen <= Last(roots[r]) /\ Last(roots[r]) \in Nat
    BY <1>4, LastDoc, Zenon
  <2>3. l.ver \in Nat /\ l.gen \in Nat
    BY <2>2, Zenon DEF Doc
  <2>4. Len(docs[r]["snapshot"]) \in Nat /\ Len(docs[r]["targets"]) \in Nat
    BY <1>1 DEF Role
  <2>5. d \in Doc
    <3>1. (IF reset THEN 1 ELSE l.ver + 1) \in Nat
      BY <2>3
    <3>2. (IF role = "timestamp" THEN Len(docs[r]["snapshot"]) + 1 ELSE Len(docs[r]["targets"]) + 1) \in Nat
      BY <2>4
    <3> HIDE DEF l
    <3> QED  BY <3>1, <3>2, Zenon DEF Doc
  <2>6. l.gen = d.gen => Sequenced(r, l, d)
    BY <2>2, <2>3 DEF Sequenced
  <2> HIDE DEF d
  <2>7. d.gen = gen
    BY Zenon DEF d
  <2> QED  BY <1>4, <2>1, <2>5, <2>6, <2>7, Zenon DEF DocsGrow
<1> QED  BY <1>2, <1>3, <1>4, Zenon

\* Every publication extends the sequences.
LEMMA ServerGrows ==
  ASSUME Typed, Published, Server
  PROVE  Grown
<1>1. docs \in [Repo -> [Role -> Seq(Doc)]] /\ roots \in [Repo -> Seq(Nat)]
  BY Zenon DEF Typed
<1>2. \A r \in Repo : Last(roots[r]) \in Nat
  BY <1>1 DEF Published, Last
<1>3. CASE addImage
  <2>1. Sign("images", Last(roots["images"]), FALSE, "new") /\ roots' = roots
    BY <1>3, Zenon DEF addImage
  <2>2. "images" \in Repo
    BY Zenon DEF Repo
  <2>3. \A q \in Repo, role \in Role : DocsGrow(q, role)
    BY <1>2, <2>1, <2>2, SignGrows, Zenon
  <2> QED  BY <1>1, <2>1, <2>3, Zenon DEF Grown, RootsGrow, Sign
<1>4. CASE signTargets
  <2>1. PICK st \in Staged \ {oldTargets} :
          docs' = [docs EXCEPT !["director"]["targets"] =
                     signTuf("director", "targets", st.ver, Last(roots["director"]), Len(@) + 1, st.assigns)]
    BY <1>4, Zenon DEF signTargets
  <2>2. roots' = roots /\ "director" \in Repo /\ "targets" \in Role /\ "targets" \in RolesOf("director")
    BY <1>4, Zenon DEF signTargets, Repo, Role, RolesOf
  <2> DEFINE s == docs["director"]["targets"]
             d == [ver |-> st.ver, gen |-> Last(roots["director"]), pin |-> Len(s) + 1, assigns |-> st.assigns]
  <2>3. docs' = [docs EXCEPT !["director"]["targets"] = Append(s, d)]
    BY <1>1, <2>1, <2>2, Zenon DEF signTuf
  <2>4. current = Last(s) /\ current \in Doc /\ st.ver \in {current.ver, current.ver + 1}
        /\ st.assigns \in {"nothing", "new", "bad"}
    BY <2>1, StagedType, Zenon DEF current
  <2>5. d \in Doc
    BY <1>1, <1>2, <2>2, <2>4 DEF Doc
  <2>6. Last(s).gen = d.gen => Sequenced("director", Last(s), d)
    BY <2>4 DEF Sequenced, Doc
  <2>7. d.gen = Last(roots'["director"])
    BY <2>2, Zenon
  <2> HIDE DEF d
  <2>8. DocsGrow("director", "targets")
    BY <1>1, <2>2, <2>3, <2>5, <2>6, <2>7, Zenon DEF DocsGrow
  <2>9. \A r \in Repo, role \in Role : r # "director" \/ role # "targets" => docs'[r][role] = docs[r][role]
    BY <1>1, <2>3, Zenon
  <2>10. \A r \in Repo, role \in Role : DocsGrow(r, role)
    BY <2>8, <2>9, Zenon DEF DocsGrow
  <2> QED  BY <1>1, <2>2, <2>3, <2>10, Zenon DEF Grown, RootsGrow
<1>5. CASE Refresh
  <2> DEFINE s == docs["images"]["timestamp"]
             ts == Last(s)
             d == [ver |-> ts.ver + 1, gen |-> Last(roots["images"]), pin |-> ts.pin, assigns |-> ts.assigns]
  <2>1. docs' = [docs EXCEPT !["images"]["timestamp"] = Append(s, d)] /\ roots' = roots
    BY <1>5, Zenon DEF Refresh, signTuf
  <2>2. "images" \in Repo /\ "timestamp" \in Role /\ "timestamp" \in RolesOf("images")
    BY Zenon DEF Repo, Role, RolesOf
  <2>3. ts \in Doc
    BY <2>2, LastDoc, Zenon
  <2>4. d \in Doc
    BY <1>2, <2>2, <2>3 DEF Doc
  <2>5. ts.gen = d.gen => Sequenced("images", ts, d)
    BY <2>3 DEF Sequenced, Doc
  <2>6. d.gen = Last(roots'["images"])
    BY <2>1, Zenon
  <2> HIDE DEF d
  <2>7. DocsGrow("images", "timestamp")
    BY <1>1, <2>1, <2>2, <2>4, <2>5, <2>6, Zenon DEF DocsGrow
  <2>8. \A r \in Repo, role \in Role : r # "images" \/ role # "timestamp" => docs'[r][role] = docs[r][role]
    BY <1>1, <2>1, Zenon
  <2>9. \A r \in Repo, role \in Role : DocsGrow(r, role)
    BY <2>7, <2>8, Zenon DEF DocsGrow
  <2> QED  BY <1>1, <2>1, <2>2, <2>9, Zenon DEF Grown, RootsGrow
<1>6. ASSUME NEW r \in Repo, RotateRoot(r)
      PROVE  Grown
  <2>1. CASE roots' = [roots EXCEPT ![r] = Append(@, Last(@))] /\ docs' = docs
    <3>1. \A q \in Repo : RootsGrow(q)
      <4>1. Last(roots[r]) <= Last(roots[r])
        BY <1>2
      <4> QED  BY <1>1, <1>2, <2>1, <4>1, Zenon DEF RootsGrow
    <3> QED  BY <1>1, <2>1, <3>1, Zenon DEF Grown, DocsGrow
  <2>2. ASSUME NEW reset \in Resets, roots' = [roots EXCEPT ![r] = Append(@, Last(@) + 1)],
               Sign(r, Last(roots[r]) + 1, reset, Last(docs[r]["targets"]).assigns)
        PROVE  Grown
    <3>1. reset \in BOOLEAN
      BY MetadataAssumption, Zenon
    <3>2. "targets" \in RolesOf(r)
      BY Zenon DEF RolesOf, Role
    <3>3. Last(docs[r]["targets"]) \in Doc
      BY <3>2, LastDoc, Zenon
    <3>4. Last(docs[r]["targets"]).assigns \in {"nothing", "new", "bad"}
      BY <3>3, Zenon DEF Doc
    <3>5. Last(roots'[r]) = Last(roots[r]) + 1
      BY <1>1, <2>2 DEF Last
    <3>6. \A q \in Repo, role \in Role : DocsGrow(q, role)
      BY <1>2, <2>2, <3>1, <3>4, <3>5, SignGrows
    <3>7. \A q \in Repo : RootsGrow(q)
      <4>1. Last(roots[r]) + 1 \in Nat /\ Last(roots[r]) <= Last(roots[r]) + 1
        BY <1>2
      <4> QED  BY <1>1, <2>2, <4>1, Zenon DEF RootsGrow
    <3> QED  BY <1>1, <2>2, <3>6, <3>7, Zenon DEF Grown, Sign
  <2> QED  BY <1>6, <2>1, <2>2, Zenon DEF RotateRoot
<1> QED  BY <1>3, <1>4, <1>5, <1>6, Zenon DEF Server

\* What was published stays, ordered as before.
LEMMA GrownPublished ==
  ASSUME Typed, Published, Grown
  PROVE  Published' /\ Kept /\ roots' \in [Repo -> Seq(Nat)] /\ docs' \in [Repo -> [Role -> Seq(Doc)]]
<1> SUFFICES ASSUME NEW r \in Repo
             PROVE  /\ roots'[r] \in Seq(Nat) /\ Len(roots[r]) <= Len(roots'[r]) /\ Len(roots'[r]) > 0
                    /\ \A i \in 1..Len(roots[r]) : roots'[r][i] = roots[r][i]
                    /\ \A role \in Role :
                         /\ docs'[r][role] \in Seq(Doc)
                         /\ Len(docs[r][role]) <= Len(docs'[r][role])
                         /\ \A i \in 1..Len(docs[r][role]) : docs'[r][role][i] = docs[r][role][i]
                         /\ Len(docs'[r][role]) > 0 <=> role \in RolesOf(r)
                         /\ OrderedDocs(r, docs'[r][role], Last(roots'[r]))
                         /\ GrowDocs(docs'[r][role])
  BY Zenon DEF Grown, Published, Kept
<1>1. roots[r] \in Seq(Nat) /\ Len(roots[r]) > 0 /\ Last(roots[r]) \in Nat
  BY DEF Typed, Published, Last
<1>2. /\ roots'[r] \in Seq(Nat) /\ Len(roots[r]) <= Len(roots'[r]) /\ Len(roots'[r]) > 0
      /\ \A i \in 1..Len(roots[r]) : roots'[r][i] = roots[r][i]
      /\ Last(roots'[r]) \in Nat /\ Last(roots[r]) <= Last(roots'[r])
  <2>1. CASE roots'[r] = roots[r]
    BY <1>1, <2>1
  <2>2. ASSUME NEW g \in Nat, Last(roots[r]) <= g, roots'[r] = Append(roots[r], g)
        PROVE  /\ roots'[r] \in Seq(Nat) /\ Len(roots[r]) <= Len(roots'[r]) /\ Len(roots'[r]) > 0
               /\ \A i \in 1..Len(roots[r]) : roots'[r][i] = roots[r][i]
               /\ Last(roots'[r]) \in Nat /\ Last(roots[r]) <= Last(roots'[r])
    <3>1. Last(roots'[r]) = g
      BY <1>1, <2>2 DEF Last
    <3> QED  BY <1>1, <2>2, <3>1
  <2> QED  BY <2>1, <2>2, Zenon DEF Grown, RootsGrow
<1>3. ASSUME NEW role \in Role
      PROVE  /\ docs'[r][role] \in Seq(Doc)
             /\ Len(docs[r][role]) <= Len(docs'[r][role])
             /\ \A i \in 1..Len(docs[r][role]) : docs'[r][role][i] = docs[r][role][i]
             /\ Len(docs'[r][role]) > 0 <=> role \in RolesOf(r)
             /\ OrderedDocs(r, docs'[r][role], Last(roots'[r]))
             /\ GrowDocs(docs'[r][role])
  <2> DEFINE s == docs[r][role]  g == Last(roots[r])  h == Last(roots'[r])
  <2>1. s \in Seq(Doc) /\ OrderedDocs(r, s, g) /\ GrowDocs(s) /\ (Len(s) > 0 <=> role \in RolesOf(r))
    BY Zenon DEF Typed, Published
  <2>2. CASE docs'[r][role] = s
    <3>1. \A i \in 1..Len(s) : s[i].gen \in Nat
      <4>1. \A i \in 1..Len(s) : s[i] \in Doc
        BY <2>1
      <4> QED  BY <4>1, Zenon DEF Doc
    <3> HIDE DEF s, g, h
    <3>2. g \in Nat /\ h \in Nat /\ g <= h
      BY <1>1, <1>2, Zenon DEF g, h
    <3>3. OrderedDocs(r, s, h)
      BY <2>1, <3>1, <3>2 DEF OrderedDocs
    <3>4. Len(s) <= Len(s)
      BY <2>1
    <3> QED  BY <2>1, <2>2, <3>3, <3>4, Zenon DEF s, h
  <2>3. ASSUME NEW d \in Doc, role \in RolesOf(r), docs'[r][role] = Append(s, d), d.gen = h,
               Last(s).gen = d.gen => Sequenced(r, Last(s), d)
        PROVE  /\ docs'[r][role] \in Seq(Doc)
               /\ Len(s) <= Len(docs'[r][role])
               /\ \A i \in 1..Len(s) : docs'[r][role][i] = s[i]
               /\ Len(docs'[r][role]) > 0 <=> role \in RolesOf(r)
               /\ OrderedDocs(r, docs'[r][role], h)
               /\ GrowDocs(docs'[r][role])
    <3>1. OrderedDocs(r, Append(s, d), h)
      BY <1>1, <1>2, <2>1, <2>3, OrderedAppend, Zenon DEF Last
    <3>2. GrowDocs(Append(s, d))
      BY <2>1, GrowAppend, Zenon
    <3> HIDE DEF s, h
    <3> QED  BY <2>1, <2>3, <3>1, <3>2
  <2> QED  BY <2>2, <2>3, Zenon DEF Grown, DocsGrow
<1> QED  BY <1>2, <1>3, Zenon

-----------------------------------------------------------------------------
(* The database and the repository objects. *)

\* The largest element of a set that has one.
LEMMA MaxIs ==
  ASSUME NEW S \in SUBSET Int, NEW m \in S, \A v \in S : v <= m
  PROVE  Max(S) = m
<1>1. \A y \in S : m >= y
  OBVIOUS
<1>2. Max(S) \in S /\ \A y \in S : Max(S) >= y
  BY <1>1, Zenon DEF Max
<1>3. Max(S) \in Int /\ m \in Int /\ Max(S) <= m /\ Max(S) >= m
  BY <1>2, Zenon
<1> QED  BY <1>3

\* loadLatestRoot reads a root that the repository has published.
LEMMA Latest ==
  ASSUME Typed, StoredRoots, NEW r \in Repo, DOMAIN root_store[r] # {}
  PROVE  /\ loadLatestRoot(r) \in 1..Len(roots[r])
         /\ \E m \in DOMAIN root_store[r] :
              (\A v \in DOMAIN root_store[r] : v <= m) /\ loadLatestRoot(r) = root_store[r][m]
<1>1. PICK m \in DOMAIN root_store[r] : \A v \in DOMAIN root_store[r] : v <= m
  BY Zenon DEF StoredRoots
<1>2. DOMAIN root_store[r] \subseteq Int
  BY DEF StoredRoots
<1>3. Max(DOMAIN root_store[r]) = m
  BY <1>1, <1>2, MaxIs, Zenon
<1>4. loadLatestRoot(r) = root_store[r][m]
  BY <1>3, Zenon DEF loadLatestRoot
<1> QED  BY <1>1, <1>4, Zenon DEF StoredRoots

\* A fresh client holds nothing.
LEMMA InitControl == Init => CInv
<1> SUFFICES ASSUME Init PROVE CInv
  OBVIOUS
<1>1. Typed
  <2>1. \A r \in Repo : docs[r] \in [Role -> Seq(Doc)]
    <3>1. [ver |-> 1, gen |-> 0, pin |-> 1, assigns |-> "nothing"] \in Doc
          /\ [ver |-> 1, gen |-> 1, pin |-> 1, assigns |-> "nothing"] \in Doc
      BY Zenon DEF Doc
    <3> QED  BY <3>1 DEF Init, generateRepo
  <2> QED  BY <2>1 DEF Init, Typed, NoMeta, Repo
<1>2. Published
  <2> SUFFICES ASSUME NEW r \in Repo, NEW role \in Role
               PROVE  /\ Len(roots[r]) > 0
                      /\ Len(docs[r][role]) > 0 <=> role \in RolesOf(r)
                      /\ OrderedDocs(r, docs[r][role], Last(roots[r]))
                      /\ GrowDocs(docs[r][role])
    BY Zenon DEF Published, Role
  <2>1. roots[r] = <<1>> /\ Last(roots[r]) = 1
    BY Zenon DEF Init, Last
  <2>2. \/ role \notin RolesOf(r) /\ docs[r][role] = <<>>
        \/ role \in RolesOf(r) /\ \E d \in Doc : d.gen \in {0, 1} /\ docs[r][role] = <<d>>
    BY DEF Init, generateRepo, Doc
  <2>3. CASE docs[r][role] = <<>>
    BY <2>1, <2>2, <2>3 DEF OrderedDocs, GrowDocs
  <2>4. ASSUME NEW d \in Doc, d.gen \in {0, 1}, docs[r][role] = <<d>>
        PROVE  OrderedDocs(r, docs[r][role], 1) /\ GrowDocs(docs[r][role]) /\ Len(docs[r][role]) > 0
    BY <2>4 DEF OrderedDocs, GrowDocs
  <2> QED  BY <2>1, <2>2, <2>3, <2>4, Zenon
<1>3. InRange /\ StoredRoots
  BY <1>1 DEF Init, InRange, StoredRoots, NoMeta, Typed
<1> QED  BY <1>1, <1>2, <1>3, Zenon DEF Init, CInv, Held, DirectorFirst, ImagesHeld, ImagesChain, NoMeta, Repo, Role

\* What verified before a publication still does.
LEMMA KeptVerifies ==
  ASSUME Typed, Kept, NEW r \in Repo, NEW role \in Role, NEW d \in 1..Len(docs[r][role]),
         NEW root \in 1..Len(roots[r]), NEW m \in [Role -> Nat],
         \A q \in Role : m[q] \in 0..Len(docs[r][q]), Verifies(r, role, d, root, m)
  PROVE  Verifies(r, role, d, root, m)'
<1>1. docs'[r][role][d] = docs[r][role][d] /\ roots'[r][root] = roots[r][root]
  BY Zenon DEF Kept
<1>2. PinnedBy(role) \in Role
  BY Zenon DEF PinnedBy, Role
<1>3. \A q \in Role : m[q] # 0 => docs'[r][q][m[q]] = docs[r][q][m[q]]
  <2> SUFFICES ASSUME NEW q \in Role, m[q] # 0 PROVE docs'[r][q][m[q]] = docs[r][q][m[q]]
    OBVIOUS
  <2>1. docs[r][q] \in Seq(Doc)
    BY DEF Typed
  <2>2. m[q] \in 1..Len(docs[r][q])
    BY <2>1
  <2> QED  BY <2>2, Zenon DEF Kept
<1> QED  BY <1>1, <1>2, <1>3, Zenon DEF Verifies

\* A publication leaves the client as it is.
LEMMA ServerControl ==
  ASSUME CInv, Server
  PROVE  CInv' /\ Kept
<1>1. UNCHANGED <<root_store, meta_store, root_mem, meta_mem, pc, repo, remote, faults, crashes>>
  BY Zenon DEF Server, addImage, signTargets, Refresh, RotateRoot, storeVars, memVars
<1>2. Published' /\ Kept /\ roots' \in [Repo -> Seq(Nat)] /\ docs' \in [Repo -> [Role -> Seq(Doc)]]
  BY ServerGrows, GrownPublished, Zenon DEF CInv
<1>3. Typed /\ InRange /\ StoredRoots /\ Held /\ DirectorFirst /\ ImagesHeld
  BY Zenon DEF CInv
<1>4. Typed'
  BY <1>1, <1>2, <1>3, Zenon DEF Typed
<1>5. \A r \in Repo : Len(roots[r]) \in Nat /\ Len(roots'[r]) \in Nat
                      /\ \A role \in Role : Len(docs[r][role]) \in Nat /\ Len(docs'[r][role]) \in Nat
  BY <1>2, <1>3 DEF Typed
<1>6. InRange'
  <2>1. ASSUME NEW r \in Repo PROVE root_mem[r] \in 0..Len(roots'[r])
    <3>1. root_mem[r] \in 0..Len(roots[r]) /\ Len(roots[r]) <= Len(roots'[r])
      BY <1>2, <1>3, Zenon DEF InRange, Kept
    <3> QED  BY <1>5, <3>1
  <2>2. ASSUME NEW r \in Repo, NEW role \in Role
        PROVE  /\ meta_mem[r][role] \in 0..Len(docs'[r][role])
               /\ meta_store[r][role] \in 0..Len(docs'[r][role])
    <3>1. /\ meta_mem[r][role] \in 0..Len(docs[r][role]) /\ meta_store[r][role] \in 0..Len(docs[r][role])
          /\ Len(docs[r][role]) <= Len(docs'[r][role])
      BY <1>2, <1>3, Zenon DEF InRange, Kept
    <3> QED  BY <1>5, <3>1
  <2> QED  BY <1>1, <2>1, <2>2, Zenon DEF InRange
<1>7. StoredRoots'
  <2> SUFFICES ASSUME NEW r \in Repo, NEW v \in DOMAIN root_store[r]
               PROVE  v \in 1..Len(roots'[r]) /\ root_store[r][v] \in 1..Len(roots'[r])
    BY <1>1, <1>3, Zenon DEF StoredRoots
  <2>1. v \in 1..Len(roots[r]) /\ root_store[r][v] \in 1..Len(roots[r])
    BY <1>3, Zenon DEF StoredRoots
  <2> QED  BY <1>2, <1>5, <2>1 DEF Kept
<1>8. \A r \in Repo : loadLatestRoot(r)' = loadLatestRoot(r)
  BY <1>1, Zenon DEF loadLatestRoot
<1>9. ASSUME NEW r \in Repo, NEW role \in Role, meta_mem[r][role] # 0,
             DOMAIN root_store[r] # {}, root_mem[r] = loadLatestRoot(r),
             Verifies(r, role, meta_mem[r][role], root_mem[r], meta_mem[r])
      PROVE  Verifies(r, role, meta_mem[r][role], root_mem[r], meta_mem[r])'
  <2>1. root_mem[r] \in 1..Len(roots[r])
    BY <1>3, <1>9, Latest, Zenon
  <2>2. \A q \in Role : meta_mem[r][q] \in 0..Len(docs[r][q])
    BY <1>3, Zenon DEF InRange
  <2>3. meta_mem[r] \in [Role -> Nat] /\ meta_mem[r][role] \in 1..Len(docs[r][role])
    BY <1>3, <1>5, <1>9, <2>2 DEF Typed
  <2>4. \A d \in 1..Len(docs[r][role]), root \in 1..Len(roots[r]), m \in [Role -> Nat] :
          (\A q \in Role : m[q] \in 0..Len(docs[r][q])) /\ Verifies(r, role, d, root, m)
            => Verifies(r, role, d, root, m)'
    BY <1>2, <1>3, KeptVerifies, Zenon
  <2>5. docs'[r][role][meta_mem[r][role]].gen = roots'[r][root_mem[r]]
        /\ (r = "images" /\ role # "timestamp" =>
              /\ meta_mem[r][PinnedBy(role)] # 0
              /\ docs'[r][PinnedBy(role)][meta_mem[r][PinnedBy(role)]].pin = meta_mem[r][role])
    BY <1>9, <2>1, <2>2, <2>3, <2>4, Zenon DEF Verifies
  <2> QED  BY <1>1, <2>5, Zenon DEF Verifies
<1>10. Held'
  <2>1. Fetched' = Fetched
    BY <1>1, Zenon DEF Fetched
  <2>2. pc = "first" => Fetched = {}
    BY Zenon DEF Fetched, RolesOf, Role
  <2>3. repo \in Repo
    BY <1>3, Zenon DEF Typed
  <2>4. \A role \in Role : pc # "idle" /\ role \in Fetched =>
          Verifies(repo, role, meta_mem[repo][role], root_mem[repo], meta_mem[repo])'
    BY <1>1, <1>3, <1>9, <2>2, <2>3, Zenon DEF Held
  <2> QED  BY <1>1, <1>3, <1>8, <2>1, <2>3, <2>4, Zenon DEF Held
<1>11. DirectorFirst'
  <2>1. "director" \in Repo /\ "targets" \in Role
    BY Zenon DEF Repo, Role
  <2>2. ASSUME meta_mem["director"]["targets"] # 0
        PROVE  docs'["director"]["targets"][meta_mem["director"]["targets"]]
                 = docs["director"]["targets"][meta_mem["director"]["targets"]]
    <3>1. meta_mem["director"]["targets"] \in 1..Len(docs["director"]["targets"])
      BY <1>3, <1>5, <2>1, <2>2 DEF InRange
    <3> QED  BY <1>2, <2>1, <3>1, Zenon DEF Kept
  <2>3. pc = "check" /\ repo = "director" => meta_mem["director"]["targets"] # 0
    BY <1>3, <2>1, Zenon DEF Held, Fetched, RolesOf
  <2> QED  BY <1>1, <1>3, <1>8, <1>9, <2>1, <2>2, <2>3, Zenon DEF DirectorFirst, Assigned
<1>12. ImagesHeld'
  <2>1. "images" \in Repo
    BY Zenon DEF Repo
  <2>2. ASSUME NEW role \in Role, meta_mem["images"][role] # 0
        PROVE  docs'["images"][role][meta_mem["images"][role]] = docs["images"][role][meta_mem["images"][role]]
    <3>1. meta_mem["images"][role] \in 1..Len(docs["images"][role])
      BY <1>3, <1>5, <2>1, <2>2 DEF InRange
    <3> QED  BY <1>2, <2>1, <3>1, Zenon DEF Kept
  <2>3. root_mem["images"] # 0 => roots'["images"][root_mem["images"]] = roots["images"][root_mem["images"]]
    <3>1. ASSUME root_mem["images"] # 0 PROVE root_mem["images"] \in 1..Len(roots["images"])
      BY <1>3, <1>5, <2>1, <3>1 DEF InRange
    <3> QED  BY <1>2, <2>1, <3>1, Zenon DEF Kept
  <2>4. "timestamp" \in Role /\ "snapshot" \in Role /\ "targets" \in Role
    BY Zenon DEF Role
  <2> QED  BY <1>1, <1>3, <2>2, <2>3, <2>4, Zenon DEF ImagesHeld, ImagesChain
<1> QED  BY <1>2, <1>4, <1>6, <1>7, <1>10, <1>11, <1>12, Zenon DEF CInv

\* Begin: nothing is held of the repository but its latest stored root.
LEMMA BeginControl ==
  ASSUME CInv, NEW r \in Repo, Begin(r), UNCHANGED <<serverVars, storeVars, remote, faults, crashes>>,
         r = "images" => pc = "new" /\ Assigned("new")
  PROVE  CInv'
<1>1. Typed /\ Published /\ InRange /\ StoredRoots /\ Held /\ DirectorFirst /\ ImagesHeld
  BY Zenon DEF CInv
<1>2. UNCHANGED <<roots, docs, root_store, meta_store, remote, faults, crashes>>
  BY Zenon DEF serverVars, storeVars
<1>3. repo' = r /\ meta_mem' = [meta_mem EXCEPT ![r] = NoMeta]
  BY Zenon DEF Begin
<1>4. NoMeta \in [Role -> Nat] /\ \A role \in Role : NoMeta[role] = 0
  BY Zenon DEF NoMeta
<1>5. \/ DOMAIN root_store[r] = {} /\ pc' = "first" /\ root_mem' = [root_mem EXCEPT ![r] = 0]
      \/ DOMAIN root_store[r] # {} /\ pc' = "latest" /\ root_mem' = [root_mem EXCEPT ![r] = loadLatestRoot(r)]
  BY Zenon DEF Begin
<1>6. \A q \in Repo : Len(roots[q]) \in Nat /\ \A role \in Role : Len(docs[q][role]) \in Nat
  BY <1>1 DEF Typed
<1>7. root_mem' = [root_mem EXCEPT ![r] = root_mem'[r]] /\ root_mem'[r] \in Nat
      /\ root_mem'[r] \in 0..Len(roots[r])
      /\ (DOMAIN root_store[r] # {} => root_mem'[r] = loadLatestRoot(r))
  <2>1. CASE DOMAIN root_store[r] = {}
    BY <1>1, <1>5, <1>6, <2>1 DEF Typed
  <2>2. CASE DOMAIN root_store[r] # {}
    <3>1. loadLatestRoot(r) \in 1..Len(roots[r])
      BY <1>1, <2>2, Latest, Zenon
    <3> QED  BY <1>1, <1>5, <1>6, <2>2, <3>1 DEF Typed
  <2> QED  BY <2>1, <2>2, Zenon
<1>8. \A q \in Repo : loadLatestRoot(q)' = loadLatestRoot(q)
  BY <1>2, Zenon DEF loadLatestRoot
<1>9. Typed'
  BY <1>1, <1>2, <1>3, <1>4, <1>5, <1>7, Zenon DEF Typed
<1>10. Published' /\ StoredRoots'
  BY <1>1, <1>2, Zenon DEF Published, StoredRoots
<1>11. InRange'
  BY <1>1, <1>2, <1>3, <1>4, <1>6, <1>7 DEF InRange, Typed
<1>12. meta_mem'[r] = NoMeta /\ \A q \in Repo \ {r} : meta_mem'[q] = meta_mem[q] /\ root_mem'[q] = root_mem[q]
  BY <1>1, <1>3, <1>7, Zenon DEF Typed
<1>13. Held'
  <2>1. Fetched' = {}
    BY <1>5, Zenon DEF Fetched
  <2> QED  BY <1>2, <1>3, <1>4, <1>5, <1>7, <1>8, <1>12, <2>1, Zenon DEF Held
<1>14. DirectorFirst'
  <2>1. CASE r = "images"
    <3>1. "director" \in Repo \ {r} /\ "targets" \in Role
      BY <2>1, Zenon DEF Repo, Role
    <3>2. repo = "director" /\ "targets" \in Fetched
      BY <1>1, <2>1, Zenon DEF Held, Fetched, RolesOf
    <3>3. DOMAIN root_store["director"] # {} /\ root_mem["director"] = loadLatestRoot("director")
          /\ meta_mem["director"]["targets"] # 0
          /\ Verifies("director", "targets", meta_mem["director"]["targets"], root_mem["director"],
                      meta_mem["director"])
      BY <1>1, <2>1, <3>1, <3>2, Zenon DEF Held
    <3> QED  BY <1>2, <1>3, <1>5, <1>8, <1>12, <2>1, <3>1, <3>3, Zenon DEF DirectorFirst, Assigned, Verifies
  <2>2. CASE r = "director"
    BY <1>3, <1>5, <2>2, Zenon DEF DirectorFirst
  <2> QED  BY <2>1, <2>2, Zenon DEF Repo
<1>15. ImagesHeld'
  <2>1. "timestamp" \in Role /\ "snapshot" \in Role /\ "targets" \in Role
    BY Zenon DEF Role
  <2>2. CASE r = "images"
    BY <1>4, <1>12, <2>1, <2>2, Zenon DEF ImagesHeld, ImagesChain
  <2>3. CASE r = "director"
    <3>1. meta_mem'["images"] = meta_mem["images"] /\ root_mem'["images"] = root_mem["images"]
      BY <1>12, <2>3, Zenon DEF Repo
    <3> QED  BY <1>1, <1>2, <3>1, Zenon DEF ImagesHeld, ImagesChain
  <2> QED  BY <2>2, <2>3, Zenon DEF Repo
<1> QED  BY <1>9, <1>10, <1>11, <1>13, <1>14, <1>15, Zenon DEF CInv

\* A step that leaves the database and the repository objects alone.
LEMMA QuietControl ==
  ASSUME CInv, UNCHANGED <<serverVars, storeVars, memVars, repo, crashes>>,
         remote' \in Nat, faults' \in Nat,
         \/ pc' = "idle"
         \/ pc = "latest" /\ pc' = "chain"
         \/ pc = "chain" /\ pc' = FirstRole(repo)
         \/ pc = "new" /\ pc' = "check" /\ Assigned("nothing")
  PROVE  CInv'
<1>1. Typed /\ Published /\ InRange /\ StoredRoots /\ Held /\ DirectorFirst /\ ImagesHeld
  BY Zenon DEF CInv
<1>2. UNCHANGED <<roots, docs, root_store, meta_store, root_mem, meta_mem, repo, crashes>>
  BY Zenon DEF serverVars, storeVars, memVars
<1>3. repo \in Repo
  BY <1>1, Zenon DEF Typed
<1>4. Typed'
  BY <1>1, <1>2, <1>3, Zenon DEF Typed, FirstRole, Role
<1>5. Published' /\ StoredRoots' /\ InRange' /\ ImagesHeld'
  BY <1>1, <1>2, Zenon DEF Published, StoredRoots, InRange, ImagesHeld, ImagesChain
<1>6. loadLatestRoot(repo)' = loadLatestRoot(repo) /\ loadLatestRoot("director")' = loadLatestRoot("director")
  BY <1>2, Zenon DEF loadLatestRoot
<1>7. pc' # "idle" => Fetched' = Fetched
  BY <1>1, <1>2, <1>3, Zenon DEF Fetched, FirstRole, RolesOf, Repo, Role
<1>8. Held'
  <2>1. CASE pc' = "idle"
    BY <2>1, Zenon DEF Held
  <2>2. CASE pc' # "idle"
    <3>1. pc \notin {"idle", "first"} /\ pc' # "first" /\ (pc' = "new" => repo = "director")
          /\ (pc' \in {"timestamp", "snapshot"} => repo = "images")
      BY <1>3, <2>2, Zenon DEF FirstRole, Repo
    <3>2. \A role \in Role :
            IF role \in Fetched
            THEN /\ meta_mem[repo][role] # 0
                 /\ Verifies(repo, role, meta_mem[repo][role], root_mem[repo], meta_mem[repo])
            ELSE meta_mem[repo][role] = 0
      BY <1>1, <3>1, Zenon DEF Held
    <3>3. DOMAIN root_store[repo] # {} /\ root_mem[repo] = loadLatestRoot(repo)
      BY <1>1, <3>1, Zenon DEF Held
    <3> QED  BY <1>2, <1>6, <1>7, <2>2, <3>1, <3>2, <3>3, Zenon DEF Held, Verifies
  <2> QED  BY <2>1, <2>2, Zenon
<1>9. DirectorFirst'
  <2>1. pc' # "idle" => pc # "idle"
    OBVIOUS
  <2>2. pc' = "check" => repo = "director" /\ Assigned("nothing")
    BY <1>1, <1>3, Zenon DEF Held, FirstRole, Repo
  <2> QED  BY <1>1, <1>2, <1>6, <2>1, <2>2, Zenon DEF DirectorFirst, Assigned, Verifies
<1> QED  BY <1>4, <1>5, <1>8, <1>9, Zenon DEF CInv

\* storeRoot under a version that none of the stored ones exceeds: the root
\* becomes the latest one.
LEMMA StoreRootControl ==
  ASSUME CInv, NEW version \in 1..Len(roots[repo]), NEW root \in 1..Len(roots[repo]),
         version # 1 => root = version,
         \A v \in DOMAIN root_store[repo] : v <= version,
         pc \in {"first", "chain"}, pc' \in {"latest", "clear"}, faults' \in Nat,
         storeRoot(repo, version, root), root_mem' = [root_mem EXCEPT ![repo] = root],
         UNCHANGED <<serverVars, meta_store, meta_mem, repo, remote, crashes>>
  PROVE  CInv'
<1>1. Typed /\ Published /\ InRange /\ StoredRoots /\ Held /\ DirectorFirst /\ ImagesHeld
  BY Zenon DEF CInv
<1>2. UNCHANGED <<roots, docs, meta_store, meta_mem, repo, remote, crashes>>
  BY Zenon DEF serverVars
<1>3. repo \in Repo /\ Len(roots[repo]) \in Nat
  BY <1>1 DEF Typed
<1>4. /\ DOMAIN root_store' = Repo
      /\ DOMAIN root_store'[repo] = DOMAIN root_store[repo] \cup {version}
      /\ root_store'[repo][version] = root
      /\ \A v \in DOMAIN root_store[repo] : v # version => root_store'[repo][v] = root_store[repo][v]
      /\ \A q \in Repo \ {repo} : root_store'[q] = root_store[q]
  BY <1>1, <1>3, Zenon DEF storeRoot, Typed
<1>5. Typed'
  BY <1>1, <1>2, <1>3, <1>4 DEF Typed
<1>6. root_mem'[repo] = root /\ \A q \in Repo \ {repo} : root_mem'[q] = root_mem[q]
  BY <1>1, <1>3, Zenon DEF Typed
<1>7. Published' /\ InRange'
  BY <1>1, <1>2, <1>3, <1>6 DEF Published, InRange
<1>8. StoredRoots'
  <2> SUFFICES ASSUME NEW q \in Repo
               PROVE  LET D == DOMAIN root_store'[q]
                      IN  /\ \A v \in D : /\ v \in 1..Len(roots[q]) /\ root_store'[q][v] \in 1..Len(roots[q])
                                          /\ v # 1 => root_store'[q][v] = v
                          /\ D = {} => meta_store[q] = NoMeta
                          /\ D # {} => \E m \in D : \A v \in D : v <= m
    BY <1>2, Zenon DEF StoredRoots
  <2>1. CASE q # repo
    <3>1. root_store'[q] = root_store[q]
      BY <1>4, <2>1, Zenon
    <3> QED  BY <1>1, <3>1, Zenon DEF StoredRoots
  <2>2. CASE q = repo
    <3>1. \A v \in DOMAIN root_store'[repo] : v <= version
      BY <1>4
    <3>2. \A v \in DOMAIN root_store'[repo] :
            /\ v \in 1..Len(roots[repo]) /\ root_store'[repo][v] \in 1..Len(roots[repo])
            /\ v # 1 => root_store'[repo][v] = v
      BY <1>1, <1>3, <1>4, Zenon DEF StoredRoots
    <3>3. version \in DOMAIN root_store'[repo]
      BY <1>4, Zenon
    <3> QED  BY <2>2, <3>1, <3>2, <3>3, Zenon
  <2> QED  BY <2>1, <2>2, Zenon
<1>9. loadLatestRoot(repo)' = root
  <2>1. DOMAIN root_store'[repo] \in SUBSET Int /\ version \in DOMAIN root_store'[repo]
        /\ \A v \in DOMAIN root_store'[repo] : v <= version
    BY <1>1, <1>3, <1>4 DEF StoredRoots
  <2>2. Max(DOMAIN root_store'[repo]) = version
    BY <2>1, MaxIs, Zenon
  <2>3. loadLatestRoot(repo)' = root_store'[repo][Max(DOMAIN root_store'[repo])]
    BY <1>2, Zenon DEF loadLatestRoot
  <2> QED  BY <1>4, <2>2, <2>3, Zenon
<1>10. \A role \in Role : meta_mem[repo][role] = 0
  BY <1>1, Zenon DEF Held, Fetched, Role
<1>11. Held'
  <2>1. Fetched' = {}
    BY Zenon DEF Fetched
  <2> QED  BY <1>2, <1>4, <1>6, <1>9, <1>10, <2>1, Zenon DEF Held
<1>12. DirectorFirst'
  <2>1. CASE repo = "images"
    <3>1. root_store'["director"] = root_store["director"] /\ root_mem'["director"] = root_mem["director"]
      BY <1>4, <1>6, <2>1, Zenon DEF Repo
    <3>2. loadLatestRoot("director")' = loadLatestRoot("director")
      BY <3>1, Zenon DEF loadLatestRoot
    <3> QED  BY <1>1, <1>2, <2>1, <3>1, <3>2, Zenon DEF DirectorFirst, Assigned, Verifies
  <2>2. CASE repo = "director"
    BY <1>2, <2>2, Zenon DEF DirectorFirst
  <2> QED  BY <1>3, <2>1, <2>2, Zenon DEF Repo
<1>13. ImagesHeld'
  <2>1. CASE repo = "images"
    BY <1>2, <1>10, <2>1, Zenon DEF ImagesHeld, ImagesChain, Role
  <2>2. CASE repo = "director"
    <3>1. root_mem'["images"] = root_mem["images"]
      BY <1>6, <2>2, Zenon DEF Repo
    <3> QED  BY <1>1, <1>2, <3>1, Zenon DEF ImagesHeld, ImagesChain
  <2> QED  BY <1>3, <2>1, <2>2, Zenon DEF Repo
<1> QED  BY <1>5, <1>7, <1>8, <1>11, <1>12, <1>13, Zenon DEF CInv

\* A step that ends the update with another root in memory, and no other
\* document of the repository.
LEMMA FailControl ==
  ASSUME CInv, NEW root \in 1..Len(roots[repo]), \A role \in Role : meta_mem[repo][role] = 0,
         pc' = "idle", faults' \in Nat, root_mem' = [root_mem EXCEPT ![repo] = root],
         UNCHANGED <<serverVars, storeVars, meta_mem, repo, remote, crashes>>
  PROVE  CInv'
<1>1. Typed /\ Published /\ InRange /\ StoredRoots /\ Held /\ DirectorFirst /\ ImagesHeld
  BY Zenon DEF CInv
<1>2. UNCHANGED <<roots, docs, root_store, meta_store, meta_mem, repo, remote, crashes>>
  BY Zenon DEF serverVars, storeVars
<1>3. repo \in Repo /\ Len(roots[repo]) \in Nat
  BY <1>1 DEF Typed
<1>4. Typed'
  BY <1>1, <1>2, <1>3 DEF Typed
<1>5. Published' /\ StoredRoots' /\ Held' /\ DirectorFirst'
  BY <1>1, <1>2, Zenon DEF Published, StoredRoots, Held, DirectorFirst
<1>6. root_mem'[repo] = root /\ \A q \in Repo \ {repo} : root_mem'[q] = root_mem[q]
  BY <1>1, <1>3, Zenon DEF Typed
<1>7. InRange'
  BY <1>1, <1>2, <1>3, <1>6 DEF InRange
<1>8. ImagesHeld'
  <2>1. CASE repo = "images"
    BY <1>2, <2>1, Zenon DEF ImagesHeld, ImagesChain, Role
  <2>2. CASE repo = "director"
    <3>1. root_mem'["images"] = root_mem["images"]
      BY <1>6, <2>2, Zenon DEF Repo
    <3> QED  BY <1>1, <1>2, <3>1, Zenon DEF ImagesHeld, ImagesChain
  <2> QED  BY <1>3, <2>1, <2>2, Zenon DEF Repo
<1> QED  BY <1>4, <1>5, <1>7, <1>8, Zenon DEF CInv

\* The version of the row that FetchRoot writes is above all stored ones.
LEMMA NextRow ==
  ASSUME Typed, StoredRoots, NEW r \in Repo, DOMAIN root_store[r] # {}
  PROVE  /\ \A v \in DOMAIN root_store[r] : v < loadLatestRoot(r) + 1
         /\ \E u \in DOMAIN root_store[r] : root_store[r][u] = loadLatestRoot(r)
<1>1. PICK m \in DOMAIN root_store[r] :
        (\A v \in DOMAIN root_store[r] : v <= m) /\ loadLatestRoot(r) = root_store[r][m]
  BY Latest, Zenon
<1>2. m \in Int /\ root_store[r][m] \in Int /\ root_store[r][m] >= 1 /\ (m # 1 => root_store[r][m] = m)
  BY DEF StoredRoots
<1>3. \A v \in DOMAIN root_store[r] : v \in Int
  BY DEF StoredRoots
<1>4. \A v \in DOMAIN root_store[r] : v < root_store[r][m] + 1
  BY <1>1, <1>2, <1>3
<1> QED  BY <1>1, <1>4, Zenon

LEMMA FirstRootControl == CInv /\ FetchFirstRoot => CInv'
<1> SUFFICES ASSUME CInv, FetchFirstRoot PROVE CInv'
  OBVIOUS
<1>1. PICK root \in 1..Len(roots[repo]) :
        /\ Answer(root, 1, "fresh")
        /\ root_mem' = [root_mem EXCEPT ![repo] = root]
        /\ storeRoot(repo, 1, root)
        /\ Goto("latest")
  BY Zenon DEF FetchFirstRoot
<1>2. faults' \in Nat
  BY <1>1 DEF Answer, Fault, CInv, Typed
<1>3. 1 \in 1..Len(roots[repo]) /\ DOMAIN root_store[repo] = {} /\ pc = "first"
  <2>1. Len(roots[repo]) \in Nat
    BY DEF CInv, Typed
  <2> QED  BY <2>1 DEF CInv, Held, FetchFirstRoot
<1> QED  BY <1>1, <1>2, <1>3, StoreRootControl, Zenon DEF Goto, FetchFirstRoot

LEMMA FetchRootControl == CInv /\ FetchRoot => CInv'
<1> SUFFICES ASSUME CInv, FetchRoot PROVE CInv'
  OBVIOUS
<1> DEFINE held == root_mem[repo]
<1>1. PICK root \in 1..Len(roots[repo]) :
        /\ Answer(root, held + 1, "fresh")
        /\ IF DoubleSigned(repo, held, root)
           THEN /\ root_mem' = [root_mem EXCEPT ![repo] = root]
                /\ IF RightVersion(held, root)
                   THEN storeRoot(repo, held + 1, root) /\ Goto("clear")
                   ELSE Fail /\ UNCHANGED root_store
           ELSE Fail /\ UNCHANGED <<root_mem, root_store>>
  BY Zenon DEF FetchRoot
<1>2. faults' \in Nat
  BY <1>1 DEF Answer, Fault, CInv, Typed
<1>3. repo \in Repo /\ held \in Nat /\ Len(roots[repo]) \in Nat
  BY DEF CInv, Typed
<1>4. pc = "chain" /\ UNCHANGED <<serverVars, meta_store, meta_mem, crashes>>
  BY Zenon DEF FetchRoot
<1>5. DOMAIN root_store[repo] # {} /\ held = loadLatestRoot(repo) /\ \A role \in Role : meta_mem[repo][role] = 0
  BY <1>4, Zenon DEF CInv, Held, Fetched, Role
<1>6. CASE DoubleSigned(repo, held, root) /\ RightVersion(held, root)
  <2>1. \A v \in DOMAIN root_store[repo] : v < held + 1
    BY <1>3, <1>5, NextRow, Zenon DEF CInv
  <2>2. root = held + 1
    BY <1>6, Zenon DEF RightVersion
  <2>3. \A v \in DOMAIN root_store[repo] : v <= root
    BY <1>3, <2>1, <2>2 DEF CInv, StoredRoots
  <2>4. storeRoot(repo, root, root) /\ Goto("clear") /\ root_mem' = [root_mem EXCEPT ![repo] = root]
    BY <1>1, <1>6, <2>2, Zenon
  <2> QED  BY <1>2, <1>4, <2>3, <2>4, StoreRootControl, Zenon DEF Goto
<1>7. CASE DoubleSigned(repo, held, root) /\ ~RightVersion(held, root)
  BY <1>1, <1>2, <1>4, <1>5, <1>7, FailControl, Zenon DEF Fail, storeVars
<1>8. CASE ~DoubleSigned(repo, held, root)
  <2>1. remote' \in Nat /\ pc' = "idle" /\ UNCHANGED <<storeVars, memVars, repo>>
    BY <1>1, <1>4, <1>8, Zenon DEF Fail, storeVars, memVars, CInv, Typed
  <2> QED  BY <1>2, <1>4, <2>1, QuietControl, Zenon
<1> QED  BY <1>6, <1>7, <1>8, Zenon

LEMMA ClearControl == CInv /\ clearNonRootMeta => CInv'
<1> SUFFICES ASSUME CInv, clearNonRootMeta PROVE CInv'
  OBVIOUS
<1>1. Typed /\ Published /\ InRange /\ StoredRoots /\ Held /\ DirectorFirst /\ ImagesHeld
  BY Zenon DEF CInv
<1>2. /\ UNCHANGED <<roots, docs, root_store, root_mem, meta_mem, repo, remote, faults, crashes>>
      /\ pc = "clear" /\ pc' = "chain" /\ meta_store' = [meta_store EXCEPT ![repo] = NoMeta]
  BY Zenon DEF clearNonRootMeta, serverVars, memVars, Goto
<1>3. repo \in Repo /\ NoMeta \in [Role -> Nat] /\ \A role \in Role : NoMeta[role] = 0
  BY <1>1, Zenon DEF Typed, NoMeta
<1>4. Typed'
  BY <1>1, <1>2, <1>3, Zenon DEF Typed
<1>5. meta_store'[repo] = NoMeta /\ \A q \in Repo \ {repo} : meta_store'[q] = meta_store[q]
  BY <1>1, <1>2, <1>3, Zenon DEF Typed
<1>6. InRange'
  <2>1. \A role \in Role : 0 \in 0..Len(docs[repo][role])
    BY <1>1, <1>3 DEF Typed
  <2> QED  BY <1>1, <1>2, <1>3, <1>5, <2>1 DEF InRange
<1>7. Published' /\ StoredRoots'
  BY <1>1, <1>2, <1>5, Zenon DEF Published, StoredRoots
<1>8. \A r \in Repo : loadLatestRoot(r)' = loadLatestRoot(r)
  BY <1>2, Zenon DEF loadLatestRoot
<1>9. Held'
  <2>1. Fetched' = {} /\ Fetched = {}
    BY <1>2, Zenon DEF Fetched, Role
  <2> QED  BY <1>1, <1>2, <1>3, <1>8, <2>1, Zenon DEF Held
<1>10. DirectorFirst' /\ ImagesHeld'
  BY <1>1, <1>2, <1>8, Zenon DEF DirectorFirst, Assigned, Verifies, ImagesHeld, ImagesChain, Repo
<1> QED  BY <1>4, <1>6, <1>7, <1>9, <1>10, Zenon DEF CInv

LEMMA CrashControl == CInv /\ Crash => CInv'
<1> SUFFICES ASSUME CInv, Crash PROVE CInv'
  OBVIOUS
<1>1. Typed /\ Published /\ InRange /\ StoredRoots
  BY Zenon DEF CInv
<1>2. /\ UNCHANGED <<roots, docs, root_store, meta_store, repo, remote, faults>>
      /\ pc' = "idle" /\ crashes' = crashes + 1
      /\ root_mem' = [r \in Repo |-> 0] /\ meta_mem' = [r \in Repo |-> NoMeta]
  BY Zenon DEF Crash, serverVars, storeVars, Fail
<1>3. NoMeta \in [Role -> Nat] /\ \A role \in Role : NoMeta[role] = 0
  BY Zenon DEF NoMeta
<1>4. Typed'
  BY <1>1, <1>2, <1>3 DEF Typed
<1>5. InRange'
  <2>1. \A r \in Repo : 0 \in 0..Len(roots[r]) /\ \A role \in Role : 0 \in 0..Len(docs[r][role])
    BY <1>1 DEF Typed
  <2> QED  BY <1>1, <1>2, <1>3, <2>1, Zenon DEF InRange
<1>6. Published' /\ StoredRoots' /\ Held' /\ DirectorFirst'
  BY <1>1, <1>2, Zenon DEF Published, StoredRoots, Held, DirectorFirst
<1>7. ImagesHeld'
  BY <1>2, <1>3, Zenon DEF ImagesHeld, ImagesChain, Repo, Role
<1> QED  BY <1>4, <1>5, <1>6, <1>7, Zenon DEF CInv

\* A fetched document that verifies is held, and maybe stored.
LEMMA FetchRoleControl == CInv /\ FetchRole => CInv'
<1> SUFFICES ASSUME CInv, FetchRole PROVE CInv'
  OBVIOUS
<1>1. Typed /\ Published /\ InRange /\ StoredRoots /\ Held /\ DirectorFirst /\ ImagesHeld
  BY Zenon DEF CInv
<1>2. UNCHANGED <<roots, docs, root_store, root_mem, crashes>> /\ pc \in Role
  BY Zenon DEF FetchRole, serverVars
<1>3. repo \in Repo /\ Len(docs[repo][pc]) \in Nat
  BY <1>1, <1>2 DEF Typed
<1> DEFINE next == IF pc # "targets" THEN NextRole(pc) ELSE IF repo = "director" THEN "new" ELSE "check"
<1>4. PICK d \in 1..Len(docs[repo][pc]) :
        /\ faults' \in Nat
        /\ repo' = repo /\ remote' = remote
        /\ \/ pc' = "idle" /\ UNCHANGED <<meta_mem, meta_store>>
           \/ /\ Verifies(repo, pc, d, root_mem[repo], meta_mem[repo])
              /\ meta_mem' = [meta_mem EXCEPT ![repo][pc] = d]
              /\ meta_store' = [meta_store EXCEPT ![repo][pc] = d] \/ meta_store' = meta_store
              /\ pc' = next \/ pc' = "idle"
  <2>1. PICK d \in 1..Len(docs[repo][pc]), age \in {"fresh", "expired"} :
          /\ Answer(d, Len(docs[repo][pc]), age)
          /\ IF Verifies(repo, pc, d, root_mem[repo], meta_mem[repo])
             THEN /\ meta_mem' = [meta_mem EXCEPT ![repo][pc] = d]
                  /\ IF Replaces(Version(repo, pc, loadNonRoot(repo, pc)), Version(repo, pc, d))
                     THEN storeNonRoot(repo, pc, d) ELSE UNCHANGED meta_store
                  /\ IF Accepts(Version(repo, pc, loadNonRoot(repo, pc)), Version(repo, pc, d)) /\ age = "fresh"
                     THEN Goto(next) ELSE Fail
             ELSE Fail /\ UNCHANGED <<meta_mem, meta_store>>
    BY Zenon DEF FetchRole
  <2>2. faults' \in Nat
    BY <1>1, <2>1 DEF Answer, Fault, Typed
  <2> HIDE DEF next
  <2> QED  BY <2>1, <2>2, Zenon DEF storeNonRoot, Goto, Fail
<1>5. CASE pc' = "idle" /\ UNCHANGED <<meta_mem, meta_store>>
  BY <1>1, <1>2, <1>4, <1>5, QuietControl, Zenon DEF serverVars, storeVars, memVars, Typed
<1>6. ASSUME Verifies(repo, pc, d, root_mem[repo], meta_mem[repo]),
             meta_mem' = [meta_mem EXCEPT ![repo][pc] = d],
             meta_store' = [meta_store EXCEPT ![repo][pc] = d] \/ meta_store' = meta_store,
             pc' = next \/ pc' = "idle"
      PROVE  CInv'
  <2>1. pc' \in {"idle", "new", "check"} \cup Role
    BY <1>6, Zenon DEF NextRole, Role
  <2>2. Typed'
    <3>1. d \in Nat
      BY <1>3
    <3>2. \A m \in [Repo -> [Role -> Nat]] : [m EXCEPT ![repo][pc] = d] \in [Repo -> [Role -> Nat]]
      BY <1>2, <1>3, <3>1, Zenon
    <3>3. meta_mem \in [Repo -> [Role -> Nat]] /\ meta_store \in [Repo -> [Role -> Nat]]
      BY <1>1, Zenon DEF Typed
    <3>4. meta_mem' \in [Repo -> [Role -> Nat]] /\ meta_store' \in [Repo -> [Role -> Nat]]
      BY <1>6, <3>2, <3>3, Zenon
    <3> QED  BY <1>1, <1>2, <1>4, <2>1, <3>4, Zenon DEF Typed
  <2>3. /\ meta_mem'[repo][pc] = d /\ \A q \in Role \ {pc} : meta_mem'[repo][q] = meta_mem[repo][q]
        /\ \A r \in Repo \ {repo} : meta_mem'[r] = meta_mem[r] /\ meta_store'[r] = meta_store[r]
        /\ meta_store'[repo][pc] \in {d, meta_store[repo][pc]}
        /\ \A q \in Role \ {pc} : meta_store'[repo][q] = meta_store[repo][q]
    BY <1>1, <1>2, <1>3, <1>6 DEF Typed
  <2>4. Published'
    BY <1>1, <1>2, Zenon DEF Published
  <2>5. InRange'
    <3>1. d \in 0..Len(docs[repo][pc])
      BY <1>3
    <3> QED  BY <1>1, <1>2, <1>3, <2>3, <3>1, Zenon DEF InRange
  <2>6. DOMAIN root_store[repo] # {} /\ root_mem[repo] = loadLatestRoot(repo)
    BY <1>1, <1>2, Zenon DEF Held, Role
  <2>7. StoredRoots'
    BY <1>1, <1>2, <2>3, <2>6, Zenon DEF StoredRoots
  <2>8. \A r \in Repo : loadLatestRoot(r)' = loadLatestRoot(r)
    BY <1>2, Zenon DEF loadLatestRoot
  <2>9. /\ \A role \in Role : IF role \in Fetched
                              THEN /\ meta_mem[repo][role] # 0
                                   /\ Verifies(repo, role, meta_mem[repo][role], root_mem[repo], meta_mem[repo])
                              ELSE meta_mem[repo][role] = 0
        /\ pc \in {"timestamp", "snapshot"} => repo = "images"
    BY <1>1, <1>2, Zenon DEF Held, Role
  <2>10. pc \notin Fetched /\ d # 0
    BY <1>2, <1>3 DEF Fetched, Role, RolesOf
  <2>11. \A role \in Fetched \cup {pc} :
           meta_mem'[repo][role] # 0 /\ Verifies(repo, role, meta_mem'[repo][role], root_mem[repo], meta_mem'[repo])
    <3>1. Fetched \subseteq Role
      BY <1>3, Zenon DEF Fetched, RolesOf, Role
    <3>2. \A role \in Fetched \cup {pc} : role = "timestamp" \/ PinnedBy(role) \in Role \ {pc} \/ repo = "director"
      BY <1>2, <1>3, <2>10, Zenon DEF Fetched, RolesOf, Role, PinnedBy, Repo
    <3>3. repo = "director" \/ repo = "images"
      BY <1>3, Zenon DEF Repo
    <3>4. ASSUME NEW role \in Fetched
          PROVE  meta_mem'[repo][role] # 0
                 /\ Verifies(repo, role, meta_mem'[repo][role], root_mem[repo], meta_mem'[repo])
      <4>1. role \in Role \ {pc} /\ meta_mem'[repo][role] = meta_mem[repo][role]
        BY <2>3, <2>10, <3>1, Zenon
      <4>2. role = "timestamp" \/ meta_mem'[repo][PinnedBy(role)] = meta_mem[repo][PinnedBy(role)] \/ repo = "director"
        BY <2>3, <3>2, Zenon
      <4> QED  BY <2>9, <4>1, <4>2, Zenon DEF Verifies
    <3>5. Verifies(repo, pc, d, root_mem[repo], meta_mem'[repo])
      <4>1. pc = "timestamp" \/ meta_mem'[repo][PinnedBy(pc)] = meta_mem[repo][PinnedBy(pc)] \/ repo = "director"
        BY <2>3, <3>2, Zenon
      <4> QED  BY <1>6, <4>1, Zenon DEF Verifies
    <3> QED  BY <2>3, <2>10, <3>4, <3>5, Zenon
  <2>12. Held'
    <3>1. CASE pc' = "idle"
      BY <3>1, Zenon DEF Held
    <3>2. CASE pc' = next
      <4>1. Fetched' = Fetched \cup {pc}
        BY <1>2, <1>3, <1>4, <2>9, <3>2, Zenon DEF Fetched, NextRole, Role, RolesOf, Repo
      <4>2. \A role \in Role \ (Fetched \cup {pc}) : meta_mem'[repo][role] = 0
        BY <2>3, <2>9, Zenon
      <4>3. /\ pc' # "first" /\ (pc' \in {"timestamp", "snapshot"} => repo = "images")
            /\ (pc' = "new" => repo = "director")
        BY <1>2, <2>9, <3>2, Zenon DEF NextRole, Role
      <4> QED  BY <1>2, <1>3, <1>4, <2>6, <2>8, <2>11, <4>1, <4>2, <4>3, Zenon DEF Held, Verifies
    <3> QED  BY <1>6, <3>1, <3>2, Zenon
  <2>13. DirectorFirst'
    <3>1. CASE repo = "images"
      <4>1. meta_mem'["director"] = meta_mem["director"]
        BY <2>3, <3>1, Zenon DEF Repo
      <4> QED  BY <1>1, <1>2, <1>4, <2>8, <3>1, <4>1, Zenon DEF DirectorFirst, Assigned, Verifies, Repo, Role
    <3>2. CASE repo = "director"
      BY <1>2, <1>4, <1>6, <3>2, Zenon DEF DirectorFirst, NextRole
    <3> QED  BY <1>3, <3>1, <3>2, Zenon DEF Repo
  <2>14. ImagesHeld'
    <3>1. CASE repo = "images"
      <4> DEFINE m == meta_mem'["images"]  root == root_mem["images"]
      <4>1. \A role \in Role : m[role] # 0 => role \in Fetched \cup {pc}
        BY <2>3, <2>9, <3>1, Zenon
      <4>2. \A role \in Role : m[role] # 0 => Verifies("images", role, m[role], root, m)
        BY <2>11, <3>1, <4>1, Zenon
      <4>3. root # 0
        <5>1. loadLatestRoot("images") \in 1..Len(roots["images"])
          BY <1>1, <1>3, <2>6, <3>1, Latest, Zenon
        <5> QED  BY <2>6, <3>1, <5>1
      <4>4. \A role \in Role : m[role] # 0 => docs["images"][role][m[role]].gen = roots["images"][root]
        BY <4>2, Zenon DEF Verifies
      <4>5. m["targets"] # 0 => m["snapshot"] # 0 /\ docs["images"]["snapshot"][m["snapshot"]].pin = m["targets"]
        BY <4>2, Zenon DEF Verifies, PinnedBy, Role
      <4>6. m["snapshot"] # 0 => m["timestamp"] # 0 /\ docs["images"]["timestamp"][m["timestamp"]].pin = m["snapshot"]
        BY <4>2, Zenon DEF Verifies, PinnedBy, Role
      <4> QED  BY <1>2, <4>3, <4>4, <4>5, <4>6, Zenon DEF ImagesHeld, ImagesChain
    <3>2. CASE repo = "director"
      <4>1. meta_mem'["images"] = meta_mem["images"]
        BY <2>3, <3>2, Zenon DEF Repo
      <4> QED  BY <1>1, <1>2, <4>1, Zenon DEF ImagesHeld, ImagesChain
    <3> QED  BY <1>3, <3>1, <3>2, Zenon DEF Repo
  <2> QED  BY <2>2, <2>4, <2>5, <2>7, <2>12, <2>13, <2>14, Zenon DEF CInv
<1> HIDE DEF next
<1> QED  BY <1>4, <1>5, <1>6, Zenon

\* The roles that uptaneOfflineIteration verifies before it has one.
Upto(role) ==
  CASE role = "timestamp" -> {"timestamp"}
    [] role = "snapshot"  -> {"timestamp", "snapshot"}
    [] role = "targets"   -> Role

StoredVerifies(r, role) ==
  /\ meta_store[r][role] # 0
  /\ Verifies(r, role, meta_store[r][role], loadLatestRoot(r), meta_store[r])

LEMMA StoredChainIs ==
  ASSUME NEW r \in Repo, NEW role \in Role
  PROVE  role \in StoredChain(r) <=>
           /\ role \in RolesOf(r) /\ DOMAIN root_store[r] # {}
           /\ \A q \in Upto(role) \cap RolesOf(r) : StoredVerifies(r, q)
<1>1. RolesOf(r) \subseteq Role
  BY Zenon DEF RolesOf, Role
<1> QED  BY <1>1, Zenon DEF StoredChain, Upto, StoredVerifies, loadNonRoot

\* What is verified again from the database hangs together, however far the
\* pass comes.
LEMMA ReloadControl ==
  ASSUME CInv, NEW rs \in SUBSET Repo, NEW upto, Reload(rs, upto),
         "targets" \in upto["images"] => "snapshot" \in upto["images"],
         "snapshot" \in upto["images"] => "timestamp" \in upto["images"],
         pc' = "idle", faults' \in Nat, UNCHANGED <<serverVars, storeVars, repo, remote, crashes>>
  PROVE  CInv'
<1>1. Typed /\ Published /\ InRange /\ StoredRoots /\ ImagesHeld
  BY Zenon DEF CInv
<1>2. UNCHANGED <<roots, docs, root_store, meta_store, repo, remote, crashes>>
  BY Zenon DEF serverVars, storeVars
<1>3. /\ root_mem' = [r \in Repo |-> root_mem'[r]]
      /\ meta_mem' = [r \in Repo |-> meta_mem'[r]]
      /\ \A r \in Repo \ rs : root_mem'[r] = root_mem[r] /\ meta_mem'[r] = meta_mem[r]
      /\ \A r \in rs :
           /\ root_mem'[r] = IF DOMAIN root_store[r] = {} THEN 0 ELSE loadLatestRoot(r)
           /\ meta_mem'[r] = [role \in Role |-> IF role \in StoredChain(r) \cap upto[r]
                                                THEN meta_store[r][role] ELSE 0]
  BY Zenon DEF Reload, loadNonRoot
<1>4. \A r \in Repo : Len(roots[r]) \in Nat /\ \A role \in Role : Len(docs[r][role]) \in Nat
  BY <1>1 DEF Typed
<1>5. ASSUME NEW r \in Repo
      PROVE  /\ root_mem'[r] \in Nat /\ root_mem'[r] \in 0..Len(roots[r])
             /\ meta_mem'[r] \in [Role -> Nat]
             /\ \A role \in Role : meta_mem'[r][role] \in 0..Len(docs[r][role])
  <2>1. CASE r \notin rs
    BY <1>1, <1>3, <2>1, Zenon DEF Typed, InRange
  <2>2. CASE r \in rs
    <3>1. DOMAIN root_store[r] # {} => loadLatestRoot(r) \in 1..Len(roots[r])
      BY <1>1, Latest, Zenon
    <3>2. /\ root_mem'[r] = IF DOMAIN root_store[r] = {} THEN 0 ELSE loadLatestRoot(r)
          /\ meta_mem'[r] = [role \in Role |-> IF role \in StoredChain(r) \cap upto[r]
                                                THEN meta_store[r][role] ELSE 0]
      BY <1>3, <2>2, Zenon
    <3>3. root_mem'[r] \in 0..Len(roots[r])
      <4>1. Len(roots[r]) \in Nat
        BY <1>4, Zenon
      <4> QED  BY <3>1, <3>2, <4>1
    <3>4. \A role \in Role : meta_store[r][role] \in 0..Len(docs[r][role]) /\ 0 \in 0..Len(docs[r][role])
      BY <1>1, <1>4 DEF InRange
    <3>5. meta_store[r] \in [Role -> Nat]
      BY <1>1, Zenon DEF Typed
    <3>6. meta_mem'[r] \in [Role -> Nat]
      BY <3>2, <3>5
    <3>7. \A role \in Role : meta_mem'[r][role] \in 0..Len(docs[r][role])
      <4>1. \A role \in Role : meta_mem'[r][role] \in {0, meta_store[r][role]}
        BY <3>2, Zenon
      <4> QED  BY <3>4, <4>1, Zenon
    <3> QED  BY <1>4, <3>3, <3>6, <3>7
  <2> QED  BY <2>1, <2>2, Zenon
<1>6. Typed'
  <2>1. root_mem' \in [Repo -> Nat] /\ meta_mem' \in [Repo -> [Role -> Nat]]
    BY <1>3, <1>5, Zenon
  <2> QED  BY <1>1, <1>2, <2>1, Zenon DEF Typed
<1>7. InRange'
  BY <1>1, <1>2, <1>5, Zenon DEF InRange
<1>8. Published' /\ StoredRoots' /\ Held' /\ DirectorFirst'
  BY <1>1, <1>2, Zenon DEF Published, StoredRoots, Held, DirectorFirst
<1>9. ImagesHeld'
  <2>1. CASE "images" \notin rs
    <3>1. root_mem'["images"] = root_mem["images"] /\ meta_mem'["images"] = meta_mem["images"]
      BY <1>3, <2>1, Zenon DEF Repo
    <3> QED  BY <1>1, <1>2, <3>1, Zenon DEF ImagesHeld, ImagesChain
  <2>2. CASE "images" \in rs
    <3> DEFINE m == meta_mem'["images"]  root == root_mem'["images"]
    <3>1. "images" \in Repo /\ RolesOf("images") = Role
          /\ "timestamp" \in Role /\ "snapshot" \in Role /\ "targets" \in Role
      BY Zenon DEF Repo, Role, RolesOf
    <3>2. /\ root = IF DOMAIN root_store["images"] = {} THEN 0 ELSE loadLatestRoot("images")
          /\ \A role \in Role : m[role] = IF role \in StoredChain("images") \cap upto["images"]
                                          THEN meta_store["images"][role] ELSE 0
      BY <1>3, <2>2, Zenon
    <3>3. \A role \in Role : role \in StoredChain("images") <=>
            /\ DOMAIN root_store["images"] # {}
            /\ \A q \in Upto(role) \cap Role : StoredVerifies("images", q)
      BY <3>1, StoredChainIs, Zenon
    <3>4. /\ "targets" \in StoredChain("images") => "snapshot" \in StoredChain("images")
          /\ "snapshot" \in StoredChain("images") => "timestamp" \in StoredChain("images")
      BY <3>3, Zenon DEF Upto, Role
    <3>5. \A role \in Role : role \in StoredChain("images") =>
            StoredVerifies("images", role) /\ DOMAIN root_store["images"] # {}
      BY <3>3, Zenon DEF Upto, Role
    <3> HIDE DEF m, root
    <3>6. \A role \in Role : m[role] # 0 =>
            /\ role \in StoredChain("images") \cap upto["images"] /\ m[role] = meta_store["images"][role]
            /\ root = loadLatestRoot("images") /\ DOMAIN root_store["images"] # {}
            /\ Verifies("images", role, m[role], root, meta_store["images"])
      BY <3>2, <3>5, Zenon DEF StoredVerifies
    <3>7. m["targets"] # 0 => m["snapshot"] # 0 /\ m["snapshot"] = meta_store["images"]["snapshot"]
      BY <3>1, <3>2, <3>4, <3>5, <3>6, Zenon DEF StoredVerifies
    <3>8. m["snapshot"] # 0 => m["timestamp"] # 0 /\ m["timestamp"] = meta_store["images"]["timestamp"]
      BY <3>1, <3>2, <3>4, <3>5, <3>6, Zenon DEF StoredVerifies
    <3>9. m["targets"] # 0 => docs["images"]["snapshot"][m["snapshot"]].pin = m["targets"]
      BY <3>1, <3>6, <3>7, Zenon DEF Verifies, PinnedBy
    <3>10. m["snapshot"] # 0 => docs["images"]["timestamp"][m["timestamp"]].pin = m["snapshot"]
      BY <3>1, <3>6, <3>8, Zenon DEF Verifies, PinnedBy
    <3>11. \A role \in Role : m[role] # 0 => docs["images"][role][m[role]].gen = roots["images"][root]
      BY <3>6, Zenon DEF Verifies
    <3>12. \A role \in Role : m[role] # 0 => root # 0
      <4>1. DOMAIN root_store["images"] # {} => loadLatestRoot("images") \in 1..Len(roots["images"])
        BY <1>1, <3>1, Latest, Zenon
      <4> QED  BY <3>6, <4>1
    <3> QED  BY <1>2, <3>7, <3>8, <3>9, <3>10, <3>11, <3>12, Zenon DEF ImagesHeld, ImagesChain, m, root
  <2> QED  BY <2>1, <2>2, Zenon
<1> QED  BY <1>6, <1>7, <1>8, <1>9, Zenon DEF CInv

LEMMA OfflineControl == CInv /\ uptaneOfflineIteration => CInv'
<1> SUFFICES ASSUME CInv, uptaneOfflineIteration PROVE CInv'
  OBVIOUS
<1>1. /\ UNCHANGED <<serverVars, storeVars, repo, remote, crashes>> /\ pc' = "idle" /\ faults' \in Nat
  BY DEF uptaneOfflineIteration, Fail, Fault, CInv, Typed
<1>2. StoredRepos \in SUBSET Repo /\ {"director"} \in SUBSET Repo
  BY Zenon DEF StoredRepos, Repo
<1>3. PICK rs \in SUBSET Repo, u \in {Role, {}, {"timestamp"}, {"timestamp", "snapshot"}} :
        Reload(rs, [director |-> Role, images |-> u])
  <2>1. [r \in Repo |-> Role] = [director |-> Role, images |-> Role]
    BY DEF Repo
  <2> QED  BY <1>2, <2>1, Zenon DEF uptaneOfflineIteration
<1> DEFINE upto == [director |-> Role, images |-> u]
<1>4. upto["images"] = u
  OBVIOUS
<1>5. ("targets" \in u => "snapshot" \in u) /\ ("snapshot" \in u => "timestamp" \in u)
  BY Zenon DEF Role
<1> HIDE DEF upto
<1>6. Reload(rs, upto)
  BY <1>3, Zenon DEF upto
<1> QED  BY <1>1, <1>4, <1>5, <1>6, ReloadControl, Zenon

\* One step per action.
LEMMA StepControl == CInv /\ [Next]_vars => CInv'
<1> SUFFICES ASSUME CInv, [Next]_vars PROVE CInv'
  OBVIOUS
<1>1. CASE Server
  BY <1>1, ServerControl, Zenon
<1>2. CASE Start
  <2>1. "director" \in Repo
    BY Zenon DEF Repo
  <2> QED  BY <1>2, <2>1, BeginControl, Zenon DEF Start
<1>3. CASE FetchFirstRoot
  BY <1>3, FirstRootControl, Zenon
<1>4. CASE FetchLatestRoot
  <2>1. remote' \in Nat /\ faults' \in Nat
    <3>1. \A version \in 1..Len(roots[repo]) : version \in Nat
      BY DEF CInv, Typed
    <3> QED  BY <1>4, <3>1 DEF FetchLatestRoot, Answer, Fault, CInv, Typed
  <2> QED  BY <1>4, <2>1, QuietControl, Zenon DEF FetchLatestRoot
<1>5. CASE FetchRoot
  BY <1>5, FetchRootControl, Zenon
<1>6. CASE clearNonRootMeta
  BY <1>6, ClearControl, Zenon
<1>7. CASE RootsDone
  <2>1. remote' \in Nat /\ faults' \in Nat /\ repo' = repo /\ pc = "chain"
        /\ (pc' = "idle" \/ pc' = FirstRole(repo))
    BY <1>7 DEF RootsDone, Goto, Fault, Fail, CInv, Typed
  <2> QED  BY <1>7, <2>1, QuietControl, Zenon DEF RootsDone
<1>8. CASE FetchRole
  BY <1>8, FetchRoleControl, Zenon
<1>9. CASE getNewTargets
  <2> DEFINE assigns == docs["director"]["targets"][meta_mem["director"]["targets"]].assigns
  <2>1. pc = "new" /\ UNCHANGED <<serverVars, storeVars, faults, crashes>>
    BY <1>9, Zenon DEF getNewTargets
  <2>2. assigns \in {"nothing", "new", "bad"}
    <3>1. repo = "director" /\ "targets" \in Fetched /\ "targets" \in Role /\ "director" \in Repo
      BY <2>1, Zenon DEF CInv, Held, Fetched, RolesOf, Role, Repo
    <3>2. meta_mem["director"]["targets"] # 0
      BY <2>1, <3>1, Zenon DEF CInv, Held
    <3>3. docs["director"]["targets"] \in Seq(Doc)
          /\ meta_mem["director"]["targets"] \in 0..Len(docs["director"]["targets"])
      BY <3>1 DEF CInv, Typed, InRange
    <3>4. docs["director"]["targets"][meta_mem["director"]["targets"]] \in Doc
      BY <3>2, <3>3
    <3> QED  BY <3>4, Zenon DEF Doc
  <2>3. CASE assigns = "new"
    <3>1. Begin("images") /\ UNCHANGED remote
      BY <1>9, <2>3, Zenon DEF getNewTargets
    <3>2. "images" \in Repo /\ Assigned("new")
      BY <2>3, Zenon DEF Repo, Assigned
    <3> QED  BY <2>1, <3>1, <3>2, BeginControl, Zenon
  <2>4. CASE assigns = "nothing"
    <3>1. Goto("check") /\ UNCHANGED memVars
      BY <1>9, <2>4, Zenon DEF getNewTargets
    <3>2. remote' \in Nat /\ faults' \in Nat /\ Assigned("nothing")
      BY <2>1, <2>4, <3>1, Zenon DEF Goto, CInv, Typed, Assigned
    <3> QED  BY <2>1, <3>1, <3>2, QuietControl, Zenon DEF Goto
  <2>5. CASE assigns = "bad"
    <3>1. Fail /\ UNCHANGED memVars
      BY <1>9, <2>5, Zenon DEF getNewTargets
    <3>2. remote' \in Nat /\ faults' \in Nat
      BY <2>1, <3>1, Zenon DEF Fail, CInv, Typed
    <3> QED  BY <2>1, <3>1, <3>2, QuietControl, Zenon DEF Fail
  <2> QED  BY <2>2, <2>3, <2>4, <2>5, Zenon
<1>10. CASE FetchFails
  <2>1. remote' \in Nat /\ faults' \in Nat
    BY <1>10 DEF FetchFails, Fault, Fail, CInv, Typed
  <2> QED  BY <1>10, <2>1, QuietControl, Zenon DEF FetchFails, Fail
<1>11. CASE checkUpdates \/ finalizeAfterReboot
  BY <1>11, OfflineControl, Zenon DEF checkUpdates, finalizeAfterReboot
<1>12. CASE Crash
  BY <1>12, CrashControl, Zenon
<1>13. CASE UNCHANGED vars
  <2>1. UNCHANGED <<roots, docs, root_store, meta_store, root_mem, meta_mem, pc, repo, remote, faults, crashes>>
    BY <1>13, Zenon DEF vars, serverVars, storeVars, memVars
  <2>2. Typed' /\ Published' /\ InRange' /\ StoredRoots'
    BY <2>1, Zenon DEF CInv, Typed, Published, InRange, StoredRoots
  <2>3. Held' /\ DirectorFirst'
    BY <2>1, Zenon DEF CInv, Held, Fetched, DirectorFirst, Assigned, Verifies, loadLatestRoot
  <2>4. ImagesHeld'
    BY <2>1, Zenon DEF CInv, ImagesHeld, ImagesChain, Verifies
  <2> QED  BY <2>2, <2>3, <2>4, Zenon DEF CInv
<1> QED
  BY <1>1, <1>2, <1>3, <1>4, <1>5, <1>6, <1>7, <1>8, <1>9, <1>10, <1>11, <1>12, <1>13, Zenon DEF Next, Update

LEMMA ControlInvariant == Spec => []CInv
<1> QED  BY InitControl, StepControl, PTL DEF Spec

-----------------------------------------------------------------------------
(* The theorems. *)

\* Every variable keeps its type and, as long as SotaUptaneClient is at the
\* roles of a repository, that repository object holds a root.
THEOREM TypeCorrect == Spec => []TypeOK
<1>1. CInv => TypeOK
  <2> SUFFICES ASSUME CInv PROVE TypeOK
    OBVIOUS
  <2>1. Typed /\ StoredRoots /\ Held
    BY Zenon DEF CInv
  <2>2. \A r \in Repo : DOMAIN root_store[r] \subseteq Nat
    <3>1. \A r \in Repo : Len(roots[r]) \in Nat
      BY <2>1 DEF Typed
    <3> QED  BY <2>1, <3>1 DEF StoredRoots
  <2>3. pc \in {"chain", "clear"} \cup Role => root_mem[repo] \in 1..Len(roots[repo])
    <3>1. repo \in Repo
      BY <2>1, Zenon DEF Typed
    <3>2. pc \in {"chain", "clear"} \cup Role => pc \notin {"idle", "first"}
      BY Zenon DEF Role
    <3> QED  BY <2>1, <3>1, <3>2, Latest, Zenon DEF Held
  <2> QED  BY <2>1, <2>2, <2>3, Zenon DEF TypeOK, Typed
<1> QED  BY <1>1, ControlInvariant, PTL

\* verifyTargets, verifySnapshot and verifyTimestamp: the Images documents in
\* memory pin one another and are signed with the keys of one root, through
\* updates that fail half way, key rotations, reloads and crashes.
THEOREM ImagesHangTogether == Spec => []ImagesChain
<1>1. CInv => ImagesChain
  BY Zenon DEF CInv, ImagesHeld
<1> QED  BY <1>1, ControlInvariant, PTL

\* storeNonRoot runs only for a newer version, and clearNonRootMeta is the
\* only other write.
THEOREM NeverRolledBack == Spec => NoRollback
<1> DEFINE Roll == \A r \in Repo, role \in Role :
             /\ meta_store[r][role] # 0
             /\ meta_store'[r][role] # meta_store[r][role]
             => \/ meta_store'[r] = NoMeta
                \/ Version(r, role, meta_store[r][role]) < Version(r, role, meta_store'[r][role])
<1>1. CInv /\ [Next]_vars => [Roll]_vars
  <2> SUFFICES ASSUME CInv, Next PROVE Roll
    OBVIOUS
  <2>1. meta_store \in [Repo -> [Role -> Nat]] /\ repo \in Repo
    BY Zenon DEF CInv, Typed
  <2>2. CASE meta_store' = meta_store
    BY <2>2, Zenon
  <2>3. CASE clearNonRootMeta
    <3>1. meta_store' = [meta_store EXCEPT ![repo] = NoMeta]
      BY <2>3, Zenon DEF clearNonRootMeta
    <3> QED  BY <2>1, <3>1, Zenon
  <2>4. CASE FetchRole
    <3>1. pc \in Role
      BY <2>4, Zenon DEF FetchRole
    <3>2. PICK d : \/ meta_store' = meta_store
                   \/ /\ meta_store' = [meta_store EXCEPT ![repo][pc] = d]
                      /\ Version(repo, pc, meta_store[repo][pc]) < Version(repo, pc, d)
      BY <2>4, Zenon DEF FetchRole, storeNonRoot, loadNonRoot, Replaces
    <3>3. CASE /\ meta_store' = [meta_store EXCEPT ![repo][pc] = d]
               /\ Version(repo, pc, meta_store[repo][pc]) < Version(repo, pc, d)
      <4>1. /\ meta_store'[repo][pc] = d
            /\ \A r \in Repo, role \in Role : r # repo \/ role # pc => meta_store'[r][role] = meta_store[r][role]
        BY <2>1, <3>1, <3>3, Zenon
      <4> QED  BY <3>3, <4>1, Zenon
    <3> QED  BY <2>2, <3>2, <3>3, Zenon
  <2>5. Next => meta_store' = meta_store \/ clearNonRootMeta \/ FetchRole
    BY Zenon DEF Next, Server, addImage, signTargets, Refresh, RotateRoot, Start, Update, FetchFirstRoot,
           FetchLatestRoot, FetchRoot, RootsDone, getNewTargets, FetchFails, checkUpdates,
           finalizeAfterReboot, uptaneOfflineIteration, Crash, storeVars
  <2> QED  BY <2>2, <2>3, <2>4, <2>5, Zenon
<1> QED  BY <1>1, ControlInvariant, PTL DEF Spec, NoRollback

\* RootChain of one repository, when its table is left alone.
LEMMA ChainStays ==
  ASSUME CInv, RootChain, Kept, NEW r \in Repo, root_store'[r] = root_store[r],
         NEW v \in DOMAIN root_store[r] \ {1}
  PROVE  /\ root_store'[r][v] = v
         /\ \E u \in DOMAIN root_store'[r] :
              u < v /\ root_store'[r][u] = v - 1 /\ DoubleSigned(r, v - 1, v)'
<1>1. root_store[r][v] = v /\ v \in 1..Len(roots[r]) /\ Len(roots[r]) \in Nat
  BY DEF RootChain, CInv, StoredRoots, Typed
<1>2. PICK u \in DOMAIN root_store[r] : u < v /\ root_store[r][u] = v - 1 /\ DoubleSigned(r, v - 1, v)
  BY Zenon DEF RootChain
<1>3. v - 1 \in 1..Len(roots[r])
  BY <1>1, <1>2, Zenon DEF CInv, StoredRoots
<1>4. roots'[r][v] = roots[r][v] /\ roots'[r][v - 1] = roots[r][v - 1]
  BY <1>1, <1>3, Zenon DEF Kept
<1>5. DoubleSigned(r, v - 1, v)'
  BY <1>2, <1>4, Zenon DEF DoubleSigned
<1> QED  BY <1>1, <1>2, <1>5, Zenon

\* updateMeta's walk from the stored root to the latest one: each root stored
\* after the first is the successor of a stored one and carries its signature,
\* whatever the server answers and wherever the walk is cut off.
THEOREM RootsChained == Spec => []RootChain
<1>1. Init => RootChain
  BY DEF Init, RootChain
<1>2. CInv /\ RootChain /\ [Next]_vars => RootChain'
  <2> SUFFICES ASSUME CInv, RootChain, [Next]_vars, NEW r \in Repo, NEW v \in DOMAIN root_store'[r] \ {1}
               PROVE  /\ root_store'[r][v] = v
                      /\ \E u \in DOMAIN root_store'[r] :
                           u < v /\ root_store'[r][u] = v - 1 /\ DoubleSigned(r, v - 1, v)'
    BY Zenon DEF RootChain
  <2>1. Typed /\ StoredRoots /\ Held /\ repo \in Repo
    BY Zenon DEF CInv, Typed
  <2>2. ASSUME UNCHANGED serverVars PROVE Kept
    <3>1. \A q \in Repo : Len(roots[q]) \in Nat /\ \A role \in Role : Len(docs[q][role]) \in Nat
      BY <2>1 DEF Typed
    <3> QED  BY <2>2, <3>1 DEF Kept, serverVars
  <2>3. CASE Server
    <3>1. root_store' = root_store /\ Kept
      BY <2>3, ServerControl, Zenon DEF Server, addImage, signTargets, Refresh, RotateRoot, storeVars
    <3> QED  BY <3>1, ChainStays, Zenon
  <2>4. ASSUME NEW version, NEW root, storeRoot(repo, version, root)
        PROVE  /\ DOMAIN root_store'[repo] = DOMAIN root_store[repo] \cup {version}
               /\ root_store'[repo][version] = root
               /\ \A w \in DOMAIN root_store[repo] : w # version => root_store'[repo][w] = root_store[repo][w]
               /\ \A q \in Repo \ {repo} : root_store'[q] = root_store[q]
    BY <2>1, <2>4, Zenon DEF storeRoot, Typed
  <2>5. CASE FetchFirstRoot
    <3>1. PICK root : storeRoot(repo, 1, root)
      BY <2>5, Zenon DEF FetchFirstRoot
    <3>2. DOMAIN root_store[repo] = {} /\ Kept
      BY <2>1, <2>2, <2>5, Zenon DEF FetchFirstRoot, Held
    <3>3. r # repo
      BY <2>4, <3>1, <3>2, Zenon
    <3> QED  BY <2>4, <3>1, <3>2, <3>3, ChainStays, Zenon
  <2>6. CASE FetchRoot
    <3>1. Kept /\ DOMAIN root_store[repo] # {} /\ root_mem[repo] = loadLatestRoot(repo)
      BY <2>1, <2>2, <2>6, Zenon DEF FetchRoot, Held
    <3> DEFINE held == root_mem[repo]
    <3>2. PICK root \in 1..Len(roots[repo]) :
            \/ root_store' = root_store
            \/ DoubleSigned(repo, held, root) /\ root = held + 1 /\ storeRoot(repo, held + 1, root)
      BY <2>6, Zenon DEF FetchRoot, RightVersion
    <3>3. CASE root_store' = root_store
      BY <3>1, <3>3, ChainStays, Zenon
    <3>4. CASE DoubleSigned(repo, held, root) /\ root = held + 1 /\ storeRoot(repo, held + 1, root)
      <4>1. CASE r # repo
        BY <2>4, <3>1, <3>4, <4>1, ChainStays, Zenon
      <4>2. CASE r = repo
        <5>1. \A w \in DOMAIN root_store[repo] : w < held + 1 /\ w \in Int
          <6>1. \A w \in DOMAIN root_store[repo] : w < loadLatestRoot(repo) + 1
            BY <2>1, <3>1, NextRow, Zenon
          <6>2. \A w \in DOMAIN root_store[repo] : w \in Int
            BY <2>1 DEF StoredRoots
          <6> QED  BY <3>1, <6>1, <6>2, Zenon
        <5>2. PICK top \in DOMAIN root_store[repo] : root_store[repo][top] = held
          BY <2>1, <3>1, NextRow, Zenon
        <5>3. /\ DOMAIN root_store'[repo] = DOMAIN root_store[repo] \cup {root}
              /\ root_store'[repo][root] = root
              /\ \A w \in DOMAIN root_store[repo] : root_store'[repo][w] = root_store[repo][w]
          BY <2>4, <3>4, <5>1
        <5>4. held \in Nat /\ root_mem[repo] = held
          BY <2>1, Zenon DEF Typed
        <5>5. UNCHANGED roots
          BY <2>6, Zenon DEF FetchRoot, serverVars
        <5>6. CASE v = root
          <6>1. top < v /\ root_store'[repo][top] = v - 1 /\ DoubleSigned(repo, v - 1, v)
            BY <3>4, <5>1, <5>2, <5>3, <5>4, <5>6
          <6>2. DoubleSigned(r, v - 1, v)
            BY <4>2, <6>1, Zenon
          <6>3. DoubleSigned(r, v - 1, v)'
            BY <5>5, <6>2, Zenon DEF DoubleSigned
          <6> QED  BY <4>2, <5>2, <5>3, <5>6, <6>1, <6>3, Zenon
        <5>7. CASE v # root
          <6>1. v \in DOMAIN root_store[r] \ {1}
            BY <4>2, <5>3, <5>7, Zenon
          <6>2. root_store[r][v] = v
            BY <6>1, Zenon DEF RootChain
          <6>3. PICK u \in DOMAIN root_store[r] : u < v /\ root_store[r][u] = v - 1 /\ DoubleSigned(r, v - 1, v)
            BY <6>1, Zenon DEF RootChain
          <6>4. DoubleSigned(r, v - 1, v)'
            BY <5>5, <6>3, Zenon DEF DoubleSigned
          <6> QED  BY <4>2, <5>3, <6>1, <6>2, <6>3, <6>4, Zenon
        <5> QED  BY <5>6, <5>7, Zenon
      <4> QED  BY <4>1, <4>2, Zenon
    <3> HIDE DEF held
    <3> QED  BY <3>2, <3>3, <3>4, Zenon
  <2>7. ASSUME UNCHANGED <<serverVars, root_store>>
        PROVE  /\ root_store'[r][v] = v
               /\ \E u \in DOMAIN root_store'[r] :
                    u < v /\ root_store'[r][u] = v - 1 /\ DoubleSigned(r, v - 1, v)'
    BY <2>2, <2>7, ChainStays, Zenon
  <2>8. \/ Server \/ FetchFirstRoot \/ FetchRoot \/ UNCHANGED <<serverVars, root_store>>
    BY Zenon DEF Next, Start, Update, FetchLatestRoot, clearNonRootMeta, RootsDone, FetchRole, getNewTargets,
           FetchFails, checkUpdates, finalizeAfterReboot, uptaneOfflineIteration, Crash, storeVars, vars
  <2> QED  BY <2>3, <2>5, <2>6, <2>7, <2>8, Zenon
<1> QED  BY <1>1, <1>2, ControlInvariant, PTL DEF Spec

-----------------------------------------------------------------------------
(* The database agrees with what updateMeta has verified. *)

\* Without a crash, everything stored is signed with the keys of the latest
\* stored root, but for the moment between storeRoot and clearNonRootMeta.
SameKeys ==
  crashes = 0 =>
    \A r \in Repo, role \in Role :
      meta_store[r][role] # 0 /\ ~(pc = "clear" /\ repo = r)
        => docs[r][role][meta_store[r][role]].gen = roots[r][loadLatestRoot(r)]

\* The documents that updateMeta has gone past are the stored ones.
Proper == Numbered /\ (crashes = 0 \/ OnlyGrow)
Agreed ==
  Proper /\ pc # "idle" =>
    /\ \A role \in Fetched : meta_store[repo][role] = meta_mem[repo][role]
    /\ repo = "images" => meta_store["director"]["targets"] = meta_mem["director"]["targets"]

\* Two documents that the client may meet under the same keys differ in their
\* versions.
LEMMA DistinctDocs ==
  ASSUME Typed, Published, Numbered, NEW r \in Repo, NEW role \in Role,
         NEW j \in 1..Len(docs[r][role]), NEW i \in 1..(j - 1),
         docs[r][role][i].gen = docs[r][role][j].gen \/ OnlyGrow
  PROVE  docs[r][role][i].ver # docs[r][role][j].ver
<1> DEFINE s == docs[r][role]
<1>1. s \in Seq(Doc) /\ Len(s) \in Nat
  BY DEF Typed
<1>2. \A k \in 1..Len(s) : s[k] \in Doc
  BY <1>1
<1>3. \A k \in 1..Len(s) : s[k].ver \in Nat /\ s[k].gen \in Nat
  BY <1>2, Zenon DEF Doc
<1>4. OrderedDocs(r, s, Last(roots[r])) /\ GrowDocs(s) /\ (Len(s) > 0 <=> role \in RolesOf(r))
  BY Zenon DEF Published
<1>5. i \in 1..Len(s) /\ j \in 1..Len(s) /\ i < j
  BY <1>1
<1>6. CASE OnlyGrow
  <2>1. \A k \in 2..Len(s) : s[k - 1].ver < s[k].ver
    BY <1>6, Zenon DEF OnlyGrow
  <2> HIDE DEF s
  <2>2. s[i].ver < s[j].ver
    BY <1>4, <2>1, Zenon DEF GrowDocs, s
  <2> QED  BY <1>3, <1>5, <2>2 DEF s
<1>7. CASE s[i].gen = s[j].gen
  <2>1. \A m \in 1..Len(s) : \A k \in 1..(m - 1) : Sequenced(r, s[k], s[m])
    BY <1>4, Zenon DEF OrderedDocs
  <2>2. CASE r = "images"
    <3>1. Sequenced(r, s[i], s[j])
      BY <2>1, Zenon
    <3>2. s[i].ver < s[j].ver
      BY <1>7, <2>2, <3>1, Zenon DEF Sequenced
    <3> QED  BY <1>3, <1>5, <3>2
  <2>3. CASE r = "director"
    <3>1. role = "targets"
      BY <1>1, <1>4, <1>5, <2>3 DEF RolesOf
    <3> HIDE DEF s
    <3>2. SUFFICES ASSUME s[i].ver = s[j].ver PROVE FALSE
      BY Zenon DEF s
    <3>3. j - 1 \in 1..Len(s) /\ j \in 2..Len(s) /\ Sequenced(r, s[j - 1], s[j])
      BY <1>1, <1>5, <2>1
    <3>4. s[i].gen <= s[j - 1].gen /\ (s[i].gen = s[j - 1].gen => s[i].ver <= s[j - 1].ver)
      <4>1. CASE i = j - 1
        BY <1>3, <1>5, <4>1
      <4>2. CASE i # j - 1
        <5>1. i \in 1..((j - 1) - 1)
          BY <1>1, <1>5, <4>2
        <5>2. Sequenced(r, s[i], s[j - 1])
          BY <2>1, <3>3, <5>1, Zenon
        <5> QED  BY <2>3, <5>2, Zenon DEF Sequenced
      <4> QED  BY <4>1, <4>2, Zenon
    <3>5. s[j - 1].gen <= s[j].gen /\ (s[j - 1].gen = s[j].gen => s[j - 1].ver <= s[j].ver)
      BY <2>3, <3>3, Zenon DEF Sequenced
    <3>6. s[j - 1].gen = s[j].gen
      BY <1>3, <1>5, <1>7, <3>3, <3>4, <3>5
    <3>7. s[j].ver = s[j - 1].ver
      BY <1>3, <1>5, <1>7, <3>2, <3>3, <3>4, <3>5, <3>6
    <3> QED  BY <2>3, <3>1, <3>3, <3>6, <3>7, Zenon DEF Numbered, s
  <2> QED  BY <2>2, <2>3, Zenon DEF Repo
<1> QED  BY <1>6, <1>7, Zenon

LEMMA SameDoc ==
  ASSUME Typed, Published, Numbered, NEW r \in Repo, NEW role \in Role,
         NEW l \in 1..Len(docs[r][role]), NEW d \in 1..Len(docs[r][role]),
         docs[r][role][l].gen = docs[r][role][d].gen \/ OnlyGrow,
         docs[r][role][l].ver = docs[r][role][d].ver
  PROVE  l = d
<1>1. Len(docs[r][role]) \in Nat
  BY DEF Typed
<1>2. CASE l < d
  <2>1. l \in 1..(d - 1)
    BY <1>1, <1>2
  <2> QED  BY <2>1, DistinctDocs, Zenon
<1>3. CASE d < l
  <2>1. d \in 1..(l - 1)
    BY <1>1, <1>3
  <2> QED  BY <2>1, DistinctDocs, Zenon
<1> QED  BY <1>1, <1>2, <1>3

\* Proper is a matter of what was published and of crashes: it is lost for good.
LEMMA ProperBack ==
  ASSUME Typed, Typed', Kept, crashes' \in {crashes, crashes + 1}, Proper'
  PROVE  Proper
<1>1. \A r \in Repo, role \in Role :
        Len(docs[r][role]) \in Nat /\ Len(docs'[r][role]) \in Nat /\ Len(docs[r][role]) <= Len(docs'[r][role])
  <2>1. \A r \in Repo, role \in Role : docs[r][role] \in Seq(Doc) /\ docs'[r][role] \in Seq(Doc)
    BY DEF Typed
  <2>2. \A r \in Repo, role \in Role : Len(docs[r][role]) \in Nat /\ Len(docs'[r][role]) \in Nat
    BY <2>1
  <2> QED  BY <2>2, Zenon DEF Kept
<1>2. "director" \in Repo /\ "targets" \in Role
  BY Zenon DEF Repo, Role
<1>3. Numbered
  <2> SUFFICES ASSUME NEW i \in 2..Len(docs["director"]["targets"])
               PROVE  docs["director"]["targets"][i].ver = docs["director"]["targets"][i - 1].ver =>
                        docs["director"]["targets"][i].gen # docs["director"]["targets"][i - 1].gen
    BY Zenon DEF Numbered
  <2>1. i \in 1..Len(docs["director"]["targets"]) /\ i - 1 \in 1..Len(docs["director"]["targets"])
    BY <1>1, <1>2
  <2>2. i \in 2..Len(docs'["director"]["targets"])
    BY <1>1, <1>2
  <2>3. docs'["director"]["targets"][i] = docs["director"]["targets"][i]
        /\ docs'["director"]["targets"][i - 1] = docs["director"]["targets"][i - 1]
    BY <1>2, <2>1, Zenon DEF Kept
  <2> QED  BY <2>2, <2>3, Zenon DEF Proper, Numbered
<1>4. OnlyGrow' => OnlyGrow
  <2> SUFFICES ASSUME OnlyGrow', NEW r \in Repo, NEW role \in Role, NEW i \in 2..Len(docs[r][role])
               PROVE  docs[r][role][i - 1].ver < docs[r][role][i].ver
    BY Zenon DEF OnlyGrow
  <2>1. i \in 1..Len(docs[r][role]) /\ i - 1 \in 1..Len(docs[r][role])
    BY <1>1
  <2>2. i \in 2..Len(docs'[r][role])
    BY <1>1
  <2>3. docs'[r][role][i] = docs[r][role][i] /\ docs'[r][role][i - 1] = docs[r][role][i - 1]
    BY <2>1, Zenon DEF Kept
  <2> QED  BY <2>2, <2>3, Zenon DEF OnlyGrow
<1>5. crashes' = 0 => crashes = 0
  BY DEF Typed
<1> QED  BY <1>3, <1>4, <1>5, Zenon DEF Proper

\* A step of the client leaves what is published as it is.
LEMMA ClientKept ==
  ASSUME Typed, UNCHANGED serverVars
  PROVE  Kept
<1>1. \A q \in Repo : Len(roots[q]) \in Nat /\ \A role \in Role : Len(docs[q][role]) \in Nat
  BY DEF Typed
<1> QED  BY <1>1 DEF Kept, serverVars

\* The steps by which the database changes, and the others.
LEMMA StoreSteps ==
  ASSUME CInv, [Next]_vars
  PROVE  /\ crashes' \in {crashes, crashes + 1}
         /\ \/ UNCHANGED storeVars
            \/ FetchFirstRoot \/ clearNonRootMeta \/ FetchRole
            \/ FetchRoot /\ pc' = "clear"
<1>1. FetchRoot => UNCHANGED storeVars \/ pc' = "clear"
  BY Zenon DEF FetchRoot, storeVars, Goto
<1> QED
  BY <1>1, Zenon DEF Next, Server, addImage, signTargets, Refresh, RotateRoot, Start, Update, FetchFirstRoot,
     FetchLatestRoot, FetchRoot, clearNonRootMeta, RootsDone, FetchRole, getNewTargets, FetchFails,
     checkUpdates, finalizeAfterReboot, uptaneOfflineIteration, Crash, vars

LEMMA KeysStep == CInv /\ SameKeys /\ [Next]_vars => SameKeys'
<1> SUFFICES ASSUME CInv, SameKeys, [Next]_vars, crashes' = 0,
                    NEW r \in Repo, NEW role \in Role,
                    meta_store'[r][role] # 0, ~(pc' = "clear" /\ repo' = r)
             PROVE  docs'[r][role][meta_store'[r][role]].gen = roots'[r][loadLatestRoot(r)']
  BY Zenon DEF SameKeys
<1>1. Typed /\ Typed' /\ InRange /\ StoredRoots /\ Held /\ repo \in Repo
  BY StepControl, Zenon DEF CInv, Typed
<1>2. crashes = 0
  <2>1. crashes' \in {crashes, crashes + 1}
    BY StoreSteps, Zenon
  <2>2. crashes \in Nat
    BY <1>1, Zenon DEF Typed
  <2> QED  BY <2>1, <2>2
<1>3. Kept
  <2>1. Server \/ UNCHANGED serverVars
    BY Zenon DEF Next, Start, Update, FetchFirstRoot, FetchLatestRoot, FetchRoot, clearNonRootMeta, RootsDone,
           FetchRole, getNewTargets, FetchFails, checkUpdates, finalizeAfterReboot, uptaneOfflineIteration,
           Crash, vars
  <2> QED  BY <1>1, <2>1, ClientKept, ServerControl, Zenon
<1>4. ASSUME root_store'[r] = root_store[r], meta_store'[r][role] = meta_store[r][role],
             ~(pc = "clear" /\ repo = r)
      PROVE  docs'[r][role][meta_store'[r][role]].gen = roots'[r][loadLatestRoot(r)']
  <2>1. docs[r][role][meta_store[r][role]].gen = roots[r][loadLatestRoot(r)]
    BY <1>2, <1>4, Zenon DEF SameKeys
  <2>2. loadLatestRoot(r)' = loadLatestRoot(r)
    BY <1>4, Zenon DEF loadLatestRoot
  <2>3. meta_store[r] # NoMeta
    BY <1>4, Zenon DEF NoMeta
  <2>4. DOMAIN root_store[r] # {}
    BY <1>1, <2>3, Zenon DEF StoredRoots
  <2>5. loadLatestRoot(r) \in 1..Len(roots[r])
    BY <1>1, <2>4, Latest, Zenon
  <2>6. meta_store[r][role] \in 1..Len(docs[r][role])
    <3>1. Len(docs[r][role]) \in Nat
      BY <1>1 DEF Typed
    <3> QED  BY <1>1, <1>4, <3>1 DEF InRange
  <2>7. docs'[r][role][meta_store[r][role]] = docs[r][role][meta_store[r][role]]
    BY <1>3, <2>6, Zenon DEF Kept
  <2>8. roots'[r][loadLatestRoot(r)] = roots[r][loadLatestRoot(r)]
    BY <1>3, <2>5, Zenon DEF Kept
  <2> QED  BY <1>4, <2>1, <2>2, <2>7, <2>8, Zenon
<1>5. CASE UNCHANGED storeVars
  <2>1. CASE pc = "clear" /\ repo = r
    <3>1. Server \/ UNCHANGED vars \/ Crash \/ clearNonRootMeta
      BY <2>1, Zenon DEF Next, Start, Update, FetchFirstRoot, FetchLatestRoot, FetchRoot, RootsDone, FetchRole,
                  getNewTargets, FetchFails, checkUpdates, finalizeAfterReboot, Role
    <3>2. CASE Server \/ UNCHANGED vars
      BY <2>1, <3>2, Zenon DEF Server, addImage, signTargets, Refresh, RotateRoot, vars
    <3>3. CASE Crash
      BY <1>1, <1>2, <3>3 DEF Crash
    <3>4. CASE clearNonRootMeta
      BY <1>1, <2>1, <3>4, Zenon DEF clearNonRootMeta, Typed, NoMeta
    <3> QED  BY <3>1, <3>2, <3>3, <3>4, Zenon
  <2>2. CASE ~(pc = "clear" /\ repo = r)
    BY <1>4, <1>5, <2>2, Zenon DEF storeVars
  <2> QED  BY <2>1, <2>2, Zenon
<1>6. CASE FetchFirstRoot
  <2>1. pc = "first" /\ meta_store' = meta_store /\ DOMAIN root_store[repo] = {}
    BY <1>1, <1>6, Zenon DEF FetchFirstRoot, Held
  <2>2. meta_store[repo] = NoMeta
    BY <1>1, <2>1, Zenon DEF StoredRoots
  <2>3. r # repo
    BY <2>1, <2>2, Zenon DEF NoMeta
  <2>4. root_store'[r] = root_store[r]
    BY <1>1, <1>6, <2>3, Zenon DEF FetchFirstRoot, storeRoot, Typed
  <2> QED  BY <1>4, <2>1, <2>4, Zenon
<1>7. CASE clearNonRootMeta
  <2>1. meta_store' = [meta_store EXCEPT ![repo] = NoMeta] /\ root_store' = root_store
    BY <1>7, Zenon DEF clearNonRootMeta
  <2>2. r # repo
    BY <1>1, <2>1, Zenon DEF Typed, NoMeta
  <2>3. meta_store'[r] = meta_store[r]
    BY <1>1, <2>1, <2>2, Zenon DEF Typed
  <2> QED  BY <1>4, <2>1, <2>2, <2>3, Zenon
<1>8. CASE FetchRoot /\ pc' = "clear"
  <2>1. pc = "chain" /\ meta_store' = meta_store /\ repo' = repo
    BY <1>8, Zenon DEF FetchRoot, Goto, Fail
  <2>2. r # repo
    BY <1>8, <2>1, Zenon
  <2>3. root_store'[r] = root_store[r]
    BY <1>1, <1>8, <2>2, Zenon DEF FetchRoot, storeRoot, Typed
  <2> QED  BY <1>4, <2>1, <2>3, Zenon
<1>9. CASE FetchRole
  <2>1. pc \in Role /\ root_store' = root_store /\ UNCHANGED <<roots, docs>>
    BY <1>9, Zenon DEF FetchRole, serverVars
  <2>2. root_mem[repo] = loadLatestRoot(repo) /\ pc # "clear"
    BY <1>1, <2>1, Zenon DEF Held, Role
  <2>3. PICK d : \/ meta_store' = meta_store
                 \/ /\ meta_store' = [meta_store EXCEPT ![repo][pc] = d]
                    /\ Verifies(repo, pc, d, root_mem[repo], meta_mem[repo])
    BY <1>9, Zenon DEF FetchRole, storeNonRoot
  <2>4. CASE meta_store'[r][role] = meta_store[r][role]
    BY <1>4, <2>1, <2>2, <2>4, Zenon
  <2>5. CASE meta_store'[r][role] # meta_store[r][role]
    <3>1. /\ meta_store' = [meta_store EXCEPT ![repo][pc] = d]
          /\ Verifies(repo, pc, d, root_mem[repo], meta_mem[repo])
      BY <2>3, <2>5, Zenon
    <3>2. r = repo /\ role = pc /\ meta_store'[r][role] = d
      BY <1>1, <2>1, <2>5, <3>1 DEF Typed
    <3>3. docs[r][role][d].gen = roots[r][loadLatestRoot(r)]
      BY <2>2, <3>1, <3>2, Zenon DEF Verifies
    <3>4. loadLatestRoot(r)' = loadLatestRoot(r)
      BY <2>1, Zenon DEF loadLatestRoot
    <3> QED  BY <2>1, <3>2, <3>3, <3>4, Zenon
  <2> QED  BY <2>4, <2>5, Zenon
<1> QED  BY <1>5, <1>6, <1>7, <1>8, <1>9, StoreSteps, Zenon

\* updateMeta goes past a role only with the document that is then stored: a
\* newer one has been stored, one of the same version is the same.
LEMMA RoleAgrees ==
  ASSUME CInv, SameKeys, Agreed, Proper, FetchRole, pc' # "idle"
  PROVE  /\ repo' = repo /\ Fetched' = Fetched \cup {pc}
         /\ \A role \in Fetched \cup {pc} : meta_store'[repo][role] = meta_mem'[repo][role]
         /\ \A r \in Repo \ {repo} : meta_store'[r] = meta_store[r] /\ meta_mem'[r] = meta_mem[r]
<1>1. Typed /\ Published /\ InRange /\ Held /\ repo \in Repo /\ Numbered
  BY Zenon DEF CInv, Typed, Proper
<1>2. pc \in Role /\ pc # "idle" /\ pc # "clear" /\ (pc \in {"timestamp", "snapshot"} => repo = "images")
  BY <1>1, Zenon DEF FetchRole, Role, Held
<1>3. root_mem[repo] = loadLatestRoot(repo)
  BY <1>1, <1>2, Zenon DEF Held, Role
<1> DEFINE next == IF pc # "targets" THEN NextRole(pc) ELSE IF repo = "director" THEN "new" ELSE "check"
           local == Version(repo, pc, meta_store[repo][pc])
           fetched(d) == Version(repo, pc, d)
<1>4. PICK d \in 1..Len(docs[repo][pc]) :
        /\ pc' = next /\ repo' = repo
        /\ Verifies(repo, pc, d, root_mem[repo], meta_mem[repo])
        /\ meta_mem' = [meta_mem EXCEPT ![repo][pc] = d]
        /\ IF local < fetched(d) THEN meta_store' = [meta_store EXCEPT ![repo][pc] = d]
                                 ELSE meta_store' = meta_store
        /\ local <= fetched(d)
  <2>1. PICK d \in 1..Len(docs[repo][pc]), age \in {"fresh", "expired"} :
          IF Verifies(repo, pc, d, root_mem[repo], meta_mem[repo])
          THEN /\ meta_mem' = [meta_mem EXCEPT ![repo][pc] = d]
               /\ IF Replaces(local, fetched(d))
                  THEN storeNonRoot(repo, pc, d) ELSE UNCHANGED meta_store
               /\ IF Accepts(local, fetched(d)) /\ age = "fresh" THEN Goto(next) ELSE Fail
          ELSE Fail /\ UNCHANGED <<meta_mem, meta_store>>
    BY Zenon DEF FetchRole, loadNonRoot
  <2> HIDE DEF next, local, fetched
  <2> QED  BY <2>1, Zenon DEF storeNonRoot, Goto, Fail, Replaces, Accepts
<1>5. /\ meta_mem'[repo][pc] = d
      /\ \A q \in Role \ {pc} : meta_mem'[repo][q] = meta_mem[repo][q] /\ meta_store'[repo][q] = meta_store[repo][q]
      /\ \A r \in Repo \ {repo} : meta_store'[r] = meta_store[r] /\ meta_mem'[r] = meta_mem[r]
  BY <1>1, <1>2, <1>4 DEF Typed
<1>6. Fetched' = Fetched \cup {pc} /\ Fetched \subseteq Role \ {pc}
  BY <1>1, <1>2, <1>4, Zenon DEF Fetched, NextRole, Role, RolesOf, Repo
<1>7. meta_store'[repo][pc] = d
  <2>1. CASE local < fetched(d)
    BY <1>1, <1>2, <1>4, <2>1 DEF Typed
  <2>2. CASE ~(local < fetched(d))
    <3> DEFINE l == meta_store[repo][pc]
    <3>1. docs[repo][pc] \in Seq(Doc) /\ l \in 0..Len(docs[repo][pc]) /\ d # 0
      BY <1>1, <1>2 DEF Typed, InRange
    <3>2. docs[repo][pc][d] \in Doc /\ (l # 0 => l \in 1..Len(docs[repo][pc]) /\ docs[repo][pc][l] \in Doc)
      BY <3>1
    <3>3. docs[repo][pc][d].ver \in Nat /\ (l # 0 => docs[repo][pc][l].ver \in Nat)
      BY <3>2, Zenon DEF Doc
    <3>4. l # 0 /\ docs[repo][pc][l].ver = docs[repo][pc][d].ver
      <4>1. fetched(d) = docs[repo][pc][d].ver /\ local = IF l = 0 THEN -1 ELSE docs[repo][pc][l].ver
        BY <3>1, Zenon DEF Version
      <4>2. local <= fetched(d)
        BY <1>4, Zenon
      <4> HIDE DEF l, local, fetched
      <4> QED  BY <2>2, <3>3, <4>1, <4>2
    <3>5. docs[repo][pc][l].gen = docs[repo][pc][d].gen \/ OnlyGrow
      BY <1>1, <1>2, <1>3, <1>4, <3>4, Zenon DEF Proper, SameKeys, Verifies
    <3>6. l \in 1..Len(docs[repo][pc])
      BY <3>2, <3>4, Zenon
    <3> HIDE DEF l
    <3>7. l = d
      BY <1>1, <1>2, <3>4, <3>5, <3>6, SameDoc, Zenon
    <3> QED  BY <1>4, <2>2, <3>7, Zenon DEF l
  <2> QED  BY <2>1, <2>2, Zenon
<1>8. \A role \in Fetched : meta_store[repo][role] = meta_mem[repo][role]
  BY <1>2, Zenon DEF Agreed
<1> QED  BY <1>4, <1>5, <1>6, <1>7, <1>8, Zenon

LEMMA AgreedStep == CInv /\ SameKeys /\ Agreed /\ [Next]_vars => Agreed'
<1> SUFFICES ASSUME CInv, SameKeys, Agreed, [Next]_vars, Proper', pc' # "idle"
             PROVE  /\ \A role \in Fetched' : meta_store'[repo'][role] = meta_mem'[repo'][role]
                    /\ repo' = "images" => meta_store'["director"]["targets"] = meta_mem'["director"]["targets"]
  BY Zenon DEF Agreed
<1>1. Typed /\ Typed' /\ Held /\ repo \in Repo
  BY StepControl, Zenon DEF CInv, Typed
<1>2. Proper
  <2>1. Server \/ UNCHANGED serverVars
    BY Zenon DEF Next, Start, Update, FetchFirstRoot, FetchLatestRoot, FetchRoot, clearNonRootMeta, RootsDone,
           FetchRole, getNewTargets, FetchFails, checkUpdates, finalizeAfterReboot, uptaneOfflineIteration,
           Crash, vars
  <2>2. Kept
    BY <1>1, <2>1, ClientKept, ServerControl, Zenon
  <2> QED  BY <1>1, <2>2, ProperBack, StoreSteps, Zenon
<1>3. CASE Server \/ UNCHANGED vars
  <2>1. UNCHANGED <<root_store, meta_store, root_mem, meta_mem, pc, repo>>
    BY <1>3, Zenon DEF Server, addImage, signTargets, Refresh, RotateRoot, storeVars, memVars, vars
  <2>2. Fetched' = Fetched
    BY <2>1, Zenon DEF Fetched
  <2> QED  BY <1>2, <2>1, <2>2, Zenon DEF Agreed
<1>4. CASE Start
  <2>1. repo' = "director" /\ Fetched' = {}
    BY <1>4, Zenon DEF Start, Begin, Fetched
  <2> QED  BY <2>1, Zenon
<1>5. CASE FetchFirstRoot \/ FetchLatestRoot \/ FetchRoot \/ clearNonRootMeta \/ RootsDone
  <2>1. repo' = repo /\ meta_mem' = meta_mem /\ pc # "idle" /\ pc' \in {"latest", "chain", "clear", FirstRole(repo)}
    BY <1>5, Zenon DEF FetchFirstRoot, FetchLatestRoot, FetchRoot, clearNonRootMeta, RootsDone, Goto, Fail, memVars
  <2>2. Fetched' = {}
    BY <1>1, <2>1, Zenon DEF Fetched, FirstRole, RolesOf, Repo, Role
  <2>3. repo = "images" => meta_store'["director"] = meta_store["director"]
    <3>1. meta_store' = meta_store \/ meta_store' = [meta_store EXCEPT ![repo] = NoMeta]
      BY <1>5, Zenon DEF FetchFirstRoot, FetchLatestRoot, FetchRoot, clearNonRootMeta, RootsDone, storeVars
    <3> QED  BY <1>1, <3>1, Zenon DEF Typed, Repo
  <2> QED  BY <1>2, <2>1, <2>2, <2>3, Zenon DEF Agreed
<1>6. CASE FetchRole
  <2>1. pc # "idle"
    BY <1>6, Zenon DEF FetchRole, Role
  <2>2. repo = "images" => "director" \in Repo \ {repo}
    BY Zenon DEF Repo
  <2>3. /\ repo' = repo /\ Fetched' = Fetched \cup {pc}
        /\ \A role \in Fetched \cup {pc} : meta_store'[repo][role] = meta_mem'[repo][role]
        /\ \A r \in Repo \ {repo} : meta_store'[r] = meta_store[r] /\ meta_mem'[r] = meta_mem[r]
    BY <1>2, <1>6, RoleAgrees, Zenon
  <2> QED  BY <1>2, <2>1, <2>2, <2>3, Zenon DEF Agreed
<1>7. CASE getNewTargets
  <2>1. pc = "new" /\ repo = "director" /\ meta_store' = meta_store
    BY <1>1, <1>7, Zenon DEF getNewTargets, Held, storeVars
  <2>2. Fetched = {"targets"} /\ meta_store["director"]["targets"] = meta_mem["director"]["targets"]
    BY <1>2, <2>1, Zenon DEF Agreed, Fetched, RolesOf
  <2> DEFINE assigns == docs["director"]["targets"][meta_mem["director"]["targets"]].assigns
  <2>3. CASE pc' = "check" /\ UNCHANGED <<memVars, repo>>
    <3>1. Fetched' = {"targets"}
      BY <2>1, <2>3, Zenon DEF Fetched, RolesOf
    <3> QED  BY <2>1, <2>2, <2>3, <3>1, Zenon DEF memVars
  <2>4. CASE Begin("images")
    <3>1. Fetched' = {} /\ repo' = "images" /\ meta_mem' = [meta_mem EXCEPT !["images"] = NoMeta]
      BY <2>4, Zenon DEF Begin, Fetched
    <3>2. meta_mem'["director"] = meta_mem["director"]
      BY <1>1, <3>1, Zenon DEF Typed, Repo
    <3> QED  BY <2>1, <2>2, <3>1, <3>2, Zenon
  <2>5. assigns \in {"nothing", "new", "bad"}
    <3>1. "targets" \in Role /\ "director" \in Repo
      BY Zenon DEF Role, Repo
    <3>2. meta_mem["director"]["targets"] # 0
      BY <1>1, <2>1, <2>2, <3>1, Zenon DEF Held
    <3>3. docs["director"]["targets"] \in Seq(Doc)
          /\ meta_mem["director"]["targets"] \in 0..Len(docs["director"]["targets"])
      BY <3>1, Zenon DEF CInv, Typed, InRange
    <3>4. docs["director"]["targets"][meta_mem["director"]["targets"]] \in Doc
      BY <3>2, <3>3
    <3> QED  BY <3>4, Zenon DEF Doc
  <2>6. CASE assigns = "bad"
    BY <1>7, <2>6, Zenon DEF getNewTargets, Fail
  <2>7. CASE assigns = "nothing"
    <3>1. Goto("check") /\ UNCHANGED memVars
      BY <1>7, <2>7, Zenon DEF getNewTargets
    <3> QED  BY <2>3, <3>1, Zenon DEF Goto
  <2>8. CASE assigns = "new"
    BY <1>7, <2>4, <2>8, Zenon DEF getNewTargets
  <2> QED  BY <2>5, <2>6, <2>7, <2>8, Zenon
<1>8. CASE FetchFails \/ checkUpdates \/ finalizeAfterReboot \/ Crash
  BY <1>8, Zenon DEF FetchFails, checkUpdates, finalizeAfterReboot, uptaneOfflineIteration, Crash, Fail
<1> QED  BY <1>3, <1>4, <1>5, <1>6, <1>7, <1>8, Zenon DEF Next, Update

\* checkUpdates, which verifies everything again from the database at the end
\* of fetchMeta, comes to the documents that updateMeta has just verified, for
\* any number of publications, faults and rotations before.
THEOREM CheckFindsTheSame == Spec => []CheckAgrees
<1>1. Init => SameKeys /\ Agreed
  BY DEF Init, SameKeys, Agreed, NoMeta
<1>2. CInv /\ SameKeys /\ Agreed => CheckAgrees
  <2> SUFFICES ASSUME CInv, Agreed, pc = "check", Proper, NEW r \in StoredRepos
               PROVE  /\ StoredChain(r) = RolesOf(r)
                      /\ meta_store[r] = meta_mem[r]
                      /\ loadLatestRoot(r) = root_mem[r]
    BY Zenon DEF CheckAgrees, Proper
  <2>1. Typed /\ Published /\ InRange /\ Held /\ DirectorFirst /\ repo \in Repo
    BY Zenon DEF CInv, Typed
  <2>2. "director" \in Repo /\ "images" \in Repo /\ "targets" \in Role
    BY Zenon DEF Repo, Role
  <2>3. Fetched = RolesOf(repo) /\ RolesOf(repo) \subseteq Role /\ "targets" \in RolesOf(repo)
    BY Zenon DEF Fetched, RolesOf, Role
  <2>4. meta_store["director"]["targets"] = meta_mem["director"]["targets"]
    BY <2>1, <2>3, Zenon DEF Agreed, Repo
  <2>5. meta_mem["director"]["targets"] # 0 /\ root_mem["director"] = loadLatestRoot("director")
        /\ DOMAIN root_store["director"] # {}
        /\ Verifies("director", "targets", meta_mem["director"]["targets"], root_mem["director"],
                    meta_mem["director"])
    BY <2>1, <2>2, <2>3, Zenon DEF Held, DirectorFirst, Repo
  <2>6. r \in Repo /\ (r = "images" => repo = "images")
    <3>1. repo = "director" => r = "director"
      BY <2>1, <2>4, Zenon DEF DirectorFirst, Assigned, StoredRepos, loadNonRoot
    <3> QED  BY <2>1, <3>1, Zenon DEF StoredRepos, Repo
  <2>7. meta_store[r] \in [Role -> Nat] /\ meta_mem[r] \in [Role -> Nat]
    BY <2>1, <2>6, Zenon DEF Typed
  <2>8. \A role \in RolesOf(r) : meta_store[r][role] = meta_mem[r][role] /\ meta_mem[r][role] # 0
    <3>1. CASE r = "director"
      BY <2>4, <2>5, <3>1, Zenon DEF RolesOf
    <3>2. CASE r = "images"
      BY <2>1, <2>3, <2>6, <3>2, Zenon DEF Agreed, Held
    <3> QED  BY <2>6, <3>1, <3>2, Zenon DEF Repo
  <2>9. meta_store[r] = meta_mem[r]
    <3>1. \A role \in Role \ RolesOf(r) : meta_store[r][role] = 0 /\ meta_mem[r][role] = 0
      <4>1. \A role \in Role : Len(docs[r][role]) \in Nat
        BY <2>1, <2>6 DEF Typed
      <4>2. \A role \in Role \ RolesOf(r) : Len(docs[r][role]) = 0
        BY <2>1, <2>6, <4>1 DEF Published
      <4>3. ASSUME NEW role \in Role PROVE /\ meta_mem[r][role] \in 0..Len(docs[r][role])
                                            /\ meta_store[r][role] \in 0..Len(docs[r][role])
        BY <2>1, <2>6, Zenon DEF InRange
      <4>4. \A n : n \in 0..0 => n = 0
        OBVIOUS
      <4> QED  BY <4>2, <4>3, <4>4, Zenon
    <3> QED  BY <2>7, <2>8, <3>1
  <2>10. loadLatestRoot(r) = root_mem[r] /\ DOMAIN root_store[r] # {}
         /\ \A role \in RolesOf(r) : Verifies(r, role, meta_mem[r][role], root_mem[r], meta_mem[r])
    <3>1. CASE r = "director"
      BY <2>5, <3>1, Zenon DEF RolesOf
    <3>2. CASE r = "images"
      BY <2>1, <2>3, <2>6, <3>2, Zenon DEF Held
    <3> QED  BY <2>6, <3>1, <3>2, Zenon DEF Repo
  <2>11. \A role \in RolesOf(r) : StoredVerifies(r, role)
    BY <2>8, <2>9, <2>10, Zenon DEF StoredVerifies
  <2>12. StoredChain(r) \subseteq RolesOf(r) /\ RolesOf(r) \subseteq Role
    BY Zenon DEF StoredChain, RolesOf, Role
  <2>13. \A role \in RolesOf(r) : role \in StoredChain(r)
    BY <2>6, <2>10, <2>11, <2>12, StoredChainIs, Zenon
  <2> QED  BY <2>9, <2>10, <2>12, <2>13, Zenon
<1> QED  BY <1>1, <1>2, ControlInvariant, KeysStep, AgreedStep, PTL DEF Spec

=============================================================================
