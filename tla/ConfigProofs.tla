---------------------------- MODULE ConfigProofs ----------------------------
(***************************************************************************)
(* Theorems about the configuration: what a load of the file makes of it,  *)
(* for any file, any texts and patterns, any recipients (ConfigLoad), and  *)
(* which version each part of the process works with, for any number of    *)
(* edits and signals (SignalReload, at the end).                           *)
(*                                                                         *)
(* The invariant LoadInv follows the load: the nodes read so far are those *)
(* of the first sections of the file in its order, the children passed     *)
(* have become the general section or a section of the configuration, in   *)
(* that order, and each was accepted by its own checks.                    *)
(***************************************************************************)
EXTENDS ConfigLoad, WellFoundedInduction, TLAPS

(***************************************************************************)
(* Least elements.                                                         *)
(***************************************************************************)
Below == {p \in Nat \X Nat : p[1] < p[2]}

LEMMA BelowWellFounded == IsWellFoundedOn(Below, Nat)
<1>1. ~ \E f \in [Nat -> Nat] : \A n \in Nat : f[n + 1] < f[n]
  BY NatLessThanWellFounded DEF IsWellFoundedOn, OpToRel
<1>. QED
  BY <1>1 DEF Below, IsWellFoundedOn

\* Min of a set of numbers is its least element.
LEMMA MinIsLeast ==
    ASSUME NEW S \in SUBSET Nat, S # {}
    PROVE  Min(S) \in S /\ \A y \in S : Min(S) <= y
<1>1. PICK x \in S : \A y \in S : <<y, x>> \notin Below
  BY WFMin, BelowWellFounded
<1>2. \A y \in S : ~ (y < x)
  BY <1>1 DEF Below
<1>3. \A y \in S : x <= y
  BY <1>2
<1>. QED
  BY <1>3 DEF Min

(***************************************************************************)
(* The sections of a file.                                                 *)
(***************************************************************************)

\* No two blocks that open a section have one name, in whatever case ...
LEMMA OpenersDiffer ==
    ASSUME NEW f \in Files
    PROVE  /\ Openers(f) \subseteq 1 .. Len(f)
           /\ \A i, j \in Openers(f) : i # j => Lower[f[i].name] # Lower[f[j].name]
<1>1. Len(f) \in Nat /\ DOMAIN f = 1 .. Len(f)
  BY FilesAssumption
<1>2. ASSUME NEW i \in Openers(f), NEW j \in Openers(f), i < j
      PROVE  Lower[f[i].name] # Lower[f[j].name]
  BY <1>1, <1>2 DEF Openers, SameName
<1>. QED
  BY <1>1, <1>2 DEF Openers

\* ... and every block with a name belongs to a section that one of them opens.
LEMMA OpenerOfBlock ==
    ASSUME NEW f \in Files, NEW i \in DOMAIN f, f[i].name # Global
    PROVE  \E j \in Openers(f) : Lower[f[j].name] = Lower[f[i].name]
<1>. DEFINE same == {j \in DOMAIN f : SameName(f, i, j)}
            first == Min(same)
<1>1. Len(f) \in Nat /\ DOMAIN f = 1 .. Len(f)
  BY FilesAssumption
<1>2. same \in SUBSET Nat /\ i \in same
  BY <1>1 DEF SameName
<1>3. first \in same /\ \A j \in same : first <= j
  BY <1>2, MinIsLeast
<1>4. first \in 1 .. Len(f) /\ Lower[f[first].name] = Lower[f[i].name]
  BY <1>1, <1>3 DEF SameName
<1>. HIDE DEF first
<1>5. f[first].name # Global
  BY <1>1, <1>3, <1>4, FilesAssumption, LowerAssumption
<1>6. \A j \in 1 .. first - 1 : ~SameName(f, first, j)
  <2>. SUFFICES ASSUME NEW j \in 1 .. first - 1, SameName(f, first, j)
                PROVE  FALSE
    OBVIOUS
  <2>1. j \in DOMAIN f
    BY <1>1, <1>4
  <2>2. SameName(f, i, j)
    BY <1>4 DEF SameName
  <2>. QED
    BY <1>1, <1>3, <1>4, <2>1, <2>2
<1>. QED
  BY <1>3, <1>4, <1>5, <1>6 DEF Openers

-----------------------------------------------------------------------------
(***************************************************************************)
(* The inductive invariant.                                                *)
(***************************************************************************)

\* The tree: a node for the global keys, if there are any, and a node for each section read so far.
GlobalKeys(f) == \E i \in DOMAIN f : f[i].name = Global /\ DOMAIN f[i].keys # {}
GlobalChild == [type |-> "VALUE", key |-> Global, children |-> <<>>]
Nodes(f) == {SectionNode(f, i) : i \in Openers(f)} \cup {GlobalChild}

TreeOK ==
    /\ root \in Seq(Nodes(file))
    /\ phase \in {"read", "sections", "loaded"} /\ GlobalKeys(file) => 1 \in DOMAIN root /\ root[1] = GlobalChild
    /\ phase \in {"sections", "loaded"} => Unread = {}

\* The sections are read in the order of the file.
ReadInOrder ==
    /\ \A i \in Openers(file) \ Unread, j \in Unread : i < j
    /\ \A n, m \in DOMAIN root, i, j \in Openers(file) :
          n < m /\ root[n].key = file[i].name /\ root[m].key = file[j].name => i < j

\* What becomes of a child of the root that the loop over the children has passed.
Accepted(node, s) ==
    LET p == Lower[node.children["encryption_protocol"]] IN
    /\ "encryption_protocol" \in DOMAIN node.children
    /\ p \in Protocol
    /\ Readable(node, Fields(p))
    /\ s = Created(node, p)
    /\ EncryptionValid(p, s.settings)
    /\ compileMatches(s.settings)

IsGeneral(node) == node.type = "SECTION" /\ node.key = "general"
IsOther(node) == node.type = "SECTION" /\ node.key # "general"

ChildrenPassed ==
    \A n \in 1 .. pos - 1 :
        \/ /\ IsGeneral(root[n]) /\ Readable(root[n], GeneralFields)
           /\ general = deserializeFields(root[n], GeneralFields)
        \/ IsOther(root[n]) /\ \E k \in Section : encryptionSections[k].name = root[n].key

SectionsMade ==
    \A k \in Section : \E n \in 1 .. pos - 1 :
        IsOther(root[n]) /\ Accepted(root[n], encryptionSections[k])

SectionsInOrder ==
    \A k, l \in Section, n, m \in DOMAIN root :
        k < l /\ encryptionSections[k].name = root[n].key /\ encryptionSections[l].name = root[m].key
            => n < m

Made(f) == {Created(node, p) : node \in Nodes(f), p \in Protocol}

Counted ==
    /\ encryptionSections \in Seq(Made(file))
    /\ Len(encryptionSections) + (IF general = <<>> THEN 0 ELSE 1) = pos - 1
    /\ general # <<>> => GeneralValid(general)

PhaseOK ==
    /\ phase \in {"load", "read"} => pos = 1 /\ encryptionSections = <<>>
    /\ phase = "load" => root = <<>>
    /\ phase = "loaded" => pos > Len(root) /\ general # <<>> /\ CrossValid

LoadInv ==
    /\ TypeOK /\ TreeOK /\ ReadInOrder
    /\ ChildrenPassed /\ SectionsMade /\ SectionsInOrder /\ Counted /\ PhaseOK

-----------------------------------------------------------------------------
(* What the parts of the invariant say together. *)

LEMMA OpenersAreNumbers ==
    ASSUME file \in Files
    PROVE  Openers(file) \subseteq Nat /\ Unread \subseteq Openers(file)
BY OpenersDiffer DEF Unread

\* A node with the name of an opening block is the node of that block.
LEMMA NodeOfOpener ==
    ASSUME file \in Files, root \in Seq(Nodes(file)),
           NEW n \in DOMAIN root, NEW i \in Openers(file), root[n].key = file[i].name
    PROVE  root[n] = SectionNode(file, i)
<1>1. root[n] \in Nodes(file)
  OBVIOUS
<1>2. CASE root[n] = GlobalChild
  BY <1>2 DEF GlobalChild, Openers
<1>3. ASSUME NEW j \in Openers(file), root[n] = SectionNode(file, j)
      PROVE  root[n] = SectionNode(file, i)
  <2>1. file[j].name = file[i].name
    BY <1>3 DEF SectionNode
  <2>2. i = j
    BY <2>1, OpenersDiffer
  <2>. QED
    BY <1>3, <2>2
<1>. QED
  BY <1>1, <1>2, <1>3 DEF Nodes

\* No two nodes have one name.
LEMMA KeysDiffer ==
    ASSUME LoadInv, NEW n \in DOMAIN root, NEW m \in DOMAIN root,
           root[n].type = "SECTION", root[n].key = root[m].key
    PROVE  n = m
<1>1. root \in Seq(Nodes(file)) /\ file \in Files
  BY DEF LoadInv, TreeOK, TypeOK
<1>2. PICK i \in Openers(file) : root[n].key = file[i].name
  BY <1>1 DEF Nodes, GlobalChild, SectionNode
<1>3. i \in Nat
  BY <1>1, OpenersAreNumbers
<1>4. ~ (i < i)
  BY <1>3
<1>6. ReadInOrder
  BY DEF LoadInv
<1>7. ~ (n < m) /\ ~ (m < n)
  BY <1>2, <1>4, <1>6 DEF ReadInOrder
<1>5. n \in Nat /\ m \in Nat
  BY <1>1
<1>. QED
  BY <1>5, <1>7

-----------------------------------------------------------------------------
(* Reading the file. *)

LEMMA InitInv == Init => LoadInv
<1>. SUFFICES ASSUME Init PROVE LoadInv
  OBVIOUS
<1>1. TypeOK
  BY DEF Init, TypeOK, Section
<1>2. TreeOK /\ ReadInOrder
  BY DEF Init, TreeOK, ReadInOrder, Unread
<1>3. ChildrenPassed /\ SectionsMade /\ SectionsInOrder /\ Counted /\ PhaseOK
  BY DEF Init, ChildrenPassed, SectionsMade, SectionsInOrder, Counted, PhaseOK, Section
<1>. QED
  BY <1>1, <1>2, <1>3 DEF LoadInv

\* What the loop over the children has found does not change while no child is passed.
LEMMA SectionsKept ==
    ASSUME LoadInv, phase' # "loaded", UNCHANGED <<file, pos, general, encryptionSections>>,
           pos = 1, encryptionSections = <<>>
    PROVE  ChildrenPassed' /\ SectionsMade' /\ SectionsInOrder' /\ Counted'
BY DEF LoadInv, ChildrenPassed, SectionsMade, SectionsInOrder, Counted, Section

LEMMA LoadFileStep == LoadInv /\ LoadFile => LoadInv'
<1>. SUFFICES ASSUME LoadInv, LoadFile PROVE LoadInv'
  OBVIOUS
<1>1. root = <<>> /\ pos = 1 /\ encryptionSections = <<>> /\ file \in Files
  BY DEF LoadInv, PhaseOK, TypeOK, LoadFile
<1>2. root' = <<>> \/ root' = <<GlobalChild>>
  BY <1>1 DEF LoadFile, GlobalNode, GlobalChild
<1>3. TypeOK'
  BY <1>1, <1>2 DEF LoadInv, TypeOK, LoadFile, Section
<1>4. TreeOK'
  <2>1. root' \in Seq(Nodes(file'))
    <3>1. GlobalChild \in Nodes(file')
      BY DEF Nodes
    <3>2. <<GlobalChild>> \in Seq(Nodes(file')) /\ <<>> \in Seq(Nodes(file'))
      BY <3>1
    <3>. QED
      BY <1>2, <3>2
  <2>2. (phase' = "read" /\ GlobalKeys(file)) => root' = <<GlobalChild>>
    BY DEF LoadFile, GlobalNode, GlobalKeys, GlobalChild
  <2>. QED
    BY <2>1, <2>2 DEF TreeOK, LoadFile
<1>5. ReadInOrder'
  <2>1. \A i \in Openers(file) : file[i].name # Global
    BY DEF Openers
  <2>2. Unread' = Openers(file)
    BY <1>2, <2>1 DEF Unread, LoadFile, GlobalChild
  <2>3. \A n, m \in DOMAIN root' : ~ (n < m)
    BY <1>2
  <2>. QED
    BY <2>2, <2>3 DEF ReadInOrder, LoadFile
<1>6. ChildrenPassed' /\ SectionsMade' /\ SectionsInOrder' /\ Counted'
  BY <1>1, SectionsKept DEF LoadFile
<1>7. PhaseOK'
  BY <1>1 DEF LoadFile, PhaseOK
<1>. QED
  BY <1>3, <1>4, <1>5, <1>6, <1>7 DEF LoadInv

LEMMA ReadSectionStep == LoadInv /\ ReadSection => LoadInv'
<1>. SUFFICES ASSUME LoadInv, ReadSection PROVE LoadInv'
  OBVIOUS
<1>. DEFINE x == NextSection(Unread)
<1>1. /\ file \in Files /\ file' = file /\ root \in Seq(Nodes(file))
      /\ pos = 1 /\ encryptionSections = <<>> /\ phase = "read" /\ phase' = "read"
  BY DEF LoadInv, TypeOK, TreeOK, PhaseOK, ReadSection
<1>2. Openers(file) \subseteq Nat /\ Unread \subseteq Openers(file)
  BY <1>1, OpenersAreNumbers
<1>3. x \in Unread /\ \A i \in Unread : x <= i
  BY <1>2, MinIsLeast DEF ReadSection, NextSection
<1>4. root' = Append(root, SectionNode(file, x))
  BY DEF ReadSection
<1>. HIDE DEF x
<1>5. SectionNode(file, x) \in Nodes(file) /\ SectionNode(file, x).key = file[x].name
  BY <1>2, <1>3 DEF Nodes, SectionNode
<1>6. /\ root' \in Seq(Nodes(file)) /\ Len(root') = Len(root) + 1
      /\ \A n \in DOMAIN root : n \in DOMAIN root' /\ root'[n] = root[n]
      /\ root'[Len(root) + 1].key = file[x].name
      /\ DOMAIN root' = DOMAIN root \cup {Len(root) + 1}
  BY <1>1, <1>4, <1>5
<1>7. Unread' = Unread \ {x}
  <2>1. \A i \in Openers(file) : i # x => file[i].name # file[x].name
    BY <1>1, <1>2, <1>3, OpenersDiffer
  <2>. QED
    BY <1>1, <1>2, <1>3, <1>6, <2>1 DEF Unread
<1>8. TypeOK'
  BY <1>1, <1>6 DEF LoadInv, TypeOK, ReadSection, Section
<1>9. TreeOK'
  BY <1>1, <1>6 DEF LoadInv, TreeOK
<1>10. ReadInOrder'
  <2>1. \A i \in Openers(file) \ Unread', j \in Unread' : i < j
    BY <1>2, <1>3, <1>7 DEF LoadInv, ReadInOrder
  <2>2. ASSUME NEW n \in DOMAIN root', NEW m \in DOMAIN root', NEW i \in Openers(file), NEW j \in Openers(file),
               n < m, root'[n].key = file[i].name, root'[m].key = file[j].name
        PROVE  i < j
    <3>1. n \in DOMAIN root /\ root[n].key = file[i].name
      BY <1>1, <1>6, <2>2
    <3>2. CASE m \in DOMAIN root
      BY <1>6, <2>2, <3>1, <3>2 DEF LoadInv, ReadInOrder
    <3>3. CASE m = Len(root) + 1
      <4>1. j = x
        BY <1>1, <1>2, <1>3, <1>6, <2>2, <3>3, OpenersDiffer
      <4>2. i \notin Unread
        BY <3>1 DEF Unread
      <4>. QED
        BY <1>3, <4>1, <4>2 DEF LoadInv, ReadInOrder
    <3>. QED
      BY <1>6, <3>2, <3>3
  <2>. QED
    BY <1>1, <2>1, <2>2 DEF ReadInOrder
<1>11. ChildrenPassed' /\ SectionsMade' /\ SectionsInOrder' /\ Counted'
  BY <1>1, SectionsKept DEF ReadSection
<1>12. PhaseOK'
  BY <1>1 DEF ReadSection, PhaseOK
<1>. QED
  BY <1>8, <1>9, <1>10, <1>11, <1>12 DEF LoadInv

\* Steps that change the phase alone.
LEMMA PhaseStep ==
    ASSUME LoadInv, UNCHANGED <<file, root, pos, general, encryptionSections>>, PhaseOK',
           phase' \in {"sections", "loaded", "failed"},
           phase' \in {"sections", "loaded"} => phase \in {"read", "sections"} /\ Unread = {}
    PROVE  LoadInv'
<1>1. Unread' = Unread
  BY DEF Unread
<1>2. TypeOK'
  BY DEF LoadInv, TypeOK, Section
<1>3. TreeOK' /\ ReadInOrder'
  BY <1>1 DEF LoadInv, TreeOK, ReadInOrder
<1>4. ChildrenPassed' /\ SectionsMade'
  BY DEF LoadInv, ChildrenPassed, SectionsMade, Section
<1>5. SectionsInOrder' /\ Counted'
  BY DEF LoadInv, SectionsInOrder, Counted, Section
<1>. QED
  BY <1>2, <1>3, <1>4, <1>5 DEF LoadInv

LEMMA EndOfFileStep == LoadInv /\ EndOfFile => LoadInv'
<1>. SUFFICES ASSUME LoadInv, EndOfFile PROVE LoadInv'
  OBVIOUS
<1>1. PhaseOK'
  BY DEF EndOfFile, PhaseOK
<1>. QED
  BY <1>1, PhaseStep DEF EndOfFile

LEMMA ThrowStep == LoadInv /\ Throw => LoadInv'
<1>. SUFFICES ASSUME LoadInv, Throw PROVE LoadInv'
  OBVIOUS
<1>1. PhaseOK'
  BY DEF Throw, PhaseOK
<1>. QED
  BY <1>1, PhaseStep DEF Throw

-----------------------------------------------------------------------------
(* The loop over the children. *)

LEMMA AtChildFacts ==
    ASSUME LoadInv, AtChild
    PROVE  /\ phase = "sections" /\ pos \in Nat \ {0} /\ pos \in DOMAIN root
           /\ root \in Seq(Nodes(file)) /\ child \in Nodes(file) /\ child = root[pos]
           /\ \A n \in 1 .. pos : n \in DOMAIN root
BY DEF LoadInv, TypeOK, TreeOK, AtChild, child

\* A section keeps its place in the tree while the loop goes on.
LEMMA TreeKept ==
    ASSUME LoadInv, UNCHANGED <<file, root, phase>>
    PROVE  TreeOK' /\ ReadInOrder'
<1>1. Unread' = Unread
  BY DEF Unread
<1>. QED
  BY <1>1 DEF LoadInv, TreeOK, ReadInOrder

LEMMA StaticSectionStep == LoadInv /\ StaticSection => LoadInv'
<1>. SUFFICES ASSUME LoadInv, StaticSection PROVE LoadInv'
  OBVIOUS
<1>. DEFINE g == deserializeFields(child, GeneralFields)
<1>1. CASE Throw
  BY <1>1, ThrowStep
<1>2. CASE /\ general = <<>> /\ Readable(child, GeneralFields) /\ GeneralValid(g)
           /\ general' = g /\ pos' = pos + 1
           /\ UNCHANGED <<file, root, encryptionSections, phase>>
  <2>1. /\ phase = "sections" /\ pos \in Nat \ {0} /\ pos \in DOMAIN root
        /\ root \in Seq(Nodes(file)) /\ child = root[pos]
    BY AtChildFacts DEF StaticSection
  <2>2. g # <<>>
    <3>1. "milter_socket" \in DOMAIN g
      BY DEF deserializeFields, GeneralFields
    <3>. QED
      BY <3>1
  <2>10. general' = deserializeFields(root[pos], GeneralFields)
    BY <1>2, <2>1
  <2>. HIDE DEF g
  <2>3. TypeOK'
    BY <1>2, <2>1 DEF LoadInv, TypeOK, Section
  <2>4. TreeOK' /\ ReadInOrder'
    BY <1>2, TreeKept
  <2>5. ChildrenPassed'
    <3>1. IsGeneral(root[pos]) /\ Readable(root[pos], GeneralFields)
      BY <1>2, <2>1 DEF StaticSection, IsStatic, IsGeneral
    <3>2. \A n \in 1 .. pos' - 1 : n \in 1 .. pos - 1 \/ n = pos
      BY <1>2, <2>1
    \* Of the children passed before none is the general section.
    <3>3. \A n \in 1 .. pos - 1 : n \in DOMAIN root /\ n # pos
      BY <2>1
    <3>4. ASSUME NEW n \in 1 .. pos - 1 PROVE ~IsGeneral(root[n])
      BY <2>1, <3>1, <3>3, KeysDiffer DEF IsGeneral
    <3>5. ASSUME NEW n \in 1 .. pos - 1
          PROVE  IsOther(root[n]) /\ \E k \in Section : encryptionSections[k].name = root[n].key
      BY <3>4 DEF LoadInv, ChildrenPassed
    <3>. QED
      BY <1>2, <2>10, <3>1, <3>2, <3>5 DEF ChildrenPassed, Section
  <2>6. SectionsMade'
    <3>1. 1 .. pos - 1 \subseteq 1 .. pos' - 1
      BY <1>2, <2>1
    <3>. QED
      BY <1>2, <3>1 DEF LoadInv, SectionsMade, Section
  <2>7. SectionsInOrder'
    BY <1>2 DEF LoadInv, SectionsInOrder, Section
  <2>8. Counted'
    BY <1>2, <2>1, <2>2 DEF LoadInv, Counted
  <2>9. PhaseOK'
    BY <1>2, <2>1 DEF PhaseOK
  <2>. QED
    BY <2>3, <2>4, <2>5, <2>6, <2>7, <2>8, <2>9 DEF LoadInv
<1>. QED
  BY <1>1, <1>2 DEF StaticSection

LEMMA DynamicSectionStep == LoadInv /\ DynamicSection => LoadInv'
<1>. SUFFICES ASSUME LoadInv, DynamicSection PROVE LoadInv'
  OBVIOUS
<1>. DEFINE p == Lower[child.children["encryption_protocol"]]
            s == Created(child, p)
            new == Len(encryptionSections) + 1
<1>1. CASE Throw
  BY <1>1, ThrowStep
<1>2. CASE /\ p \in Protocol /\ Readable(child, Fields(p))
           /\ EncryptionValid(p, s.settings) /\ compileMatches(s.settings)
           /\ encryptionSections' = Append(encryptionSections, s)
           /\ pos' = pos + 1
           /\ UNCHANGED <<file, root, general, phase>>
  <2>1. /\ phase = "sections" /\ pos \in Nat \ {0} /\ pos \in DOMAIN root
        /\ root \in Seq(Nodes(file)) /\ child \in Nodes(file) /\ child = root[pos]
        /\ \A n \in 1 .. pos : n \in DOMAIN root
    BY AtChildFacts DEF DynamicSection
  <2>2. Accepted(root[pos], s) /\ IsOther(root[pos])
    BY <1>2, <2>1 DEF DynamicSection, IsDynamic, IsStatic, Accepted, IsOther
  <2>3. s \in Made(file)
    BY <1>2, <2>1 DEF Made
  <2>4. s.name = root[pos].key /\ s.type = p /\ DOMAIN s.settings = DOMAIN Fields(p)
    BY <2>1 DEF Created, deserializeFields
  <2>. HIDE DEF s
  <2>5. /\ encryptionSections \in Seq(Made(file)) /\ encryptionSections' \in Seq(Made(file))
        /\ Len(encryptionSections) \in Nat /\ Len(encryptionSections') = new
        /\ Section = 1 .. Len(encryptionSections) /\ Section' = Section \cup {new}
        /\ \A k \in Section : encryptionSections'[k] = encryptionSections[k]
        /\ encryptionSections'[new] = s
    BY <1>2, <2>3 DEF LoadInv, Counted, Section
  <2>6. \A n \in 1 .. pos' - 1 : n \in 1 .. pos - 1 \/ n = pos
    BY <1>2, <2>1
  <2>7. 1 .. pos - 1 \subseteq 1 .. pos' - 1 /\ pos \in 1 .. pos' - 1
    BY <1>2, <2>1
  <2>8. TypeOK'
    BY <1>2, <2>1, <2>4, <2>5 DEF LoadInv, TypeOK
  <2>9. TreeOK' /\ ReadInOrder'
    BY <1>2, TreeKept
  <2>10. ChildrenPassed'
    BY <1>2, <2>2, <2>4, <2>5, <2>6 DEF LoadInv, ChildrenPassed
  <2>11. SectionsMade'
    BY <1>2, <2>2, <2>5, <2>7 DEF LoadInv, SectionsMade
  <2>12. SectionsInOrder'
    <3>. SUFFICES ASSUME NEW k \in Section', NEW l \in Section', NEW n \in DOMAIN root, NEW m \in DOMAIN root,
                         k < l, encryptionSections'[k].name = root[n].key, encryptionSections'[l].name = root[m].key
                  PROVE  n < m
      BY <1>2 DEF SectionsInOrder
    <3>1. k \in Section
      BY <2>5
    <3>2. CASE l \in Section
      BY <2>5, <3>1, <3>2 DEF LoadInv, SectionsInOrder
    <3>3. CASE l = new
      <4>1. m = pos
        BY <2>1, <2>2, <2>4, <2>5, <3>3, KeysDiffer DEF IsOther
      <4>2. PICK o \in 1 .. pos - 1 : IsOther(root[o]) /\ Accepted(root[o], encryptionSections[k])
        BY <3>1 DEF LoadInv, SectionsMade
      <4>3. o \in DOMAIN root /\ o < pos
        BY <2>1
      <4>4. encryptionSections[k].name = root[o].key /\ root[o].type = "SECTION"
        BY <4>2 DEF Accepted, Created, IsOther
      <4>5. o = n
        BY <2>5, <3>1, <4>3, <4>4, KeysDiffer
      <4>. QED
        BY <4>1, <4>3, <4>5
    <3>. QED
      BY <2>5, <3>2, <3>3
  <2>13. Counted'
    BY <1>2, <2>1, <2>5 DEF LoadInv, Counted
  <2>14. PhaseOK'
    BY <1>2, <2>1 DEF PhaseOK
  <2>. QED
    BY <2>8, <2>9, <2>10, <2>11, <2>12, <2>13, <2>14 DEF LoadInv
<1>. QED
  BY <1>1, <1>2 DEF DynamicSection

LEMMA FinishStep == LoadInv /\ Finish => LoadInv'
<1>. SUFFICES ASSUME LoadInv, Finish PROVE LoadInv'
  OBVIOUS
<1>1. CASE Throw
  BY <1>1, ThrowStep
<1>2. CASE general # <<>> /\ CrossValid /\ phase' = "loaded" /\ UNCHANGED <<file, root, pos, general, encryptionSections>>
  <2>1. PhaseOK'
    BY <1>2 DEF Finish, PhaseOK, CrossValid
  <2>2. phase = "sections" /\ Unread = {}
    BY DEF Finish, LoadInv, TreeOK
  <2>. QED
    BY <1>2, <2>1, <2>2, PhaseStep
<1>. QED
  BY <1>1, <1>2 DEF Finish

LEMMA StutterStep == LoadInv /\ UNCHANGED vars => LoadInv'
<1>. SUFFICES ASSUME LoadInv, UNCHANGED vars PROVE LoadInv'
  OBVIOUS
<1>1. Unread' = Unread
  BY DEF Unread, vars
<1>2. TypeOK' /\ TreeOK' /\ ReadInOrder'
  BY <1>1 DEF LoadInv, TypeOK, TreeOK, ReadInOrder, vars, Section
<1>3. ChildrenPassed' /\ SectionsMade' /\ SectionsInOrder'
  BY DEF LoadInv, ChildrenPassed, SectionsMade, SectionsInOrder, Section, vars
<1>4. Counted' /\ PhaseOK'
  BY DEF LoadInv, Counted, PhaseOK, CrossValid, vars
<1>. QED
  BY <1>2, <1>3, <1>4 DEF LoadInv

\* The invariant holds at any point of a load: the step of each action keeps it.
THEOREM Invariant == Spec => []LoadInv
<1>1. Init => LoadInv
  BY InitInv
<1>2. LoadInv /\ [Next]_vars => LoadInv'
  <2>. SUFFICES ASSUME LoadInv, [Next]_vars PROVE LoadInv'
    OBVIOUS
  <2>1. CASE LoadFile
    BY <2>1, LoadFileStep
  <2>2. CASE ReadSection
    BY <2>2, ReadSectionStep
  <2>3. CASE EndOfFile
    BY <2>3, EndOfFileStep
  <2>4. CASE UnknownChild
    BY <2>4, ThrowStep DEF UnknownChild
  <2>5. CASE StaticSection
    BY <2>5, StaticSectionStep
  <2>6. CASE DynamicSection
    BY <2>6, DynamicSectionStep
  <2>7. CASE Finish
    BY <2>7, FinishStep
  <2>8. CASE Answered \/ UNCHANGED vars
    BY <2>8, StutterStep DEF Answered
  <2>. QED
    BY <2>1, <2>2, <2>3, <2>4, <2>5, <2>6, <2>7, <2>8 DEF Next
<1>. QED
  BY <1>1, <1>2, PTL DEF Spec

-----------------------------------------------------------------------------
(* What a loaded configuration has. *)

LEMMA LoadedFacts ==
    ASSUME LoadInv, Loaded
    PROVE  /\ file \in Files /\ root \in Seq(Nodes(file)) /\ Unread = {}
           /\ pos = Len(root) + 1 /\ DOMAIN root = 1 .. pos - 1
           /\ general # <<>> /\ GeneralValid(general) /\ CrossValid
           /\ Len(encryptionSections) \in Nat /\ Section = 1 .. Len(encryptionSections)
BY DEF LoadInv, Loaded, TypeOK, TreeOK, PhaseOK, Counted, Section

\* The fields every encryption section has, and what they hold.
LEMMA FieldsOfSections ==
    ASSUME NEW p \in Protocol
    PROVE  /\ "match" \in DOMAIN Fields(p) /\ Fields(p)["match"] = "list"
           /\ "encryption_protocol" \in DOMAIN Fields(p) /\ Fields(p)["encryption_protocol"] = "protocol"
           /\ p \in {"pgp", "smime"} =>
                 /\ "key_not_found_policy" \in DOMAIN Fields(p)
                 /\ Fields(p)["key_not_found_policy"] = "policy"
BY DEF Fields, Protocol, KeyFields, PdfFields, NoneFields

LEMMA UsableInv == LoadInv => UsableSections
<1>. SUFFICES ASSUME LoadInv, Loaded, NEW k \in Section PROVE
       LET s == encryptionSections[k] IN
        /\ s.type \in {"pgp", "smime"} =>
              /\ s.settings.key_not_found_policy \in Policy
              /\ s.settings.key_not_found_policy = "retrieve" => s.type = "pgp"
        /\ s.settings.encryption_protocol = s.type
        /\ s.settings.match # <<>>
        /\ \A m \in DOMAIN s.settings.match : s.settings.match[m] \in DOMAIN Regex
  BY DEF UsableSections
<1>. DEFINE s == encryptionSections[k]
<1>1. PICK n \in 1 .. pos - 1 : IsOther(root[n]) /\ Accepted(root[n], s)
  BY DEF LoadInv, SectionsMade
<1>. DEFINE node == root[n]
            p == Lower[node.children["encryption_protocol"]]
<1>2. /\ "encryption_protocol" \in DOMAIN node.children /\ p \in Protocol
      /\ s.type = p /\ s.settings = deserializeFields(node, Fields(p))
      /\ EncryptionValid(p, s.settings) /\ compileMatches(s.settings)
      /\ Readable(node, Fields(p))
  BY <1>1 DEF Accepted, Created
<1>3. s.settings["encryption_protocol"] = p
  BY <1>2, FieldsOfSections DEF deserializeFields, fromString
<1>4. ASSUME p \in {"pgp", "smime"}
      PROVE  s.settings["key_not_found_policy"] \in Policy
  <2>. DEFINE key == "key_not_found_policy"
  <2>1. key \in DOMAIN Fields(p) /\ Fields(p)[key] = "policy"
    BY <1>2, <1>4, FieldsOfSections
  <2>2. s.settings[key] # NoPolicy
    BY <1>2, <1>4 DEF EncryptionValid
  <2>3. CASE key \in DOMAIN node.children
    <3>1. Lower[node.children[key]] \in Policy
      BY <1>2, <2>1, <2>3 DEF Readable, Converts
    <3>. QED
      BY <1>2, <2>1, <2>3, <3>1 DEF deserializeFields, fromString
  <2>4. CASE key \notin DOMAIN node.children
    BY <1>2, <2>1, <2>2, <2>4 DEF deserializeFields, Default
  <2>. QED
    BY <2>3, <2>4
<1>5. s.settings.match # <<>> /\ \A m \in DOMAIN s.settings.match : s.settings.match[m] \in DOMAIN Regex
  BY <1>2 DEF EncryptionValid, compileMatches
<1>6. p = "smime" => s.settings.key_not_found_policy # "retrieve"
  BY <1>2 DEF EncryptionValid
<1>. QED
  BY <1>2, <1>3, <1>4, <1>5, <1>6

\* A section of the configuration comes from a block that opens a section of the file; the order of
\* the sections is the order of those blocks.
LEMMA OpenerOfSection ==
    ASSUME LoadInv, Loaded, NEW k \in Section
    PROVE  \E i \in Openers(file) :
              file[i].name # "general" /\ encryptionSections[k].name = file[i].name
<1>1. PICK n \in 1 .. pos - 1 : IsOther(root[n]) /\ Accepted(root[n], encryptionSections[k])
  BY DEF LoadInv, SectionsMade
<1>2. n \in DOMAIN root /\ root \in Seq(Nodes(file))
  BY LoadedFacts
<1>3. PICK i \in Openers(file) : root[n] = SectionNode(file, i)
  BY <1>1, <1>2 DEF Nodes, GlobalChild, IsOther
<1>. QED
  BY <1>1, <1>3 DEF IsOther, Accepted, Created, SectionNode

LEMMA NodeOfBlock ==
    ASSUME LoadInv, Loaded, NEW i \in Openers(file)
    PROVE  \E n \in DOMAIN root : root[n].key = file[i].name /\ root[n] = SectionNode(file, i)
<1>1. PICK n \in DOMAIN root : root[n].key = file[i].name
  BY LoadedFacts DEF Unread
<1>. QED
  BY <1>1, LoadedFacts, NodeOfOpener

LEMMA SectionOfOpener ==
    ASSUME LoadInv, Loaded, NEW i \in Openers(file), file[i].name # "general"
    PROVE  \E k \in Section : encryptionSections[k].name = file[i].name
<1>1. PICK n \in DOMAIN root : root[n].key = file[i].name
  BY NodeOfBlock
<1>2. n \in 1 .. pos - 1
  BY LoadedFacts
<1>. QED
  BY <1>1, <1>2 DEF LoadInv, ChildrenPassed, IsGeneral, IsOther

LEMMA SectionsAsInFile ==
    ASSUME LoadInv, Loaded, NEW k \in Section, NEW l \in Section,
           NEW i \in Openers(file), NEW j \in Openers(file), k < l,
           encryptionSections[k].name = file[i].name, encryptionSections[l].name = file[j].name
    PROVE  i < j
<1>1. PICK n \in DOMAIN root : root[n].key = file[i].name
  BY NodeOfBlock
<1>2. PICK m \in DOMAIN root : root[m].key = file[j].name
  BY NodeOfBlock
<1>3. n < m
  BY <1>1, <1>2 DEF LoadInv, SectionsInOrder
<1>. QED
  BY <1>1, <1>2, <1>3 DEF LoadInv, ReadInOrder

LEMMA DistinctInv == LoadInv => NamesDistinct
<1>. SUFFICES ASSUME LoadInv, Loaded, NEW k \in Section, NEW l \in Section, k # l
              PROVE  Lower[encryptionSections[k].name] # Lower[encryptionSections[l].name]
  BY DEF NamesDistinct
<1>1. PICK i \in Openers(file) : encryptionSections[k].name = file[i].name
  BY OpenerOfSection
<1>2. PICK j \in Openers(file) : encryptionSections[l].name = file[j].name
  BY OpenerOfSection
<1>3. k < l \/ l < k
  BY LoadedFacts
<1>4. i < j \/ j < i
  BY <1>1, <1>2, <1>3, SectionsAsInFile
<1>5. i # j
  BY <1>4, LoadedFacts, OpenersAreNumbers
<1>. QED
  BY <1>1, <1>2, <1>5, LoadedFacts, OpenersDiffer

\* A section has the patterns that the file gives it.
LEMMA PatternsOfSection ==
    ASSUME LoadInv, Loaded, NEW k \in Section, NEW i \in Openers(file),
           encryptionSections[k].name = file[i].name, NEW r
    PROVE  matches(encryptionSections[k], r) <=> \E q \in Patterns(i) : r \in Regex[q]
<1>1. PICK n \in 1 .. pos - 1 : IsOther(root[n]) /\ Accepted(root[n], encryptionSections[k])
  BY DEF LoadInv, SectionsMade
<1>2. root[n].key = file[i].name
  BY <1>1 DEF Accepted, Created
<1>3. root[n] = SectionNode(file, i)
  BY <1>2, LoadedFacts, NodeOfOpener
<1>. DEFINE children == Children(file, Joined(file, i))
            p == Lower[children["encryption_protocol"]]
            list == encryptionSections[k].settings["match"]
<1>4. root[n].children = children
  BY <1>3 DEF SectionNode
<1>5. p \in Protocol /\ encryptionSections[k].settings = deserializeFields(root[n], Fields(p))
  BY <1>1, <1>4 DEF Accepted, Created
<1>. HIDE DEF children, p
<1>6. list = IF "match" \in DOMAIN children THEN Tokens[children["match"]] ELSE <<>>
  BY <1>4, <1>5, FieldsOfSections DEF deserializeFields, fromString, Default
<1>7. Patterns(i) = {list[m] : m \in DOMAIN list}
  BY <1>6 DEF Patterns, children
<1>. QED
  BY <1>7 DEF matches

\* find_match takes the least of the sections that match.
LEMMA FoundSection ==
    ASSUME LoadInv, Loaded, NEW r
    PROVE  /\ find_match(r) = 0 => \A k \in Section : ~matches(encryptionSections[k], r)
           /\ find_match(r) # 0 =>
                 /\ find_match(r) \in Section /\ matches(encryptionSections[find_match(r)], r)
                 /\ \A k \in Section : matches(encryptionSections[k], r) => find_match(r) <= k
<1>. DEFINE hits == {k \in Section : matches(encryptionSections[k], r)}
<1>1. hits \in SUBSET Nat /\ 0 \notin hits
  BY LoadedFacts
<1>2. CASE hits = {}
  BY <1>2 DEF find_match
<1>3. CASE hits # {}
  <2>1. find_match(r) = Min(hits)
    BY <1>3 DEF find_match, Min
  <2>2. Min(hits) \in hits /\ \A k \in hits : Min(hits) <= k
    BY <1>1, <1>3, MinIsLeast
  <2>. QED
    BY <1>1, <2>1, <2>2
<1>. QED
  BY <1>2, <1>3

LEMMA FirstInv == LoadInv => FirstInFile
<1>. SUFFICES ASSUME LoadInv, Loaded, NEW r \in Rcpt
              PROVE  LET hits == {i \in Openers(file) : file[i].name # "general"
                                           /\ \E q \in Patterns(i) : r \in Regex[q]} IN
                     IF hits = {} THEN find_match(r) = 0
                     ELSE /\ find_match(r) # 0
                          /\ encryptionSections[find_match(r)].name
                               = file[CHOOSE i \in hits : \A j \in hits : i <= j].name
  BY DEF FirstInFile
<1>. DEFINE hits == {i \in Openers(file) : file[i].name # "general" /\ \E q \in Patterns(i) : r \in Regex[q]}
            k == find_match(r)
<1>1. hits \in SUBSET Nat
  BY LoadedFacts, OpenersAreNumbers
<1>2. ASSUME k # 0
      PROVE  \E i \in hits : encryptionSections[k].name = file[i].name /\ \A j \in hits : i <= j
  <2>1. k \in Section /\ matches(encryptionSections[k], r)
    BY <1>2, FoundSection
  <2>2. PICK i \in Openers(file) : file[i].name # "general" /\ encryptionSections[k].name = file[i].name
    BY <2>1, OpenerOfSection
  <2>3. i \in hits
    BY <2>1, <2>2, PatternsOfSection
  <2>4. ASSUME NEW j \in hits
        PROVE  i <= j
    <3>1. PICK l \in Section : encryptionSections[l].name = file[j].name
      BY SectionOfOpener
    <3>2. k <= l
      BY <1>2, <3>1, FoundSection, PatternsOfSection
    <3>3. CASE k = l
      <4>1. i = j
        BY <2>2, <3>1, <3>3, LoadedFacts, OpenersDiffer
      <4>. QED
        BY <1>1, <2>3, <4>1
    <3>4. CASE k < l
      <4>1. i < j
        BY <2>1, <2>2, <3>1, <3>4, SectionsAsInFile
      <4>. QED
        BY <1>1, <2>3, <4>1
    <3>. QED
      BY <2>1, <3>1, <3>2, <3>3, <3>4, LoadedFacts
  <2>. QED
    BY <2>2, <2>3, <2>4
<1>3. ASSUME NEW i \in hits
      PROVE  k # 0
  <2>1. PICK l \in Section : encryptionSections[l].name = file[i].name
    BY SectionOfOpener
  <2>. QED
    BY <2>1, FoundSection, PatternsOfSection
<1>. HIDE DEF k
<1>4. ASSUME hits # {}
      PROVE  encryptionSections[k].name = file[CHOOSE i \in hits : \A j \in hits : i <= j].name
  <2>1. PICK i \in hits : encryptionSections[k].name = file[i].name /\ \A j \in hits : i <= j
    BY <1>2, <1>3, <1>4
  <2>. DEFINE c == CHOOSE a \in hits : \A j \in hits : a <= j
  <2>2. c \in hits /\ \A j \in hits : c <= j
    BY <2>1
  <2>3. c = i
    BY <1>1, <2>1, <2>2
  <2>. QED
    BY <2>1, <2>3
<1>. QED
  BY <1>2, <1>3, <1>4 DEF k

LEMMA CopiesInv == LoadInv => CopiesCanLeave
<1>. SUFFICES ASSUME LoadInv, Loaded, NEW r1 \in Rcpt, NEW r2 \in Rcpt,
                     find_match(r1) # find_match(r2), find_match(r1) # 0, find_match(r2) # 0
              PROVE  general.signing_key # "" /\ general.smtp_server \in SmtpUrl
  BY DEF CopiesCanLeave
<1>1. find_match(r1) \in Section /\ find_match(r2) \in Section
  BY FoundSection
<1>2. Len(encryptionSections) > 1
  BY <1>1, LoadedFacts
<1>. QED
  BY <1>2, LoadedFacts DEF CrossValid, GeneralValid

LEMMA AsGivenInv == LoadInv => SectionsAsGiven
<1>. SUFFICES ASSUME LoadInv, Loaded PROVE SectionsAsGiven
  BY DEF SectionsAsGiven
<1>1. ~GlobalKeys(file)
  <2>. SUFFICES ASSUME GlobalKeys(file) PROVE FALSE
    OBVIOUS
  <2>1. 1 \in DOMAIN root /\ root[1] = GlobalChild
    BY DEF LoadInv, TreeOK, Loaded
  <2>2. 1 \in 1 .. pos - 1
    BY <2>1, LoadedFacts
  <2>. QED
    BY <2>1, <2>2 DEF LoadInv, ChildrenPassed, IsGeneral, IsOther, GlobalChild
<1>2. \A k \in Section : \E i \in Openers(file) : encryptionSections[k].name = file[i].name
  BY OpenerOfSection
<1>3. ASSUME NEW i \in Openers(file), file[i].name = "general"
      PROVE  LET node == SectionNode(file, i) IN
             Readable(node, GeneralFields) /\ general = deserializeFields(node, GeneralFields)
  <2>1. PICK n \in DOMAIN root : root[n].key = "general" /\ root[n] = SectionNode(file, i)
    BY <1>3, NodeOfBlock
  <2>2. n \in 1 .. pos - 1
    BY LoadedFacts
  <2>. QED
    BY <2>1, <2>2 DEF LoadInv, ChildrenPassed, IsOther
<1>4. ASSUME NEW i \in Openers(file), file[i].name # "general"
      PROVE  LET node == SectionNode(file, i) IN
             \E k \in Section : LET s == encryptionSections[k] IN
                s.name = node.key /\ Readable(node, Fields(s.type)) /\ s = Created(node, s.type)
  <2>1. PICK k \in Section : encryptionSections[k].name = file[i].name
    BY <1>4, SectionOfOpener
  <2>2. PICK n \in 1 .. pos - 1 : IsOther(root[n]) /\ Accepted(root[n], encryptionSections[k])
    BY DEF LoadInv, SectionsMade
  <2>3. n \in DOMAIN root /\ root[n].key = file[i].name
    BY <2>1, <2>2, LoadedFacts DEF Accepted, Created
  <2>4. root[n] = SectionNode(file, i)
    BY <2>3, LoadedFacts, NodeOfOpener
  <2>5. encryptionSections[k].type = Lower[root[n].children["encryption_protocol"]]
    BY <2>2 DEF Accepted, Created
  <2>6. Readable(root[n], Fields(encryptionSections[k].type))
        /\ encryptionSections[k] = Created(root[n], encryptionSections[k].type)
    BY <2>2, <2>5 DEF Accepted
  <2>7. encryptionSections[k].name = SectionNode(file, i).key
    BY <2>1 DEF SectionNode
  <2>. QED
    BY <2>4, <2>6, <2>7
<1>5. \A i \in Openers(file) : SectionNode(file, i).key = file[i].name
  BY DEF SectionNode
<1>. QED
  BY <1>1, <1>2, <1>3, <1>4, <1>5 DEF SectionsAsGiven, GlobalKeys

-----------------------------------------------------------------------------
(* Theorems. *)

\* The program has a tree, a position in it and sections of known kinds with all their fields, at any
\* point of a load (parseIniFile, deserialize<Config>).
THEOREM TypeCorrect == Spec => []TypeOK
BY Invariant, PTL DEF LoadInv

\* A loaded configuration has what the message handling relies on: a policy where a section has
\* keys, retrieve for PGP only, patterns that compiled (the sections' validate, compileMatches).
THEOREM Usable == Spec => []UsableSections
BY Invariant, UsableInv, PTL

\* No two sections of a loaded configuration have one name, which milter_message::get_context needs.
THEOREM Distinct == Spec => []NamesDistinct
BY Invariant, DistinctInv, PTL

\* find_match takes the section that opens first in the file among all that match the recipient,
\* in whichever parts, spellings and order the file has its sections (parseIniFile, find_match).
THEOREM FirstMatches == Spec => []FirstInFile
BY Invariant, FirstInv, PTL

\* A loaded configuration in which a mail can need two sections has a signing key and a server
\* for the re-injected copies (Config::validate, GeneralSection::validate).
THEOREM CopiesSignable == Spec => []CopiesCanLeave
BY Invariant, CopiesInv, PTL

\* A load that succeeds has made a section of each section SimpleIni found in the file and of nothing
\* else, with every field converted from the last value the file gives it, or else the default
\* (deserialize<Config>, deserializeFields, DynamicSectionRegistry::create).
THEOREM AsGiven == Spec => []SectionsAsGiven
BY Invariant, AsGivenInv, PTL

-----------------------------------------------------------------------------
(* Reloads. *)

CONSTANTS MaxEdits, MaxSignals
VARIABLES config_file, sent, pending, current_config_, g_config, log_config, running_, stopped,
          terminated, thread, sig, main, valid

SR == INSTANCE SignalReload WITH file <- config_file

\* SignalReload's own assumption.
Bounds == MaxEdits \in Nat /\ MaxSignals \in Nat

\* The inductive invariant: what the file holds now counts as valid when it is, and outside the
\* two stores of a reload the callbacks have what the manager has.
ReloadInv ==
    /\ SR!TypeOK
    /\ SR!ConfigOrder
    /\ config_file.kind = "valid" => config_file.version \in valid
    /\ thread # "publish" => g_config = current_config_

LEMMA InitReload == Bounds /\ SR!Init => ReloadInv
<1> SUFFICES ASSUME Bounds, SR!Init PROVE ReloadInv
    OBVIOUS
<1>1. config_file \in [version : SR!Version, kind : SR!Kind] /\ config_file.version = 0
    BY DEF Bounds, SR!Init, SR!Version, SR!Kind
<1>2. SR!ConfigOrder
    BY <1>1 DEF SR!Init, SR!ConfigOrder
<1>3. SR!TypeOK
  <2>1. 0 \in SR!Version
    BY DEF Bounds, SR!Version
  <2>2. pending = {} /\ valid = {0} /\ sent = 0
    BY DEF SR!Init
  <2>3. pending \subseteq SR!Signal /\ valid \subseteq SR!Version /\ sent \in 0 .. MaxSignals
    BY <2>1, <2>2 DEF Bounds
  <2> QED
    BY <1>1, <2>1, <2>3 DEF SR!Init, SR!TypeOK, SR!Signal
<1> QED
    BY <1>1, <1>2, <1>3 DEF SR!Init, ReloadInv

LEMMA StepReload == Bounds /\ ReloadInv /\ [SR!Next]_(SR!vars) => ReloadInv'
<1> SUFFICES ASSUME Bounds, ReloadInv, [SR!Next]_(SR!vars) PROVE ReloadInv'
    OBVIOUS
<1> USE DEF Bounds, ReloadInv, SR!TypeOK, SR!ConfigOrder, SR!Version,
            SR!operatorVars, SR!configVars
<1>1. CASE SR!EditFile
  <2>1. PICK k \in SR!Kind :
            /\ config_file' = [version |-> config_file.version + 1, kind |-> k]
            /\ valid' = IF k = "valid" THEN valid \cup {config_file.version + 1} ELSE valid
    BY <1>1 DEF SR!EditFile
  <2>2. /\ config_file'.version = config_file.version + 1 /\ config_file'.kind = k
        /\ config_file' \in [version : SR!Version, kind : SR!Kind]
    BY <1>1, <2>1 DEF SR!EditFile
  <2>3. SR!TypeOK'
    BY <1>1, <2>1, <2>2 DEF SR!EditFile
  <2>4. SR!ConfigOrder'
    BY <1>1, <2>1, <2>2 DEF SR!EditFile
  <2> QED
    BY <1>1, <2>1, <2>2, <2>3, <2>4 DEF SR!EditFile
<1>2. CASE SR!SendSignal
    BY <1>2 DEF SR!SendSignal
<1>3. CASE SR!Sigwait
    BY <1>3 DEF SR!Sigwait
<1>4. CASE SR!DispatchTeardown \/ SR!DispatchHup \/ SR!DispatchStop
    BY <1>4 DEF SR!DispatchTeardown, SR!DispatchHup, SR!DispatchStop
<1>5. CASE SR!ReloadExists
    BY <1>5 DEF SR!ReloadExists
<1>6. CASE SR!ReloadLoad
    BY <1>6 DEF SR!ReloadLoad, SR!Loadable
<1>7. CASE SR!Publish
    BY <1>7 DEF SR!Publish
<1>8. CASE SR!Relog
    BY <1>8 DEF SR!Relog
<1>9. CASE SR!SmfiMainFails \/ SR!SmfiMainStops \/ SR!LibmilterTakesSignal
    BY <1>9 DEF SR!SmfiMainFails, SR!SmfiMainStops, SR!LibmilterTakesSignal
<1>10. CASE SR!ClearRunning
    BY <1>10 DEF SR!ClearRunning
<1>11. CASE SR!Wake
    BY <1>11 DEF SR!Wake, SR!Signal
<1>12. CASE SR!Join
    BY <1>12 DEF SR!Join
<1>13. CASE SR!Gone \/ UNCHANGED SR!vars
    BY <1>13 DEF SR!Gone, SR!vars
<1> QED
    BY <1>1, <1>2, <1>3, <1>4, <1>5, <1>6, <1>7, <1>8, <1>9, <1>10, <1>11, <1>12, <1>13
    DEF SR!Next, SR!ThreadNext, SR!MainNext

\* A step of the reload can only move forward: it stores the file's version, which is no older
\* than the current one, and publishes what was stored.
LEMMA ReloadForward ==
    Bounds /\ ReloadInv /\ [SR!Next]_(SR!vars)
        => [g_config' >= g_config /\ current_config_' >= current_config_]_(SR!vars)
<1> SUFFICES ASSUME Bounds, ReloadInv, SR!Next
             PROVE  g_config' >= g_config /\ current_config_' >= current_config_
    OBVIOUS
<1> USE DEF Bounds, ReloadInv, SR!TypeOK, SR!ConfigOrder, SR!Version, SR!configVars
<1>1. CASE SR!ReloadLoad
    BY <1>1 DEF SR!ReloadLoad, SR!Loadable
<1>2. CASE SR!Publish
    BY <1>2 DEF SR!Publish
<1>3. CASE SR!Relog
    BY <1>3 DEF SR!Relog
<1>4. CASE UNCHANGED SR!configVars
    BY <1>4
<1> QED
    BY <1>1, <1>2, <1>3, <1>4
    DEF SR!Next, SR!ThreadNext, SR!MainNext, SR!EditFile, SR!SendSignal,
        SR!Sigwait, SR!DispatchTeardown, SR!DispatchHup, SR!DispatchStop,
        SR!ReloadExists, SR!SmfiMainFails, SR!SmfiMainStops,
        SR!LibmilterTakesSignal, SR!ClearRunning, SR!Wake, SR!Join,
        SR!Gone, SR!vars

\* Every variable keeps its type.
THEOREM ReloadTypeCorrect == Bounds => (SR!Spec => []SR!TypeOK)
<1> SUFFICES ASSUME Bounds PROVE SR!Spec => []SR!TypeOK
    OBVIOUS
<1>1. ReloadInv => SR!TypeOK
    BY DEF ReloadInv
<1> QED
    BY InitReload, StepReload, <1>1, PTL DEF SR!Spec

\* Only valid configurations are stored, published or logged with, in that order.
THEOREM ReloadOrder == Bounds => (SR!Spec => []SR!ConfigOrder)
<1> SUFFICES ASSUME Bounds PROVE SR!Spec => []SR!ConfigOrder
    OBVIOUS
<1>1. ReloadInv => SR!ConfigOrder
    BY DEF ReloadInv
<1> QED
    BY InitReload, StepReload, <1>1, PTL DEF SR!Spec

\* No interleaving of edits, signals and reloads brings an older configuration back.
THEOREM ReloadNeverBack == Bounds => (SR!Spec => SR!NoRollback)
<1> SUFFICES ASSUME Bounds PROVE SR!Spec => SR!NoRollback
    OBVIOUS
<1>1. ReloadInv /\ [SR!Next]_(SR!vars)
        => [g_config' >= g_config /\ current_config_' >= current_config_]_(SR!vars)
    BY ReloadForward
<1> QED
    BY InitReload, StepReload, <1>1, PTL DEF SR!Spec, SR!NoRollback
=============================================================================
