--------------------------- MODULE GatewayProofs ---------------------------
(***************************************************************************)
(* Theorems about Gateway, for any mails, recipients, sections and         *)
(* configurations, and any number of attempts, crashes, reloads and server *)
(* processes.                                                              *)
(***************************************************************************)
EXTENDS Gateway, FiniteSetTheorems, TLAPS

USE NoSectionAssumption, SettingsAssumption, WantedAssumption, BoundsAssumption

\* Names of attempts and of copies.
LEMMA AttemptFacts ==
    ASSUME NEW x \in Id
    PROVE  /\ Attempt(x) \in Id /\ Original(Attempt(x))
           /\ Attempt(x).mail = x.mail /\ Attempt(x).attempt = x.attempt
           /\ Original(x) => Attempt(x) = x
<1>1. Attempt(x) = [mail |-> x.mail, attempt |-> x.attempt, path |-> <<>>]
    BY DEF Attempt, Id
<1>2. x = [mail |-> x.mail, attempt |-> x.attempt, path |-> x.path]
    BY DEF Id
<1>3. <<>> \in Seq(Section)
    OBVIOUS
<1> QED
    BY <1>1, <1>2, <1>3 DEF Id, Original

LEMMA CopyFacts ==
    ASSUME NEW x \in Id, Original(x), NEW s \in Section
    PROVE  /\ CopyId(x, s) \in Id /\ CopyId(x, s).path = <<s>>
           /\ ~Original(CopyId(x, s)) /\ Attempt(CopyId(x, s)) = x
           /\ CopyId(x, s).path[Len(CopyId(x, s).path)] = s
<1>1. Append(<<>>, s) = <<s>> /\ <<s>> \in Seq(Section) /\ <<s>> # <<>> /\ <<s>>[Len(<<s>>)] = s
    OBVIOUS
<1>2. CopyId(x, s) = [mail |-> x.mail, attempt |-> x.attempt, path |-> <<s>>]
    BY <1>1 DEF CopyId, Id, Original
<1> QED
    BY <1>1, <1>2 DEF Id, Original, Attempt

LEMMA CopyIsCopyId ==
    ASSUME NEW x \in Id, NEW s \in Section, x.path = <<s>>
    PROVE  x = CopyId(Attempt(x), s)
<1>1. Attempt(x) = [mail |-> x.mail, attempt |-> x.attempt, path |-> <<>>]
    BY DEF Attempt, Id
<1>2. x = [mail |-> x.mail, attempt |-> x.attempt, path |-> <<s>>]
    BY DEF Id
<1>3. CopyId(Attempt(x), s) = [mail |-> x.mail, attempt |-> x.attempt, path |-> <<s>>]
    BY <1>1 DEF CopyId
<1> QED
    BY <1>2, <1>3

-----------------------------------------------------------------------------
(* The inductive invariant *)

\* The fields of a transaction agree with each other.
FieldsOK(x) ==
    LET t == session[x] IN
    /\ t.reply # "none" => t.conn = "closed"
    /\ t.conn = "connecting" => t.milter = "idle"
    /\ t.seen = "ok" => t.reply = "ok"
    /\ \A p \in t.owed : p[2] = Settings[t.config].section[p[1]]

\* An attempt is clear text until its end of message is handled; while it waits, a copy is there for
\* each section but its own; when it was accepted, every section has been served.
OriginalOK(x) ==
    LET t == session[x] IN
    Original(x) =>
        /\ t.conn = "connecting" \/ t.milter = "eom" => t.text = <<>>
        /\ t.milter = "sending" =>
              \E s \in Sections(x) :
                  /\ t.text = <<s>>
                  /\ \A u \in Sections(x) : u # s => CopyId(x, u) \in DOMAIN session
        /\ t.reply = "ok" =>
              \A s \in Sections(x) : \E d \in delivered : Attempt(d.id) = x /\ d.text = <<s>>
        /\ t.reply \in {"ok", "reject"} => t.milter = "idle"

\* A copy carries the text of its section to the recipients its attempt owes to that section, and
\* the attempt has left the states in which it could make copies or serve that section itself.
CopyOK(x) ==
    LET t == session[x]
        a == Attempt(x) IN
    ~Original(x) =>
        \E s \in Section :
            /\ x.path = <<s>> /\ t.text = <<s>>
            /\ a \in DOMAIN session /\ s \in Sections(a) /\ t.rcpts = OwedTo(a, s)
            /\ session[a].conn # "connecting" /\ session[a].milter # "eom"
            /\ session[a].reply # "reject" /\ session[a].text # <<s>>
            /\ t.milter # "sending"
            /\ t.conn = "open" => t.accepted = t.rcpts
            /\ t.reply = "ok" => \E d \in delivered : d.id = x

\* What was delivered is the text of one section, for the recipients its attempt owes to it.
DeliveredOK(d) ==
    LET t == session[d.id] IN
    /\ t.reply = "ok" /\ d.text = t.text
    /\ \E s \in Section : d.text = <<s>> /\ d.rcpts = OwedTo(Attempt(d.id), s)
    /\ \A e \in delivered : e.id = d.id => e = d

\* The attempts at a mail are numbered from 1: the next number is free.
Attempts(m) == {x \in DOMAIN session : x.mail = m /\ Original(x)}

Numbered(m) ==
    /\ IsFiniteSet(Attempts(m))
    /\ \A x \in Attempts(m) : x.attempt <= Cardinality(Attempts(m))

Inv ==
    /\ \A m \in Mail : Numbered(m)
    /\ \A x \in DOMAIN session : FieldsOK(x) /\ OriginalOK(x) /\ CopyOK(x)
    /\ \A d \in delivered : DeliveredOK(d)

LEMMA InitInv == Init => TypeOK /\ Inv
<1> SUFFICES ASSUME Init
             PROVE  TypeOK /\ Inv
    OBVIOUS
<1>1. DOMAIN session = {} /\ delivered = {}
    BY DEF Init
<1>2. \A m \in Mail : Attempts(m) = {}
    BY <1>1 DEF Attempts
<1>3. \A m \in Mail : Numbered(m)
    BY <1>2, FS_EmptySet DEF Numbered
<1>4. TypeOK
    BY <1>1 DEF Init, TypeOK
<1> QED
    BY <1>1, <1>3, <1>4 DEF Inv

\* Steps that end something: what was agreed in the envelope and what was delivered stays, callbacks
\* can only end, connections only close, and an attempt can only be deferred.
Ends(x) ==
    LET t == session[x]
        n == session'[x] IN
    /\ n.config = t.config /\ n.rcpts = t.rcpts /\ n.accepted = t.accepted /\ n.owed = t.owed
    /\ n.text = t.text
    /\ n.conn = t.conn \/ n.conn = "closed"
    /\ n.milter = t.milter \/ n.milter = "idle"
    /\ n.reply = t.reply \/ (t.conn = "open" /\ n.conn = "closed"
                               /\ n.reply \in IF Original(x) THEN {"tempfail"}
                                              ELSE {"tempfail", "reject"})
    /\ n.seen = t.seen \/ n.seen = "fail" \/ (n.seen = "ok" /\ t.reply = "ok" /\ n.reply = "ok")

LEMMA EndsInv ==
    ASSUME TypeOK, Inv, DOMAIN session' = DOMAIN session, UNCHANGED delivered,
           \A x \in DOMAIN session : Ends(x)
    PROVE  Inv'
<1>1. \A x \in DOMAIN session : Sections(x)' = Sections(x) /\ \A s : OwedTo(x, s)' = OwedTo(x, s)
    BY DEF Ends, Sections, OwedTo
<1>2. ASSUME NEW x \in DOMAIN session
      PROVE  session[x].reply = "ok" => session'[x].reply = "ok"
    BY <1>2 DEF Inv, FieldsOK, Ends
<1>3. ASSUME NEW x \in DOMAIN session
      PROVE  session'[x].reply = "ok" => session[x].reply = "ok"
    BY <1>3 DEF Ends
<1>4. ASSUME NEW x \in DOMAIN session
      PROVE  FieldsOK(x)'
    BY <1>4 DEF Inv, FieldsOK, Ends
<1>5. ASSUME NEW x \in DOMAIN session
      PROVE  OriginalOK(x)'
  <2> SUFFICES ASSUME Original(x)
               PROVE  OriginalOK(x)'
    BY DEF OriginalOK
  <2>1. OriginalOK(x) /\ FieldsOK(x) /\ Ends(x)
    BY <1>5 DEF Inv
  <2>2. session'[x].conn = "connecting" \/ session'[x].milter = "eom" => session'[x].text = <<>>
    BY <2>1 DEF OriginalOK, Ends
  <2>3. ASSUME session'[x].milter = "sending"
        PROVE  \E s \in Sections(x)' :
                   /\ session'[x].text = <<s>>
                   /\ \A u \in Sections(x)' : u # s => CopyId(x, u) \in DOMAIN session'
    <3>1. session[x].milter = "sending" /\ session'[x].text = session[x].text
      BY <2>1, <2>3 DEF Ends
    <3> QED
      BY <1>1, <1>5, <2>1, <3>1 DEF OriginalOK
  <2>4. ASSUME session'[x].reply = "ok"
        PROVE  \A s \in Sections(x)' :
                   \E d \in delivered' : Attempt(d.id) = x /\ d.text = <<s>>
    BY <1>1, <1>3, <1>5, <2>1, <2>4 DEF OriginalOK
  <2>5. session'[x].reply \in {"ok", "reject"} => session'[x].milter = "idle"
    BY <2>1 DEF OriginalOK, Ends
  <2> QED
    BY <2>2, <2>3, <2>4, <2>5 DEF OriginalOK
<1>6. ASSUME NEW x \in DOMAIN session
      PROVE  CopyOK(x)'
  <2> SUFFICES ASSUME ~Original(x)
               PROVE  CopyOK(x)'
    BY DEF CopyOK
  <2>1. CopyOK(x) /\ Ends(x)
    BY <1>6 DEF Inv
  <2>2. Attempt(x) \in DOMAIN session /\ Ends(Attempt(x))
    BY <2>1 DEF CopyOK
  <2>3. Original(Attempt(x))
    BY <1>6, AttemptFacts DEF TypeOK
  <2>4. PICK s \in Section :
            /\ x.path = <<s>> /\ session[x].text = <<s>>
            /\ s \in Sections(Attempt(x)) /\ session[x].rcpts = OwedTo(Attempt(x), s)
            /\ session[Attempt(x)].conn # "connecting" /\ session[Attempt(x)].milter # "eom"
            /\ session[Attempt(x)].reply # "reject" /\ session[Attempt(x)].text # <<s>>
            /\ session[x].milter # "sending"
            /\ session[x].conn = "open" => session[x].accepted = session[x].rcpts
            /\ session[x].reply = "ok" => \E d \in delivered : d.id = x
    BY <2>1 DEF CopyOK
  <2>5. /\ s \in Sections(Attempt(x))' /\ session'[x].rcpts = OwedTo(Attempt(x), s)'
        /\ session'[x].text = <<s>>
    BY <1>1, <2>1, <2>2, <2>4 DEF Ends
  <2>6. /\ session'[Attempt(x)].conn # "connecting" /\ session'[Attempt(x)].milter # "eom"
        /\ session'[Attempt(x)].reply # "reject" /\ session'[Attempt(x)].text # <<s>>
    BY <2>2, <2>3, <2>4 DEF Ends
  <2>7. /\ session'[x].milter # "sending"
        /\ session'[x].conn = "open" => session'[x].accepted = session'[x].rcpts
        /\ session'[x].reply = "ok" => \E d \in delivered' : d.id = x
    BY <1>3, <1>6, <2>1, <2>4 DEF Ends
  <2> QED
    BY <2>2, <2>4, <2>5, <2>6, <2>7 DEF CopyOK
<1>7. ASSUME NEW d \in delivered
      PROVE  DeliveredOK(d)'
  <2>1. d.id \in DOMAIN session /\ DeliveredOK(d)
    BY <1>7 DEF TypeOK, Inv
  <2>2. Attempt(d.id) \in DOMAIN session
    BY <2>1, AttemptFacts DEF TypeOK, Inv, CopyOK
  <2> QED
    BY <1>1, <1>2, <2>1, <2>2 DEF DeliveredOK, Ends
<1>8. \A m \in Mail : Numbered(m)'
    BY DEF Inv, Numbered, Attempts
<1> QED
    BY <1>4, <1>5, <1>6, <1>7, <1>8 DEF Inv

-----------------------------------------------------------------------------
(* What a step that changes one transaction or adds some keeps about the others *)

Grows ==
    /\ DOMAIN session \subseteq DOMAIN session'
    /\ delivered \subseteq delivered'

LEMMA KeepOriginal ==
    ASSUME Grows, NEW y \in DOMAIN session, FieldsOK(y), OriginalOK(y), session'[y] = session[y]
    PROVE  FieldsOK(y)' /\ OriginalOK(y)'
<1>1. Sections(y)' = Sections(y)
    BY DEF Sections
<1>2. FieldsOK(y)'
    BY DEF FieldsOK
<1>3. SUFFICES ASSUME Original(y)
               PROVE  OriginalOK(y)'
    BY <1>2 DEF OriginalOK
<1>4. ASSUME session[y].milter = "sending"
      PROVE  \E s \in Sections(y) :
                 /\ session[y].text = <<s>>
                 /\ \A u \in Sections(y) : u # s => CopyId(y, u) \in DOMAIN session'
    BY <1>3, <1>4 DEF OriginalOK, Grows
<1>5. ASSUME session[y].reply = "ok"
      PROVE  \A s \in Sections(y) : \E d \in delivered' : Attempt(d.id) = y /\ d.text = <<s>>
    BY <1>3, <1>5 DEF OriginalOK, Grows
<1> QED
    BY <1>1, <1>3, <1>4, <1>5 DEF OriginalOK

LEMMA KeepCopy ==
    ASSUME Grows, NEW y \in DOMAIN session, CopyOK(y), session'[y] = session[y],
           session'[Attempt(y)].owed = session[Attempt(y)].owed,
           session'[Attempt(y)].text = session[Attempt(y)].text,
           session'[Attempt(y)].conn # "connecting", session'[Attempt(y)].milter # "eom",
           session'[Attempt(y)].reply # "reject"
    PROVE  CopyOK(y)'
<1>1. Sections(Attempt(y))' = Sections(Attempt(y))
    BY DEF Sections
<1>2. \A s : OwedTo(Attempt(y), s)' = OwedTo(Attempt(y), s)
    BY DEF OwedTo
<1> SUFFICES ASSUME ~Original(y)
             PROVE  CopyOK(y)'
    BY DEF CopyOK
<1>3. PICK s \in Section :
          /\ y.path = <<s>> /\ session[y].text = <<s>>
          /\ Attempt(y) \in DOMAIN session
          /\ s \in Sections(Attempt(y)) /\ session[y].rcpts = OwedTo(Attempt(y), s)
          /\ session[Attempt(y)].text # <<s>>
          /\ session[y].milter # "sending"
          /\ session[y].conn = "open" => session[y].accepted = session[y].rcpts
          /\ session[y].reply = "ok" => \E d \in delivered : d.id = y
    BY DEF CopyOK
<1>4. session'[y].reply = "ok" => \E d \in delivered' : d.id = y
    BY <1>3 DEF Grows
<1>5. /\ Attempt(y) \in DOMAIN session'
      /\ s \in Sections(Attempt(y))' /\ session'[y].rcpts = OwedTo(Attempt(y), s)'
      /\ session'[Attempt(y)].text # <<s>>
    BY <1>1, <1>2, <1>3 DEF Grows
<1> QED
    BY <1>3, <1>4, <1>5 DEF CopyOK

LEMMA KeepDelivered ==
    ASSUME NEW d \in delivered, DeliveredOK(d), session'[d.id] = session[d.id],
           session'[Attempt(d.id)].owed = session[Attempt(d.id)].owed,
           \A e \in delivered' : e.id = d.id => e \in delivered
    PROVE  DeliveredOK(d)'
<1>1. \A s : OwedTo(Attempt(d.id), s)' = OwedTo(Attempt(d.id), s)
    BY DEF OwedTo
<1> QED
    BY <1>1 DEF DeliveredOK

\* Attempts are only added by Submit.
LEMMA KeepNumbered ==
    ASSUME Inv, NEW C, DOMAIN session' = DOMAIN session \cup C, \A y \in C : ~Original(y)
    PROVE  \A m \in Mail : Numbered(m)'
<1>1. \A m \in Mail : Attempts(m)' = Attempts(m)
    BY DEF Attempts
<1> QED
    BY <1>1 DEF Inv, Numbered

\* The parts of a transaction's name and of what is known of its attempt.
LEMMA CopyParts ==
    ASSUME TypeOK, Inv, NEW x \in DOMAIN session, ~Original(x)
    PROVE  /\ Attempt(x) \in DOMAIN session /\ Original(Attempt(x)) /\ Attempt(x) # x
           /\ session[Attempt(x)].conn # "connecting" /\ session[Attempt(x)].milter # "eom"
           /\ session[Attempt(x)].reply # "reject" /\ session[x].milter # "sending"
           /\ \E s \in Section :
                 /\ x = CopyId(Attempt(x), s) /\ session[x].text = <<s>>
                 /\ s \in Sections(Attempt(x)) /\ session[x].rcpts = OwedTo(Attempt(x), s)
                 /\ session[Attempt(x)].text # <<s>>
<1>1. x \in Id /\ Original(Attempt(x))
    BY AttemptFacts DEF TypeOK
<1>2. CopyOK(x)
    BY DEF Inv
<1> QED
    BY <1>1, <1>2, CopyIsCopyId DEF CopyOK

-----------------------------------------------------------------------------
(* The steps *)

\* A mail that is submitted is a fresh transaction that no other knows of.
LEMMA SubmitFresh ==
    ASSUME TypeOK, Inv, NEW m \in Mail, Submit(m)
    PROVE  \E n \in 1 .. MaxAttempts :
               LET x == AttemptId(m, n) IN
               /\ n = Cardinality(Attempts(m)) + 1
               /\ x \in Id /\ Original(x) /\ x \notin DOMAIN session
               /\ session' = [y \in DOMAIN session \cup {x} |->
                                 IF y = x THEN Fresh(wanted[m], <<>>) ELSE session[y]]
<1> DEFINE n == Cardinality(Attempts(m)) + 1
<1>1. IsFiniteSet(Attempts(m)) /\ \A x \in Attempts(m) : x.attempt <= Cardinality(Attempts(m))
    BY DEF Inv, Numbered
<1>2. Cardinality(Attempts(m)) \in Nat
    BY <1>1, FS_CardinalityType
<1>3. n \in 1 .. MaxAttempts
    BY <1>2 DEF Submit, Attempts
<1>4. AttemptId(m, n) = [mail |-> m, attempt |-> n, path |-> <<>>]
    BY DEF AttemptId
<1>5. <<>> \in Seq(Section)
    OBVIOUS
<1>6. AttemptId(m, n) \in Id /\ Original(AttemptId(m, n))
  <2> HIDE DEF n
  <2>1. [mail |-> m, attempt |-> n, path |-> <<>>] \in Id
    BY <1>3, <1>5 DEF Id
  <2>2. [mail |-> m, attempt |-> n, path |-> <<>>].path = <<>>
    OBVIOUS
  <2> QED
    BY <1>4, <2>1, <2>2 DEF Original
<1>7. AttemptId(m, n) \notin DOMAIN session
  <2> SUFFICES ASSUME AttemptId(m, n) \in DOMAIN session
               PROVE  FALSE
    OBVIOUS
  <2>1. AttemptId(m, n).mail = m /\ AttemptId(m, n).attempt = n
    BY <1>4
  <2>2. AttemptId(m, n) \in Attempts(m)
    BY <1>6, <2>1 DEF Attempts
  <2>3. n <= Cardinality(Attempts(m))
    BY <1>1, <2>1, <2>2
  <2> QED
    BY <1>2, <2>3
<1>8. session' = [y \in DOMAIN session \cup {AttemptId(m, n)} |->
                     IF y = AttemptId(m, n) THEN Fresh(wanted[m], <<>>) ELSE session[y]]
    BY DEF Submit, Attempts
<1> QED
    BY <1>3, <1>6, <1>7, <1>8

LEMMA SubmitInv ==
    ASSUME TypeOK, Inv, NEW m \in Mail, Submit(m)
    PROVE  Inv'
<1>1. PICK n \in 1 .. MaxAttempts :
          /\ n = Cardinality(Attempts(m)) + 1
          /\ AttemptId(m, n) \in Id /\ Original(AttemptId(m, n))
          /\ AttemptId(m, n) \notin DOMAIN session
          /\ session' = [y \in DOMAIN session \cup {AttemptId(m, n)} |->
                 IF y = AttemptId(m, n) THEN Fresh(wanted[m], <<>>) ELSE session[y]]
    BY SubmitFresh
<1> DEFINE x == AttemptId(m, n)
<1>2. x.mail = m /\ x.attempt = n
    BY DEF AttemptId
<1> HIDE DEF x
<1>3. /\ x \in Id /\ Original(x) /\ x \notin DOMAIN session
      /\ DOMAIN session' = DOMAIN session \cup {x}
      /\ session'[x] = Fresh(wanted[m], <<>>)
      /\ \A y \in DOMAIN session : session'[y] = session[y]
    BY <1>1 DEF x
<1>4. Grows /\ delivered' = delivered
    BY <1>3 DEF Grows, Submit
<1>5. Numbered(m)'
  <2>1. Attempts(m)' = Attempts(m) \cup {x} /\ x \notin Attempts(m)
    BY <1>2, <1>3 DEF Attempts
  <2>2. IsFiniteSet(Attempts(m)) /\ \A y \in Attempts(m) : y.attempt <= Cardinality(Attempts(m))
    BY DEF Inv, Numbered
  <2>3. IsFiniteSet(Attempts(m) \cup {x})
        /\ Cardinality(Attempts(m) \cup {x}) = Cardinality(Attempts(m)) + 1
        /\ Cardinality(Attempts(m)) \in Nat
    BY <2>1, <2>2, FS_AddElement, FS_CardinalityType
  <2>4. \A y \in Attempts(m) : y.attempt \in Nat
    BY DEF Attempts, TypeOK, Id
  <2>5. \A y \in Attempts(m) \cup {x} : y.attempt <= Cardinality(Attempts(m) \cup {x})
    BY <1>1, <1>2, <2>2, <2>3, <2>4
  <2> QED
    BY <2>1, <2>3, <2>5 DEF Numbered
<1>6. ASSUME NEW k \in Mail, k # m
      PROVE  Numbered(k)'
  <2>1. Attempts(k)' = Attempts(k)
    BY <1>2, <1>3, <1>6 DEF Attempts
  <2> QED
    BY <2>1 DEF Inv, Numbered
<1>7. FieldsOK(x)' /\ OriginalOK(x)' /\ CopyOK(x)'
  <2>1. /\ session'[x].reply = "none" /\ session'[x].milter = "idle" /\ session'[x].seen = "none"
        /\ session'[x].owed = {} /\ session'[x].text = <<>>
    BY <1>3 DEF Fresh
  <2> QED
    BY <1>3, <2>1 DEF FieldsOK, OriginalOK, CopyOK
<1>8. ASSUME NEW y \in DOMAIN session
      PROVE  FieldsOK(y)' /\ OriginalOK(y)' /\ CopyOK(y)'
  <2>1. FieldsOK(y)' /\ OriginalOK(y)'
    BY <1>3, <1>4, KeepOriginal DEF Inv
  <2>2. CASE Original(y)
    BY <2>1, <2>2 DEF CopyOK
  <2>3. CASE ~Original(y)
    <3>1. /\ Attempt(y) \in DOMAIN session
          /\ session[Attempt(y)].conn # "connecting" /\ session[Attempt(y)].milter # "eom"
          /\ session[Attempt(y)].reply # "reject"
      BY <2>3, CopyParts
    <3> QED
      BY <1>3, <1>4, <2>1, <3>1, KeepCopy DEF Inv
  <2> QED
    BY <2>2, <2>3
<1>9. ASSUME NEW d \in delivered
      PROVE  DeliveredOK(d)'
  <2>1. d.id \in DOMAIN session /\ DeliveredOK(d)
    BY DEF TypeOK, Inv
  <2>2. Attempt(d.id) \in DOMAIN session
    BY <2>1, AttemptFacts, CopyParts DEF TypeOK
  <2> QED
    BY <1>3, <1>4, <2>1, <2>2, KeepDelivered
<1> QED
    BY <1>3, <1>4, <1>5, <1>6, <1>7, <1>8, <1>9 DEF Inv

\* A transaction that is still connecting, or whose end of message the milter begins to handle, has
\* no copies and has served nobody.
LEMMA NoCopiesYet ==
    ASSUME TypeOK, Inv, NEW x \in DOMAIN session,
           session[x].conn = "connecting" \/ (session[x].milter = "eom" /\ session[x].conn = "open")
             \/ (session[x].milter = "eom" /\ Original(x))
    PROVE  /\ \A y \in DOMAIN session : ~Original(y) => Attempt(y) # x
           /\ \A d \in delivered : d.id # x /\ Attempt(d.id) # x
<1>1. \A y \in DOMAIN session : ~Original(y) => Attempt(y) # x
    BY CopyParts
<1>2. session[x].reply # "ok"
    BY DEF Inv, FieldsOK, OriginalOK
<1>3. \A d \in delivered : d.id # x
    BY <1>2 DEF Inv, DeliveredOK
<1>4. \A d \in delivered : Original(Attempt(d.id)) /\ (Original(d.id) => Attempt(d.id) = d.id)
    BY AttemptFacts DEF TypeOK
<1> QED
    BY <1>1, <1>3, <1>4 DEF TypeOK

\* A step that changes the transaction x and delivers at most x.
LEMMA OneChanges ==
    ASSUME TypeOK, Inv, NEW x \in DOMAIN session, DOMAIN session' = DOMAIN session,
           \A y \in DOMAIN session : y # x => session'[y] = session[y],
           delivered \subseteq delivered',
           \A d \in delivered' : d \in delivered \/ d.id = x,
           \/ /\ \A y \in DOMAIN session : ~Original(y) => Attempt(y) # x
              /\ \A d \in delivered : Attempt(d.id) # x
           \/ /\ session'[x].owed = session[x].owed /\ session'[x].text = session[x].text
              /\ session'[x].conn # "connecting" /\ session'[x].milter # "eom"
              /\ session'[x].reply # "reject",
           FieldsOK(x)', OriginalOK(x)', CopyOK(x)',
           \A d \in delivered' : d.id = x => DeliveredOK(d)'
    PROVE  Inv'
<1>1. Grows
    BY DEF Grows
<1>2. ASSUME NEW y \in DOMAIN session, y # x
      PROVE  FieldsOK(y)' /\ OriginalOK(y)'
    BY <1>1, <1>2, KeepOriginal DEF Inv
<1>3. ASSUME NEW y \in DOMAIN session, y # x
      PROVE  CopyOK(y)'
  <2>1. CASE Original(y)
    BY <2>1 DEF CopyOK
  <2>2. CASE ~Original(y)
    <3>1. /\ Attempt(y) \in DOMAIN session
          /\ session[Attempt(y)].conn # "connecting" /\ session[Attempt(y)].milter # "eom"
          /\ session[Attempt(y)].reply # "reject"
      BY <2>2, CopyParts
    <3>2. /\ session'[Attempt(y)].owed = session[Attempt(y)].owed
          /\ session'[Attempt(y)].text = session[Attempt(y)].text
          /\ session'[Attempt(y)].conn # "connecting" /\ session'[Attempt(y)].milter # "eom"
          /\ session'[Attempt(y)].reply # "reject"
      BY <2>2, <3>1
    <3> QED
      BY <1>1, <1>3, <3>2, KeepCopy DEF Inv
  <2> QED
    BY <2>1, <2>2
<1>4. ASSUME NEW d \in delivered', d.id # x
      PROVE  DeliveredOK(d)'
  <2>1. d \in delivered /\ d.id \in DOMAIN session /\ DeliveredOK(d)
    BY <1>4 DEF TypeOK, Inv
  <2>2. Attempt(d.id) \in DOMAIN session
    BY <2>1, AttemptFacts, CopyParts DEF TypeOK
  <2>3. session'[Attempt(d.id)].owed = session[Attempt(d.id)].owed
    BY <2>1, <2>2
  <2>4. \A e \in delivered' : e.id = d.id => e \in delivered
    BY <1>4
  <2> QED
    BY <1>4, <2>1, <2>3, <2>4, KeepDelivered
<1>5. \A m \in Mail : Numbered(m)'
  <2>1. \A m \in Mail : Attempts(m)' = Attempts(m)
    BY DEF Attempts
  <2> QED
    BY <2>1 DEF Inv, Numbered
<1> QED
    BY <1>2, <1>3, <1>4, <1>5 DEF Inv

\* The three outcomes of Envelope.
LEMMA EnvelopeShape ==
    ASSUME TypeOK, Inv, NEW x \in DOMAIN session, Envelope(x)
    PROVE  /\ session[x].conn = "connecting" /\ delivered' = delivered
           /\ DOMAIN session' = DOMAIN session
           /\ \A y \in DOMAIN session : y # x => session'[y] = session[y]
           /\ session'[x] \in Transaction
           /\ \A p \in session'[x].owed : p[2] = Settings[session'[x].config].section[p[1]]
           /\ session'[x].rcpts = session[x].rcpts /\ session'[x].text = session[x].text
           /\ session'[x].seen = session[x].seen
           /\ \/ /\ session'[x].conn = "closed" /\ session'[x].milter = session[x].milter
                 /\ session'[x].reply \in {"tempfail", "reject"}
              \/ /\ session'[x].conn = "open" /\ session'[x].milter = "eom"
                 /\ session'[x].reply = session[x].reply
                 /\ ~Original(x) => session'[x].accepted = session'[x].rcpts
<1>1. session[x] \in Transaction /\ x \in Id
    BY DEF TypeOK
<1>2. PICK answer \in [session[x].rcpts -> {"key", "nokey", "reject", "tempfail"}] :
          LET Given(kinds) == {r \in session[x].rcpts : answer[r] \in kinds}
              accepted == Given({"key", "nokey"})
              owed == {<<r, Settings[g_config].section[r]>> : r \in Given({"key"})}
              asked == [session[x] EXCEPT !.config = g_config, !.accepted = accepted, !.owed = owed]
          IN
          /\ \A r \in session[x].rcpts : answer[r] \in Answers(g_config, r)
          /\ \/ session' = [session EXCEPT ![x] = [asked EXCEPT
                       !.conn = "closed",
                       !.reply = IF Given({"tempfail"}) # {} THEN "tempfail" ELSE "reject"]]
             \/ session' = [session EXCEPT ![x] = [asked EXCEPT
                       !.conn = "closed", !.reply = "reject"]]
             \/ /\ Proceeds(x, accepted)
                /\ session' = [session EXCEPT ![x] = [asked EXCEPT
                       !.conn = "open", !.milter = "eom"]]
    BY DEF Envelope
<1> DEFINE acc == {r \in session[x].rcpts : answer[r] \in {"key", "nokey"}}
           keyed == {r \in session[x].rcpts : answer[r] \in {"key"}}
           owe == {<<r, Settings[g_config].section[r]>> : r \in keyed}
           asked == [session[x] EXCEPT !.config = g_config, !.accepted = acc, !.owed = owe]
<1>3. \A r \in keyed : r \in Rcpt /\ Settings[g_config].section[r] \in Section
  <2> SUFFICES ASSUME NEW r \in keyed
               PROVE  r \in Rcpt /\ Settings[g_config].section[r] \in Section
    OBVIOUS
  <2>1. r \in Rcpt
    BY <1>1 DEF Transaction
  <2>2. Settings[g_config] \in ConfigType
    BY DEF TypeOK
  <2>3. Settings[g_config].section[r] \in Section \cup {NoSection}
    BY <2>1, <2>2 DEF ConfigType
  <2>4. "key" \in Answers(g_config, r)
    BY <1>2
  <2>5. Settings[g_config].section[r] # NoSection
    BY <2>4 DEF Answers
  <2> QED
    BY <2>1, <2>3, <2>5
<1>4. /\ owe \in SUBSET (Rcpt \X Section)
      /\ \A p \in owe : p[2] = Settings[g_config].section[p[1]]
    BY <1>3
<1>5. /\ asked.config = g_config /\ asked.accepted = acc /\ asked.owed = owe
      /\ asked.rcpts = session[x].rcpts /\ asked.text = session[x].text
      /\ asked.seen = session[x].seen /\ asked.milter = session[x].milter
      /\ asked.reply = session[x].reply /\ asked \in [
            config : {g_config}, rcpts : {session[x].rcpts}, accepted : {acc}, owed : {owe},
            text : {session[x].text}, conn : {session[x].conn}, milter : {session[x].milter},
            reply : {session[x].reply}, seen : {session[x].seen}]
    BY <1>1 DEF Transaction
<1> HIDE DEF asked, acc, owe, keyed
<1>6. PICK n :
          /\ session' = [session EXCEPT ![x] = n]
          /\ \/ \E a \in {"tempfail", "reject"} : n = [asked EXCEPT !.conn = "closed", !.reply = a]
             \/ /\ Proceeds(x, acc)
                /\ n = [asked EXCEPT !.conn = "open", !.milter = "eom"]
    BY <1>2 DEF asked, acc, owe, keyed
<1>7. g_config \in Config /\ session[x].conn = "connecting" /\ delivered' = delivered
    BY DEF TypeOK, Envelope
<1>8. acc \subseteq session[x].rcpts
    BY DEF acc
<1>9. asked \in Transaction
    BY <1>1, <1>4, <1>5, <1>7, <1>8 DEF Transaction
<1>10. n \in Transaction
    BY <1>6, <1>9 DEF Transaction, Reply
<1>11. /\ n.config = g_config /\ n.accepted = acc /\ n.owed = owe
      /\ n.rcpts = session[x].rcpts /\ n.text = session[x].text /\ n.seen = session[x].seen
      /\ \/ /\ n.conn = "closed" /\ n.milter = session[x].milter
            /\ n.reply \in {"tempfail", "reject"}
         \/ /\ n.conn = "open" /\ n.milter = "eom"
            /\ n.reply = session[x].reply /\ Proceeds(x, acc)
    BY <1>5, <1>6
<1>12. /\ session'[x] = n /\ DOMAIN session' = DOMAIN session
      /\ \A y \in DOMAIN session : y # x => session'[y] = session[y]
    BY <1>6
<1> QED
    BY <1>4, <1>11, <1>12, <1>7, <1>10 DEF Proceeds

LEMMA EnvelopeInv ==
    ASSUME TypeOK, Inv, NEW x \in DOMAIN session, Envelope(x)
    PROVE  Inv'
<1>1. /\ session[x].conn = "connecting" /\ delivered' = delivered
      /\ DOMAIN session' = DOMAIN session
      /\ \A y \in DOMAIN session : y # x => session'[y] = session[y]
      /\ \A p \in session'[x].owed : p[2] = Settings[session'[x].config].section[p[1]]
      /\ session'[x].rcpts = session[x].rcpts /\ session'[x].text = session[x].text
      /\ session'[x].seen = session[x].seen
      /\ \/ /\ session'[x].conn = "closed" /\ session'[x].milter = session[x].milter
            /\ session'[x].reply \in {"tempfail", "reject"}
         \/ /\ session'[x].conn = "open" /\ session'[x].milter = "eom"
            /\ session'[x].reply = session[x].reply
            /\ ~Original(x) => session'[x].accepted = session'[x].rcpts
    BY EnvelopeShape
<1>2. FieldsOK(x) /\ OriginalOK(x) /\ CopyOK(x)
    BY DEF Inv
<1>3. session[x].milter = "idle" /\ session[x].reply = "none" /\ session[x].seen # "ok"
  <2>1. session[x].reply \in {"none", "ok", "reject", "tempfail"}
    BY DEF TypeOK, Transaction, Reply
  <2> QED
    BY <1>1, <1>2, <2>1 DEF FieldsOK
<1>4. /\ \A y \in DOMAIN session : ~Original(y) => Attempt(y) # x
      /\ \A d \in delivered : d.id # x /\ Attempt(d.id) # x
    BY <1>1, NoCopiesYet
<1>5. FieldsOK(x)'
    BY <1>1, <1>3 DEF FieldsOK
<1>6. OriginalOK(x)'
    BY <1>1, <1>2, <1>3 DEF OriginalOK
<1>7. CopyOK(x)'
  <2> SUFFICES ASSUME ~Original(x)
               PROVE  CopyOK(x)'
    BY DEF CopyOK
  <2>1. /\ Attempt(x) \in DOMAIN session /\ Attempt(x) # x
        /\ session[Attempt(x)].conn # "connecting" /\ session[Attempt(x)].milter # "eom"
        /\ session[Attempt(x)].reply # "reject"
    BY CopyParts
  <2>2. PICK s \in Section :
            /\ x.path = <<s>> /\ session[x].text = <<s>>
            /\ s \in Sections(Attempt(x)) /\ session[x].rcpts = OwedTo(Attempt(x), s)
            /\ session[Attempt(x)].text # <<s>>
    BY <1>2 DEF CopyOK
  <2>3. session'[Attempt(x)] = session[Attempt(x)]
    BY <1>1, <2>1
  <2>4. s \in Sections(Attempt(x))' /\ session'[x].rcpts = OwedTo(Attempt(x), s)'
    BY <1>1, <2>2, <2>3 DEF Sections, OwedTo
  <2>5. session'[x].milter # "sending" /\ session'[x].reply # "ok"
        /\ (session'[x].conn = "open" => session'[x].accepted = session'[x].rcpts)
    BY <1>1, <1>3
  <2> QED
    BY <1>1, <2>1, <2>2, <2>3, <2>4, <2>5 DEF CopyOK
<1> QED
    BY <1>1, <1>4, <1>5, <1>6, <1>7, OneChanges

\* What Answer does, by whether the MTA still waits for it.
LEMMA AnswerShape ==
    ASSUME TypeOK, NEW x \in DOMAIN session, NEW t \in Transaction, NEW reply \in Reply,
           NEW rcpts, Answer(x, t, reply, rcpts)
    PROVE  /\ DOMAIN session' = DOMAIN session
           /\ \A y \in DOMAIN session : y # x => session'[y] = session[y]
           /\ session'[x] \in Transaction
           /\ session'[x].config = t.config /\ session'[x].rcpts = t.rcpts
           /\ session'[x].accepted = t.accepted /\ session'[x].owed = t.owed
           /\ session'[x].text = t.text /\ session'[x].seen = t.seen
           /\ session'[x].milter = "idle"
           /\ IF t.conn = "open" THEN session'[x].conn = "closed" /\ session'[x].reply = reply
              ELSE session'[x].conn = t.conn /\ session'[x].reply = t.reply
           /\ delivered' = IF t.conn = "open" /\ reply = "ok"
                           THEN delivered \cup {[id |-> x, rcpts |-> rcpts, text |-> t.text]}
                           ELSE delivered
<1> DEFINE n == IF t.conn = "open"
                THEN [t EXCEPT !.milter = "idle", !.conn = "closed", !.reply = reply]
                ELSE [t EXCEPT !.milter = "idle"]
<1>1. session' = [session EXCEPT ![x] = n]
    BY DEF Answer
<1>2. /\ n \in Transaction /\ n.config = t.config /\ n.rcpts = t.rcpts
      /\ n.accepted = t.accepted /\ n.owed = t.owed /\ n.text = t.text /\ n.seen = t.seen
      /\ n.milter = "idle"
      /\ IF t.conn = "open" THEN n.conn = "closed" /\ n.reply = reply
         ELSE n.conn = t.conn /\ n.reply = t.reply
    BY DEF Transaction
<1>3. delivered' = IF t.conn = "open" /\ reply = "ok"
                   THEN delivered \cup {[id |-> x, rcpts |-> rcpts, text |-> t.text]}
                   ELSE delivered
    BY DEF Answer
<1> HIDE DEF n
<1>4. /\ session'[x] = n /\ DOMAIN session' = DOMAIN session
      /\ \A y \in DOMAIN session : y # x => session'[y] = session[y]
    BY <1>1
<1> QED
    BY <1>2, <1>3, <1>4

\* An answer that defers, that comes too late, or that refuses a copy, only ends something.
LEMMA SoftAnswerInv ==
    ASSUME TypeOK, Inv, NEW x \in DOMAIN session, NEW reply \in Reply, NEW rcpts,
           Answer(x, session[x], reply, rcpts),
           \/ session[x].conn # "open" \/ reply = "tempfail" \/ (reply = "reject" /\ ~Original(x))
    PROVE  Inv'
<1>1. session[x] \in Transaction
    BY DEF TypeOK
<1>2. DOMAIN session' = DOMAIN session /\ delivered' = delivered
    BY <1>1, AnswerShape
<1>3. ASSUME NEW y \in DOMAIN session
      PROVE  Ends(y)
  <2>1. CASE y = x
    BY <1>1, <2>1, AnswerShape DEF Ends
  <2>2. CASE y # x
    BY <1>1, <2>2, AnswerShape DEF Ends
  <2> QED
    BY <2>1, <2>2
<1> QED
    BY <1>2, <1>3, EndsInv

LEMMA EomPassInv ==
    ASSUME TypeOK, Inv, NEW x \in DOMAIN session, EomPass(x)
    PROVE  Inv'
<1>1. /\ session[x] \in Transaction /\ "ok" \in Reply /\ ~Original(x) /\ session[x].milter = "eom"
      /\ Answer(x, session[x], "ok", session[x].accepted)
    BY DEF EomPass, AtEom, Signed, TypeOK, Reply
<1>2. CASE session[x].conn # "open"
    BY <1>1, <1>2, SoftAnswerInv
<1>3. CASE session[x].conn = "open"
  <2> DEFINE new == [id |-> x, rcpts |-> session[x].accepted, text |-> session[x].text]
  <2>1. /\ DOMAIN session' = DOMAIN session
        /\ \A y \in DOMAIN session : y # x => session'[y] = session[y]
        /\ session'[x].config = session[x].config /\ session'[x].rcpts = session[x].rcpts
        /\ session'[x].owed = session[x].owed /\ session'[x].text = session[x].text
        /\ session'[x].milter = "idle" /\ session'[x].conn = "closed"
        /\ session'[x].reply = "ok" /\ session'[x].seen = session[x].seen
        /\ delivered' = delivered \cup {new}
    BY <1>1, <1>3, AnswerShape
  <2>2. new.id = x /\ new.rcpts = session[x].accepted /\ new.text = session[x].text
    OBVIOUS
  <2> HIDE DEF new
  <2>3. FieldsOK(x) /\ CopyOK(x)
    BY DEF Inv
  <2>4. /\ \A y \in DOMAIN session : ~Original(y) => Attempt(y) # x
        /\ \A d \in delivered : d.id # x /\ Attempt(d.id) # x
    BY <1>1, <1>3, NoCopiesYet
  <2>5. PICK s \in Section :
            /\ x.path = <<s>> /\ session[x].text = <<s>>
            /\ Attempt(x) \in DOMAIN session /\ s \in Sections(Attempt(x))
            /\ session[x].rcpts = OwedTo(Attempt(x), s)
            /\ session[Attempt(x)].conn # "connecting" /\ session[Attempt(x)].milter # "eom"
            /\ session[Attempt(x)].reply # "reject" /\ session[Attempt(x)].text # <<s>>
            /\ session[x].accepted = session[x].rcpts
    BY <1>1, <1>3, <2>3 DEF CopyOK
  <2>6. Attempt(x) # x /\ session'[Attempt(x)] = session[Attempt(x)]
    BY <1>1, <2>1, <2>5, CopyParts
  <2>7. /\ s \in Sections(Attempt(x))' /\ OwedTo(Attempt(x), s)' = OwedTo(Attempt(x), s)
    BY <2>5, <2>6 DEF Sections, OwedTo
  <2>8. FieldsOK(x)' /\ OriginalOK(x)'
    BY <1>1, <2>1, <2>3 DEF FieldsOK, OriginalOK
  <2>9. CopyOK(x)'
    BY <2>1, <2>2, <2>5, <2>6, <2>7 DEF CopyOK
  <2>10. ASSUME NEW d \in delivered', d.id = x
         PROVE  DeliveredOK(d)'
    <3>1. d = new
      BY <2>1, <2>4, <2>10
    <3> QED
      BY <2>1, <2>2, <2>4, <2>5, <2>7, <3>1 DEF DeliveredOK
  <2>11. delivered \subseteq delivered' /\ \A d \in delivered' : d \in delivered \/ d.id = x
    BY <2>1, <2>2
  <2> QED
    BY <2>1, <2>4, <2>8, <2>9, <2>10, <2>11, OneChanges
<1> QED
    BY <1>2, <1>3

LEMMA EncryptedFacts ==
    ASSUME NEW x \in DOMAIN session, session[x] \in Transaction, session[x].text = <<>>,
           NEW s \in Section
    PROVE  /\ Encrypted(x, s) \in Transaction
           /\ Encrypted(x, s).config = session[x].config
           /\ Encrypted(x, s).rcpts = session[x].rcpts
           /\ Encrypted(x, s).accepted = session[x].accepted
           /\ Encrypted(x, s).owed = session[x].owed /\ Encrypted(x, s).text = <<s>>
           /\ Encrypted(x, s).conn = session[x].conn /\ Encrypted(x, s).milter = session[x].milter
           /\ Encrypted(x, s).reply = session[x].reply /\ Encrypted(x, s).seen = session[x].seen
<1>1. Append(session[x].text, s) = <<s>> /\ <<s>> \in Seq(Section)
    OBVIOUS
<1>2. Encrypted(x, s) = [session[x] EXCEPT !.text = <<s>>]
    BY <1>1 DEF Encrypted
<1> QED
    BY <1>1, <1>2 DEF Transaction

LEMMA EomReplaceInv ==
    ASSUME TypeOK, Inv, NEW x \in DOMAIN session, NEW s \in Section, EomReplace(x, s)
    PROVE  Inv'
<1>1. /\ session[x] \in Transaction /\ "ok" \in Reply /\ Original(x) /\ session[x].milter = "eom"
      /\ Sections(x) = {s}
      /\ Answer(x, Encrypted(x, s), "ok", OwedTo(x, s))
    BY DEF EomReplace, AtEom, Signed, TypeOK, Reply
<1>2. FieldsOK(x) /\ OriginalOK(x) /\ session[x].text = <<>> /\ session[x].conn # "connecting"
      /\ session[x].reply \notin {"ok", "reject"} /\ session[x].seen # "ok"
    BY <1>1 DEF Inv, OriginalOK, FieldsOK
<1> DEFINE t == Encrypted(x, s)
           new == [id |-> x, rcpts |-> OwedTo(x, s), text |-> t.text]
<1>3. /\ t \in Transaction /\ t.config = session[x].config /\ t.rcpts = session[x].rcpts
      /\ t.owed = session[x].owed /\ t.text = <<s>> /\ t.conn = session[x].conn
      /\ t.reply = session[x].reply /\ t.seen = session[x].seen
    BY <1>1, <1>2, EncryptedFacts
<1>4. Answer(x, t, "ok", OwedTo(x, s))
    BY <1>1
<1>5. new.id = x /\ new.rcpts = OwedTo(x, s) /\ new.text = <<s>>
    BY <1>3
<1> HIDE DEF t
<1>6. /\ DOMAIN session' = DOMAIN session
      /\ \A y \in DOMAIN session : y # x => session'[y] = session[y]
      /\ session'[x].config = session[x].config
      /\ session'[x].owed = session[x].owed /\ session'[x].text = <<s>>
      /\ session'[x].milter = "idle" /\ session'[x].seen = session[x].seen
      /\ IF session[x].conn = "open" THEN session'[x].conn = "closed" /\ session'[x].reply = "ok"
         ELSE session'[x].conn = session[x].conn /\ session'[x].reply = session[x].reply
      /\ delivered' = IF session[x].conn = "open" THEN delivered \cup {new} ELSE delivered
  <2> DEFINE reply == "ok"
             rcpts == OwedTo(x, s)
  <2>1. reply \in Reply /\ Answer(x, t, reply, rcpts)
    BY <1>1, <1>4
  <2>2. new = [id |-> x, rcpts |-> rcpts, text |-> t.text]
    OBVIOUS
  <2> HIDE DEF new, rcpts
  <2>3. /\ DOMAIN session' = DOMAIN session
        /\ \A y \in DOMAIN session : y # x => session'[y] = session[y]
        /\ session'[x].config = t.config /\ session'[x].owed = t.owed
        /\ session'[x].text = t.text /\ session'[x].seen = t.seen /\ session'[x].milter = "idle"
        /\ IF t.conn = "open" THEN session'[x].conn = "closed" /\ session'[x].reply = reply
           ELSE session'[x].conn = t.conn /\ session'[x].reply = t.reply
        /\ delivered' = IF t.conn = "open" /\ reply = "ok"
                        THEN delivered \cup {[id |-> x, rcpts |-> rcpts, text |-> t.text]}
                        ELSE delivered
    BY <1>3, <2>1, AnswerShape
  <2> QED
    BY <1>3, <2>2, <2>3
<1> HIDE DEF new
<1>7. /\ \A y \in DOMAIN session : ~Original(y) => Attempt(y) # x
      /\ \A d \in delivered : d.id # x /\ Attempt(d.id) # x
    BY <1>1, NoCopiesYet
<1>8. Sections(x)' = {s} /\ OwedTo(x, s)' = OwedTo(x, s)
    BY <1>1, <1>6 DEF Sections, OwedTo
<1>9. x \in Id /\ Attempt(x) = x
    BY <1>1, AttemptFacts DEF TypeOK
<1>10. FieldsOK(x)'
    BY <1>2, <1>6 DEF FieldsOK
<1>11. OriginalOK(x)'
  <2>1. session'[x].conn # "connecting" /\ session'[x].milter = "idle"
    BY <1>2, <1>6
  <2>2. ASSUME session'[x].reply = "ok"
        PROVE  \A u \in Sections(x)' : \E d \in delivered' : Attempt(d.id) = x /\ d.text = <<u>>
    <3>1. new \in delivered'
      BY <1>2, <1>6, <2>2
    <3> QED
      BY <1>5, <1>8, <1>9, <3>1
  <2> QED
    BY <2>1, <2>2 DEF OriginalOK
<1>12. CopyOK(x)'
    BY <1>1 DEF CopyOK
<1>13. ASSUME NEW d \in delivered', d.id = x
       PROVE  DeliveredOK(d)'
  <2>1. d = new /\ session[x].conn = "open"
    BY <1>6, <1>7, <1>13
  <2> QED
    BY <1>5, <1>6, <1>7, <1>8, <1>9, <2>1 DEF DeliveredOK
<1>14. delivered \subseteq delivered' /\ \A d \in delivered' : d \in delivered \/ d.id = x
    BY <1>5, <1>6
<1> QED
    BY <1>6, <1>7, <1>10, <1>11, <1>12, <1>13, <1>14, OneChanges

LEMMA SendingEndsInv ==
    ASSUME TypeOK, Inv, NEW x \in DOMAIN session, SendingEnds(x)
    PROVE  Inv'
<1>1. /\ session[x] \in Transaction /\ "ok" \in Reply /\ "tempfail" \in Reply
      /\ session[x].milter = "sending" /\ Original(x) /\ x \in Id /\ Attempt(x) = x
    BY CopyParts, AttemptFacts DEF SendingEnds, TypeOK, Reply
<1>2. FieldsOK(x) /\ OriginalOK(x) /\ session[x].conn # "connecting"
      /\ session[x].reply \notin {"ok", "reject"} /\ session[x].seen # "ok"
    BY <1>1 DEF Inv, OriginalOK, FieldsOK
<1>3. PICK s \in Sections(x) :
          /\ session[x].text[Len(session[x].text)] = s
          /\ IF \A y \in CopiesOf(x) : session[y].seen = "ok"
             THEN Answer(x, session[x], "ok", OwedTo(x, s))
             ELSE Answer(x, session[x], "tempfail", {})
    BY DEF SendingEnds
<1>4. /\ session[x].text = <<s>>
      /\ \A u \in Sections(x) : u # s => CopyId(x, u) \in DOMAIN session
  <2>1. PICK u \in Sections(x) :
            /\ session[x].text = <<u>>
            /\ \A v \in Sections(x) : v # u => CopyId(x, v) \in DOMAIN session
    BY <1>1, <1>2 DEF OriginalOK
  <2>2. u = s
    BY <1>3, <2>1
  <2> QED
    BY <2>1, <2>2
<1>5. Sections(x) \subseteq Section
    BY <1>1 DEF Sections, Transaction
<1>6. CASE session[x].conn # "open" \/ ~(\A y \in CopiesOf(x) : session[y].seen = "ok")
  <2>1. CASE \A y \in CopiesOf(x) : session[y].seen = "ok"
    BY <1>1, <1>3, <1>6, <2>1, SoftAnswerInv
  <2>2. CASE ~(\A y \in CopiesOf(x) : session[y].seen = "ok")
    BY <1>1, <1>3, <2>2, SoftAnswerInv
  <2> QED
    BY <2>1, <2>2
<1>7. CASE session[x].conn = "open" /\ \A y \in CopiesOf(x) : session[y].seen = "ok"
  <2> DEFINE rcpts == OwedTo(x, s)
             new == [id |-> x, rcpts |-> rcpts, text |-> session[x].text]
  <2>1. Answer(x, session[x], "ok", rcpts)
    BY <1>3, <1>7
  <2> HIDE DEF rcpts
  <2>2. /\ DOMAIN session' = DOMAIN session
        /\ \A y \in DOMAIN session : y # x => session'[y] = session[y]
        /\ session'[x].config = session[x].config /\ session'[x].owed = session[x].owed
        /\ session'[x].text = session[x].text /\ session'[x].seen = session[x].seen
        /\ session'[x].milter = "idle" /\ session'[x].conn = "closed"
        /\ session'[x].reply = "ok" /\ delivered' = delivered \cup {new}
    BY <1>1, <1>7, <2>1, AnswerShape
  <2>3. new.id = x /\ new.rcpts = OwedTo(x, s) /\ new.text = <<s>>
    BY <1>4 DEF rcpts
  <2> HIDE DEF new
  <2>4. Sections(x)' = Sections(x) /\ OwedTo(x, s)' = OwedTo(x, s)
    BY <2>2 DEF Sections, OwedTo
  <2>5. \A d \in delivered : d.id # x
    BY <1>2 DEF Inv, DeliveredOK
  <2>6. FieldsOK(x)'
    BY <1>2, <2>2 DEF FieldsOK
  <2>7. ASSUME NEW u \in Sections(x)
        PROVE  \E d \in delivered' : Attempt(d.id) = x /\ d.text = <<u>>
    <3>1. CASE u = s
      BY <1>1, <2>2, <2>3, <3>1
    <3>2. CASE u # s
      <4> DEFINE y == CopyId(x, u)
      <4>1. y \in DOMAIN session /\ y \in CopiesOf(x) /\ u \in Section
        BY <1>4, <1>5, <2>7, <3>2 DEF CopiesOf
      <4>2. ~Original(y) /\ Attempt(y) = x /\ y.path = <<u>>
        BY <1>1, <4>1, CopyFacts
      <4> HIDE DEF y
      <4>3. session[y].reply = "ok"
        BY <1>7, <4>1 DEF Inv, FieldsOK
      <4>4. CopyOK(y)
        BY <4>1 DEF Inv
      <4>5. PICK v \in Section :
                /\ y.path = <<v>> /\ session[y].text = <<v>>
                /\ session[y].reply = "ok" => \E d \in delivered : d.id = y
        BY <4>2, <4>4 DEF CopyOK
      <4>6. session[y].text = <<u>>
        BY <4>2, <4>5
      <4>7. PICK d \in delivered : d.id = y
        BY <4>3, <4>5
      <4>8. d.text = <<u>>
        BY <4>6, <4>7 DEF Inv, DeliveredOK
      <4> QED
        BY <2>2, <4>2, <4>7, <4>8
    <3> QED
      BY <3>1, <3>2
  <2>8. OriginalOK(x)'
    BY <2>2, <2>4, <2>7 DEF OriginalOK
  <2>9. CopyOK(x)'
    BY <1>1 DEF CopyOK
  <2>10. ASSUME NEW d \in delivered', d.id = x
         PROVE  DeliveredOK(d)'
    <3>1. d = new
      BY <2>2, <2>5, <2>10
    <3> QED
      BY <1>1, <1>4, <1>5, <2>2, <2>3, <2>4, <2>5, <3>1 DEF DeliveredOK
  <2>11. delivered \subseteq delivered' /\ \A d \in delivered' : d \in delivered \/ d.id = x
    BY <2>2, <2>3
  <2> QED
    BY <2>2, <2>6, <2>8, <2>9, <2>10, <2>11, OneChanges
<1> QED
    BY <1>6, <1>7

\* The steps that only end something.
LEMMA EomThrowInv ==
    ASSUME TypeOK, Inv, NEW x \in DOMAIN session, EomThrow(x) \/ EomRefuse(x)
    PROVE  Inv'
<1>1. CASE EomThrow(x)
    BY <1>1, SoftAnswerInv DEF EomThrow, Reply
<1>2. CASE EomRefuse(x)
    BY <1>2, SoftAnswerInv DEF EomRefuse, Signed, Reply
<1> QED
    BY <1>1, <1>2

LEMMA TransferInv ==
    ASSUME TypeOK, Inv, NEW x \in DOMAIN session, NEW y \in CopiesOf(x),
           TransferEnds(x, y) \/ TransferBreaks(x, y)
    PROVE  Inv'
<1>1. y \in DOMAIN session /\ session[y] \in Transaction
    BY DEF CopiesOf, TypeOK
<1>2. DOMAIN session' = DOMAIN session /\ UNCHANGED delivered
    BY DEF TransferEnds, TransferBreaks
<1>3. Ends(y)
  <2>1. CASE TransferEnds(x, y)
    BY <1>1, <2>1 DEF TransferEnds, Transaction, Ends
  <2>2. CASE TransferBreaks(x, y)
    BY <1>1, <2>2 DEF TransferBreaks, Left, Transaction, Ends
  <2> QED
    BY <2>1, <2>2
<1>4. ASSUME NEW z \in DOMAIN session, z # y
      PROVE  Ends(z)
  <2>1. session'[z] = session[z]
    BY <1>1, <1>4 DEF TransferEnds, TransferBreaks
  <2> QED
    BY <2>1 DEF Ends
<1> QED
    BY <1>2, <1>3, <1>4, EndsInv

LEMMA MtaGivesUpInv ==
    ASSUME TypeOK, Inv, NEW x \in DOMAIN session, MtaGivesUp(x)
    PROVE  Inv'
<1>1. session[x] \in Transaction
    BY DEF TypeOK
<1>2. DOMAIN session' = DOMAIN session /\ UNCHANGED delivered
    BY DEF MtaGivesUp
<1>3. Ends(x)
    BY <1>1 DEF MtaGivesUp, Transaction, Ends
<1>4. ASSUME NEW z \in DOMAIN session, z # x
      PROVE  Ends(z)
  <2>1. session'[z] = session[z]
    BY <1>4 DEF MtaGivesUp
  <2> QED
    BY <2>1 DEF Ends
<1> QED
    BY <1>2, <1>3, <1>4, EndsInv

\* What Crash makes of a transaction.
AfterCrash(x) ==
    LET t == session[x]
        cut == IF t.conn = "open" THEN [t EXCEPT !.conn = "closed", !.reply = "tempfail"] ELSE t
    IN [(IF ~Original(x) /\ t.seen = "none" THEN Left(cut) ELSE cut) EXCEPT !.milter = "idle"]

LEMMA AfterCrashFacts ==
    ASSUME NEW x, session[x] \in Transaction
    PROVE  LET t == session[x]
               n == AfterCrash(x) IN
           /\ n \in Transaction
           /\ n.config = t.config /\ n.rcpts = t.rcpts /\ n.accepted = t.accepted
           /\ n.owed = t.owed /\ n.text = t.text /\ n.milter = "idle"
           /\ n.conn = t.conn \/ n.conn = "closed"
           /\ n.reply = t.reply \/ (t.conn = "open" /\ n.conn = "closed" /\ n.reply = "tempfail")
           /\ n.seen = t.seen \/ n.seen = "fail"
<1> DEFINE t == session[x]
           cut == IF t.conn = "open" THEN [t EXCEPT !.conn = "closed", !.reply = "tempfail"] ELSE t
           left == IF ~Original(x) /\ t.seen = "none" THEN Left(cut) ELSE cut
           n == [left EXCEPT !.milter = "idle"]
<1>1. /\ cut \in Transaction
      /\ cut.config = t.config /\ cut.rcpts = t.rcpts /\ cut.accepted = t.accepted
      /\ cut.owed = t.owed /\ cut.text = t.text /\ cut.milter = t.milter /\ cut.seen = t.seen
      /\ cut.conn = t.conn \/ cut.conn = "closed"
      /\ cut.reply = t.reply \/ (t.conn = "open" /\ cut.conn = "closed" /\ cut.reply = "tempfail")
    BY DEF Transaction, Reply
<1>2. AfterCrash(x) = n
    BY DEF AfterCrash
<1> HIDE DEF t, cut
<1>3. /\ left \in Transaction
      /\ left.config = cut.config /\ left.rcpts = cut.rcpts /\ left.accepted = cut.accepted
      /\ left.owed = cut.owed /\ left.text = cut.text /\ left.reply = cut.reply
      /\ left.conn = cut.conn \/ left.conn = "closed"
      /\ left.seen = cut.seen \/ left.seen = "fail"
    BY <1>1 DEF Left, Transaction
<1> HIDE DEF left
<1>4. /\ n \in Transaction
      /\ n.config = left.config /\ n.rcpts = left.rcpts /\ n.accepted = left.accepted
      /\ n.owed = left.owed /\ n.text = left.text /\ n.reply = left.reply
      /\ n.conn = left.conn /\ n.seen = left.seen /\ n.milter = "idle"
    BY <1>3 DEF Transaction
<1> HIDE DEF n
<1> QED
    BY <1>1, <1>2, <1>3, <1>4 DEF t

LEMMA CrashInv ==
    ASSUME TypeOK, Inv, Crash
    PROVE  Inv'
<1>1. DOMAIN session' = DOMAIN session /\ UNCHANGED delivered
    BY DEF Crash
<1>2. ASSUME NEW x \in DOMAIN session
      PROVE  Ends(x)
  <2>1. session[x] \in Transaction
    BY DEF TypeOK
  <2>2. session'[x] = AfterCrash(x)
    BY DEF Crash, AfterCrash
  <2> QED
    BY <2>1, <2>2, AfterCrashFacts DEF Ends
<1> QED
    BY <1>1, <1>2, EndsInv

\* What EomReinject makes of the attempt, and the copies it adds.
LEMMA ReinjectShape ==
    ASSUME TypeOK, Inv, NEW x \in DOMAIN session, NEW s \in Section, EomReinject(x, s)
    PROVE  LET copies == {CopyId(x, t) : t \in Sections(x) \ {s}} IN
           /\ session[x] \in Transaction /\ Original(x) /\ x \in Id
           /\ session[x].milter = "eom" /\ session[x].text = <<>>
           /\ s \in Sections(x) /\ Sections(x) \subseteq Section
           /\ copies \cap DOMAIN session = {}
           /\ DOMAIN session' = DOMAIN session \cup copies
           /\ \A y \in DOMAIN session : y # x => session'[y] = session[y]
           /\ session'[x] = [Encrypted(x, s) EXCEPT !.milter = "sending"]
           /\ \A t \in Sections(x) \ {s} :
                 session'[CopyId(x, t)] = Fresh(OwedTo(x, t), <<t>>)
           /\ UNCHANGED delivered
<1> DEFINE copies == {CopyId(x, t) : t \in Sections(x) \ {s}}
<1>1. /\ session[x] \in Transaction /\ Original(x) /\ x \in Id /\ session[x].milter = "eom"
      /\ s \in Sections(x)
    BY DEF TypeOK, EomReinject, AtEom, Signed
<1>2. session[x].text = <<>>
    BY <1>1 DEF Inv, OriginalOK
<1>3. Sections(x) \subseteq Section
    BY <1>1 DEF Sections, Transaction
<1>4. copies \cap DOMAIN session = {}
  <2> SUFFICES ASSUME NEW t \in Sections(x), CopyId(x, t) \in DOMAIN session
               PROVE  FALSE
    OBVIOUS
  <2>1. ~Original(CopyId(x, t)) /\ Attempt(CopyId(x, t)) = x
    BY <1>1, <1>3, CopyFacts
  <2> QED
    BY <1>1, <2>1, NoCopiesYet
<1>5. session' = [y \in DOMAIN session \cup copies |->
           IF y \in copies
           THEN Fresh(OwedTo(x, y.path[Len(y.path)]), Append(session[x].text, y.path[Len(y.path)]))
           ELSE IF y = x THEN [Encrypted(x, s) EXCEPT !.milter = "sending"] ELSE session[y]]
    BY DEF EomReinject
<1>6. ASSUME NEW t \in Sections(x) \ {s}
      PROVE  session'[CopyId(x, t)] = Fresh(OwedTo(x, t), <<t>>)
  <2>1. CopyId(x, t) \in copies /\ CopyId(x, t).path[Len(CopyId(x, t).path)] = t
    BY <1>1, <1>3, CopyFacts
  <2>2. Append(session[x].text, t) = <<t>>
    BY <1>2
  <2> HIDE DEF copies
  <2> QED
    BY <1>5, <2>1, <2>2
<1>7. /\ DOMAIN session' = DOMAIN session \cup copies
      /\ \A y \in DOMAIN session : y # x => session'[y] = session[y]
      /\ session'[x] = [Encrypted(x, s) EXCEPT !.milter = "sending"]
  <2> HIDE DEF copies
  <2> QED
    BY <1>4, <1>5
<1> QED
    BY <1>1, <1>2, <1>3, <1>4, <1>6, <1>7 DEF EomReinject

LEMMA EomReinjectInv ==
    ASSUME TypeOK, Inv, NEW x \in DOMAIN session, NEW s \in Section, EomReinject(x, s)
    PROVE  Inv'
<1> DEFINE copies == {CopyId(x, t) : t \in Sections(x) \ {s}}
<1>1. /\ session[x] \in Transaction /\ Original(x) /\ x \in Id
      /\ session[x].milter = "eom" /\ session[x].text = <<>>
      /\ s \in Sections(x) /\ Sections(x) \subseteq Section
      /\ copies \cap DOMAIN session = {}
      /\ DOMAIN session' = DOMAIN session \cup copies
      /\ \A y \in DOMAIN session : y # x => session'[y] = session[y]
      /\ session'[x] = [Encrypted(x, s) EXCEPT !.milter = "sending"]
      /\ UNCHANGED delivered
    BY ReinjectShape
<1>2. \A t \in Sections(x) \ {s} : session'[CopyId(x, t)] = Fresh(OwedTo(x, t), <<t>>)
    BY ReinjectShape
<1>3. FieldsOK(x) /\ session[x].conn # "connecting" /\ session[x].seen # "ok"
      /\ session[x].reply \notin {"ok", "reject"}
    BY <1>1 DEF Inv, FieldsOK, OriginalOK
<1>4. /\ session'[x].config = session[x].config /\ session'[x].owed = session[x].owed
      /\ session'[x].text = <<s>> /\ session'[x].conn = session[x].conn
      /\ session'[x].milter = "sending" /\ session'[x].reply = session[x].reply
      /\ session'[x].seen = session[x].seen
  <2> DEFINE t == Encrypted(x, s)
  <2>1. /\ t \in Transaction /\ t.config = session[x].config /\ t.owed = session[x].owed
        /\ t.text = <<s>> /\ t.conn = session[x].conn /\ t.reply = session[x].reply
        /\ t.seen = session[x].seen
    BY <1>1, EncryptedFacts
  <2>2. session'[x] = [t EXCEPT !.milter = "sending"]
    BY <1>1
  <2> HIDE DEF t
  <2> QED
    BY <2>1, <2>2 DEF Transaction
<1>5. Grows
    BY <1>1 DEF Grows
<1>6. /\ \A y \in DOMAIN session : ~Original(y) => Attempt(y) # x
      /\ \A d \in delivered : d.id # x /\ Attempt(d.id) # x
    BY <1>1, NoCopiesYet
<1>7. Sections(x)' = Sections(x) /\ \A u : OwedTo(x, u)' = OwedTo(x, u)
    BY <1>4 DEF Sections, OwedTo
<1>8. FieldsOK(x)' /\ OriginalOK(x)' /\ CopyOK(x)'
  <2>1. FieldsOK(x)'
    BY <1>3, <1>4 DEF FieldsOK
  <2>2. \A u \in Sections(x)' : u # s => CopyId(x, u) \in DOMAIN session'
    BY <1>1, <1>7
  <2>3. OriginalOK(x)'
    BY <1>1, <1>3, <1>4, <1>7, <2>2 DEF OriginalOK
  <2> QED
    BY <1>1, <2>1, <2>3 DEF CopyOK
<1>9. ASSUME NEW t \in Sections(x) \ {s}
      PROVE  FieldsOK(CopyId(x, t))' /\ OriginalOK(CopyId(x, t))' /\ CopyOK(CopyId(x, t))'
  <2> DEFINE y == CopyId(x, t)
  <2>1. t \in Section /\ ~Original(y) /\ Attempt(y) = x /\ y.path = <<t>>
    BY <1>1, CopyFacts
  <2>2. /\ session'[y].rcpts = OwedTo(x, t) /\ session'[y].text = <<t>> /\ session'[y].owed = {}
        /\ session'[y].conn = "connecting" /\ session'[y].milter = "idle"
        /\ session'[y].reply = "none" /\ session'[y].seen = "none"
    <3>1. session'[y] = Fresh(OwedTo(x, t), <<t>>)
      BY <1>2
    <3> HIDE DEF y
    <3> QED
      BY <3>1 DEF Fresh
  <2> HIDE DEF y
  <2>3. FieldsOK(y)' /\ OriginalOK(y)'
    BY <2>1, <2>2 DEF FieldsOK, OriginalOK
  <2>4. /\ x \in DOMAIN session' /\ t \in Sections(x)' /\ session'[y].rcpts = OwedTo(x, t)'
        /\ session'[x].text # <<t>> /\ session'[x].conn # "connecting"
        /\ session'[x].milter # "eom" /\ session'[x].reply # "reject"
    <3>1. t # s /\ <<s>> # <<t>>
      BY <1>9
    <3>2. x \in DOMAIN session' /\ t \in Sections(x)' /\ session'[y].rcpts = OwedTo(x, t)'
      BY <1>1, <1>7, <1>9, <2>2
    <3>3. session'[x].reply # "reject" /\ session'[x].conn # "connecting"
      BY <1>3, <1>4
    <3> QED
      BY <1>4, <3>1, <3>2, <3>3
  <2>5. CopyOK(y)'
    BY <2>1, <2>2, <2>4 DEF CopyOK
  <2> QED
    BY <2>3, <2>5 DEF y
<1>10. ASSUME NEW y \in DOMAIN session, y # x
       PROVE  FieldsOK(y)' /\ OriginalOK(y)' /\ CopyOK(y)'
  <2>1. FieldsOK(y)' /\ OriginalOK(y)'
    BY <1>1, <1>5, <1>10, KeepOriginal DEF Inv
  <2>2. CASE Original(y)
    BY <2>1, <2>2 DEF CopyOK
  <2>3. CASE ~Original(y)
    <3>1. /\ Attempt(y) \in DOMAIN session
          /\ session[Attempt(y)].conn # "connecting" /\ session[Attempt(y)].milter # "eom"
          /\ session[Attempt(y)].reply # "reject"
      BY <2>3, CopyParts
    <3>2. session'[Attempt(y)] = session[Attempt(y)]
      BY <1>1, <1>6, <2>3, <3>1
    <3> QED
      BY <1>1, <1>5, <1>10, <2>1, <3>1, <3>2, KeepCopy DEF Inv
  <2> QED
    BY <2>2, <2>3
<1>11. ASSUME NEW d \in delivered'
       PROVE  DeliveredOK(d)'
  <2>1. d \in delivered /\ d.id \in DOMAIN session /\ DeliveredOK(d)
    BY <1>1 DEF TypeOK, Inv
  <2>2. Attempt(d.id) \in DOMAIN session
    BY <2>1, AttemptFacts, CopyParts DEF TypeOK
  <2>3. session'[d.id] = session[d.id] /\ session'[Attempt(d.id)] = session[Attempt(d.id)]
    BY <1>1, <1>6, <2>1, <2>2
  <2> QED
    BY <1>1, <2>1, <2>3, KeepDelivered
<1>12. \A m \in Mail : Numbered(m)'
  <2>1. \A y \in copies : ~Original(y)
    BY <1>1, CopyFacts
  <2> QED
    BY <1>1, <2>1, KeepNumbered
<1>13. \A y \in DOMAIN session' : y = x \/ (y \in DOMAIN session /\ y # x)
                                   \/ \E t \in Sections(x) \ {s} : y = CopyId(x, t)
    BY <1>1
<1> QED
    BY <1>8, <1>9, <1>10, <1>11, <1>12, <1>13 DEF Inv

-----------------------------------------------------------------------------
(* Types *)

Deliveries == [id : DOMAIN session, rcpts : SUBSET Rcpt, text : Seq(Section)]

LEMMA ForgetType ==
    ASSUME TypeOK, NEW x \in DOMAIN session, NEW rcpts, Forget(x, rcpts)
    PROVE  wanted' \in [Mail -> SUBSET Rcpt]
<1>1. x.mail \in Mail
    BY DEF TypeOK, Id
<1> QED
    BY <1>1 DEF TypeOK, Forget

\* A step that changes one transaction.
LEMMA OneChangesType ==
    ASSUME TypeOK, NEW x \in DOMAIN session, DOMAIN session' = DOMAIN session,
           \A y \in DOMAIN session : y # x => session'[y] = session[y],
           session'[x] \in Transaction, wanted' \in [Mail -> SUBSET Rcpt],
           delivered' \subseteq Deliveries, UNCHANGED <<g_config, crashes, reloads>>
    PROVE  TypeOK'
BY DEF TypeOK, Deliveries

LEMMA AnswerType ==
    ASSUME TypeOK, NEW x \in DOMAIN session, NEW t \in Transaction, NEW reply \in Reply,
           NEW rcpts \in SUBSET Rcpt, Answer(x, t, reply, rcpts)
    PROVE  TypeOK'
<1>1. /\ DOMAIN session' = DOMAIN session
      /\ \A y \in DOMAIN session : y # x => session'[y] = session[y]
      /\ session'[x] \in Transaction
      /\ delivered' = delivered
         \/ delivered' = delivered \cup {[id |-> x, rcpts |-> rcpts, text |-> t.text]}
    BY AnswerShape
<1>2. [id |-> x, rcpts |-> rcpts, text |-> t.text] \in Deliveries
    BY DEF Deliveries, Transaction
<1>3. delivered' \subseteq Deliveries
    BY <1>1, <1>2 DEF TypeOK, Deliveries
<1>4. wanted' \in [Mail -> SUBSET Rcpt]
    BY ForgetType DEF Answer, TypeOK
<1>5. UNCHANGED <<g_config, crashes, reloads>>
    BY DEF Answer
<1> QED
    BY <1>1, <1>3, <1>4, <1>5, OneChangesType

LEMMA EnvelopeType ==
    ASSUME TypeOK, Inv, NEW x \in DOMAIN session, Envelope(x)
    PROVE  TypeOK'
<1>1. /\ delivered' = delivered /\ DOMAIN session' = DOMAIN session
      /\ \A y \in DOMAIN session : y # x => session'[y] = session[y]
      /\ session'[x] \in Transaction
    BY EnvelopeShape
<1>2. \E rcpts : Forget(x, rcpts)
    BY DEF Envelope
<1>3. wanted' \in [Mail -> SUBSET Rcpt]
    BY <1>2, ForgetType
<1>4. UNCHANGED <<g_config, crashes, reloads>> /\ delivered' \subseteq Deliveries
    BY <1>1 DEF Envelope, TypeOK, Deliveries
<1> QED
    BY <1>1, <1>3, <1>4, OneChangesType

LEMMA SubmitType ==
    ASSUME TypeOK, Inv, NEW m \in Mail, Submit(m)
    PROVE  TypeOK'
<1>1. PICK n \in 1 .. MaxAttempts :
          /\ AttemptId(m, n) \in Id /\ AttemptId(m, n) \notin DOMAIN session
          /\ session' = [y \in DOMAIN session \cup {AttemptId(m, n)} |->
                 IF y = AttemptId(m, n) THEN Fresh(wanted[m], <<>>) ELSE session[y]]
    BY SubmitFresh
<1> DEFINE x == AttemptId(m, n)
<1> HIDE DEF x
<1>2. /\ x \in Id /\ DOMAIN session' = DOMAIN session \cup {x}
      /\ session'[x] = Fresh(wanted[m], <<>>)
      /\ \A y \in DOMAIN session : session'[y] = session[y]
    BY <1>1 DEF x
<1>3. wanted[m] \in SUBSET Rcpt /\ <<>> \in Seq(Section) /\ g_config \in Config
    BY DEF TypeOK
<1>4. Fresh(wanted[m], <<>>) \in Transaction
    BY <1>3 DEF Fresh, Transaction, Reply
<1>5. UNCHANGED <<g_config, wanted, delivered, crashes, reloads>>
    BY DEF Submit
<1> QED
    BY <1>2, <1>4, <1>5 DEF TypeOK

LEMMA ReinjectType ==
    ASSUME TypeOK, Inv, NEW x \in DOMAIN session, NEW s \in Section, EomReinject(x, s)
    PROVE  TypeOK'
<1> DEFINE copies == {CopyId(x, t) : t \in Sections(x) \ {s}}
<1>1. /\ session[x] \in Transaction /\ Original(x) /\ x \in Id
      /\ session[x].text = <<>> /\ Sections(x) \subseteq Section
      /\ DOMAIN session' = DOMAIN session \cup copies
      /\ \A y \in DOMAIN session : y # x => session'[y] = session[y]
      /\ session'[x] = [Encrypted(x, s) EXCEPT !.milter = "sending"]
      /\ UNCHANGED delivered
    BY ReinjectShape
<1>2. \A t \in Sections(x) \ {s} : session'[CopyId(x, t)] = Fresh(OwedTo(x, t), <<t>>)
    BY ReinjectShape
<1>3. session'[x] \in Transaction
  <2>1. Encrypted(x, s) \in Transaction
    BY <1>1, EncryptedFacts
  <2> QED
    BY <1>1, <2>1 DEF Transaction
<1>4. ASSUME NEW t \in Sections(x) \ {s}
      PROVE  CopyId(x, t) \in Id /\ session'[CopyId(x, t)] \in Transaction
  <2>1. OwedTo(x, t) \in SUBSET Rcpt /\ <<t>> \in Seq(Section) /\ g_config \in Config
    BY <1>1, <1>4 DEF OwedTo, TypeOK
  <2>2. Fresh(OwedTo(x, t), <<t>>) \in Transaction
    BY <2>1 DEF Fresh, Transaction, Reply
  <2>3. CopyId(x, t) \in Id
    BY <1>1, <1>4, CopyFacts
  <2> QED
    BY <1>2, <1>4, <2>2, <2>3
<1>5. DOMAIN session' \subseteq Id
    BY <1>1, <1>4 DEF TypeOK
<1>6. ASSUME NEW y \in DOMAIN session'
      PROVE  session'[y] \in Transaction
  <2>1. y = x \/ (y \in DOMAIN session /\ y # x) \/ \E t \in Sections(x) \ {s} : y = CopyId(x, t)
    BY <1>1, <1>6
  <2> QED
    BY <1>1, <1>3, <1>4, <2>1 DEF TypeOK
<1>7. delivered' \subseteq [id : DOMAIN session', rcpts : SUBSET Rcpt, text : Seq(Section)]
  <2>1. DOMAIN session \subseteq DOMAIN session'
    BY <1>1
  <2> QED
    BY <1>1, <2>1 DEF TypeOK
<1>8. UNCHANGED <<g_config, wanted, crashes, reloads>>
    BY DEF EomReinject
<1> QED
    BY <1>5, <1>6, <1>7, <1>8 DEF TypeOK

LEMMA TransferType ==
    ASSUME TypeOK, NEW x \in DOMAIN session, NEW y \in CopiesOf(x),
           TransferEnds(x, y) \/ TransferBreaks(x, y)
    PROVE  TypeOK'
<1>1. y \in DOMAIN session /\ session[y] \in Transaction
    BY DEF CopiesOf, TypeOK
<1>2. PICK n \in Transaction : session' = [session EXCEPT ![y] = n]
  <2>1. CASE TransferEnds(x, y)
    <3>1. PICK seen \in {"ok", "fail"} : session' = [session EXCEPT ![y] = [@ EXCEPT !.seen = seen]]
      BY <2>1 DEF TransferEnds
    <3>2. [session[y] EXCEPT !.seen = seen] \in Transaction
      BY <1>1 DEF Transaction
    <3> QED
      BY <3>1, <3>2
  <2>2. CASE TransferBreaks(x, y)
    <3>1. Left(session[y]) \in Transaction
      BY <1>1 DEF Left, Transaction
    <3>2. session' = [session EXCEPT ![y] = Left(session[y])]
      BY <2>2 DEF TransferBreaks
    <3> QED
      BY <3>1, <3>2
  <2> QED
    BY <2>1, <2>2
<1>3. /\ session'[y] \in Transaction /\ DOMAIN session' = DOMAIN session
      /\ \A z \in DOMAIN session : z # y => session'[z] = session[z]
    BY <1>1, <1>2
<1>4. UNCHANGED <<g_config, wanted, delivered, crashes, reloads>>
    BY DEF TransferEnds, TransferBreaks
<1>5. delivered' \subseteq Deliveries
    BY <1>4 DEF TypeOK, Deliveries
<1>6. wanted' \in [Mail -> SUBSET Rcpt]
    BY <1>4 DEF TypeOK
<1> QED
    BY <1>1, <1>3, <1>4, <1>5, <1>6, OneChangesType

LEMMA MtaGivesUpType ==
    ASSUME TypeOK, NEW x \in DOMAIN session, MtaGivesUp(x)
    PROVE  TypeOK'
<1>1. session[x] \in Transaction
    BY DEF TypeOK
<1>2. /\ session'[x] \in Transaction /\ DOMAIN session' = DOMAIN session
      /\ \A z \in DOMAIN session : z # x => session'[z] = session[z]
    BY <1>1 DEF MtaGivesUp, Transaction, Reply
<1>3. UNCHANGED <<g_config, wanted, delivered, crashes, reloads>>
    BY DEF MtaGivesUp
<1>4. delivered' \subseteq Deliveries /\ wanted' \in [Mail -> SUBSET Rcpt]
    BY <1>3 DEF TypeOK, Deliveries
<1> QED
    BY <1>2, <1>3, <1>4, OneChangesType

LEMMA CrashType ==
    ASSUME TypeOK, Crash
    PROVE  TypeOK'
<1>1. DOMAIN session' = DOMAIN session /\ g_config' \in Config
      /\ UNCHANGED <<wanted, delivered, reloads>>
    BY DEF Crash
<1>2. ASSUME NEW x \in DOMAIN session
      PROVE  session'[x] \in Transaction
  <2>1. session[x] \in Transaction
    BY DEF TypeOK
  <2>2. session'[x] = AfterCrash(x)
    BY DEF Crash, AfterCrash
  <2> QED
    BY <2>1, <2>2, AfterCrashFacts
<1>3. crashes' \in 0 .. MaxCrashes
  <2>1. crashes \in 0 .. MaxCrashes /\ crashes < MaxCrashes /\ crashes' = crashes + 1
    BY DEF Crash, TypeOK
  <2> QED
    BY <2>1
<1> QED
    BY <1>1, <1>2, <1>3 DEF TypeOK

LEMMA ReloadKeeps ==
    ASSUME TypeOK, Inv, Reload
    PROVE  TypeOK' /\ Inv'
<1>1. g_config' \in Config /\ reloads' \in 0 .. MaxReloads
      /\ UNCHANGED <<wanted, session, delivered, crashes>>
    BY DEF Reload, TypeOK
<1>2. TypeOK'
    BY <1>1 DEF TypeOK
<1>3. ASSUME NEW x \in DOMAIN session
      PROVE  Ends(x)
    BY <1>1 DEF Ends
<1>4. Inv'
    BY <1>1, <1>3, EndsInv
<1> QED
    BY <1>2, <1>4

-----------------------------------------------------------------------------
(* The theorems *)

LEMMA StepKeeps == TypeOK /\ Inv /\ [Next]_vars => TypeOK' /\ Inv'
<1> SUFFICES ASSUME TypeOK, Inv, [Next]_vars
             PROVE  TypeOK' /\ Inv'
    OBVIOUS
<1>1. CASE UNCHANGED vars
  <2>1. TypeOK'
    BY <1>1 DEF TypeOK, vars
  <2>2. ASSUME NEW x \in DOMAIN session
        PROVE  Ends(x)
    BY <1>1 DEF vars, Ends
  <2>3. Inv'
    BY <1>1, <2>2, EndsInv DEF vars
  <2> QED
    BY <2>1, <2>3
<1>2. ASSUME NEW m \in Mail, Submit(m)
      PROVE  TypeOK' /\ Inv'
    BY <1>2, SubmitType, SubmitInv
<1>3. ASSUME NEW x \in DOMAIN session, Envelope(x)
      PROVE  TypeOK' /\ Inv'
    BY <1>3, EnvelopeType, EnvelopeInv
<1>4. ASSUME NEW x \in DOMAIN session, MilterNext(x)
      PROVE  TypeOK' /\ Inv'
  <2>1. session[x] \in Transaction
    BY DEF TypeOK
  <2>2. \A s : OwedTo(x, s) \in SUBSET Rcpt
    BY DEF OwedTo
  <2>3. CASE EomPass(x)
    <3>1. session[x].accepted \in SUBSET Rcpt
      BY <2>1 DEF Transaction
    <3> QED
      BY <2>1, <2>3, <3>1, EomPassInv, AnswerType DEF EomPass, Reply
  <2>4. CASE EomRefuse(x)
    BY <2>1, <2>4, EomThrowInv, AnswerType DEF EomRefuse, Reply
  <2>5. CASE EomThrow(x)
    BY <2>1, <2>5, EomThrowInv, AnswerType DEF EomThrow, Reply
  <2>6. ASSUME NEW s \in Section, EomReplace(x, s)
        PROVE  TypeOK' /\ Inv'
    <3>1. session[x].text = <<>>
      BY <2>6 DEF Inv, OriginalOK, EomReplace, AtEom, Signed
    <3>2. Encrypted(x, s) \in Transaction
      BY <2>1, <3>1, EncryptedFacts
    <3>3. Answer(x, Encrypted(x, s), "ok", OwedTo(x, s)) /\ "ok" \in Reply
      BY <2>6 DEF EomReplace, Reply
    <3>4. TypeOK'
      BY <2>2, <3>2, <3>3, AnswerType
    <3> QED
      BY <2>6, <3>4, EomReplaceInv
  <2>7. ASSUME NEW s \in Section, EomReinject(x, s)
        PROVE  TypeOK' /\ Inv'
    BY <2>7, ReinjectType, EomReinjectInv
  <2>8. ASSUME NEW y \in CopiesOf(x), TransferEnds(x, y)
        PROVE  TypeOK' /\ Inv'
    BY <2>8, TransferType, TransferInv
  <2>9. CASE SendingEnds(x)
    <3>1. \E reply \in Reply, rcpts \in SUBSET Rcpt : Answer(x, session[x], reply, rcpts)
      BY <2>2, <2>9 DEF SendingEnds, Reply
    <3> QED
      BY <2>1, <2>9, <3>1, AnswerType, SendingEndsInv
  <2> QED
    BY <1>4, <2>3, <2>4, <2>5, <2>6, <2>7, <2>8, <2>9 DEF MilterNext
<1>5. ASSUME NEW x \in DOMAIN session, NEW y \in CopiesOf(x), TransferBreaks(x, y)
      PROVE  TypeOK' /\ Inv'
    BY <1>5, TransferType, TransferInv
<1>6. ASSUME NEW x \in DOMAIN session, MtaGivesUp(x)
      PROVE  TypeOK' /\ Inv'
    BY <1>6, MtaGivesUpType, MtaGivesUpInv
<1>7. CASE Reload
    BY <1>7, ReloadKeeps
<1>8. CASE Crash
    BY <1>8, CrashType, CrashInv
<1> QED
    BY <1>1, <1>2, <1>3, <1>4, <1>5, <1>6, <1>7, <1>8 DEF Next

LEMMA Invariance == Spec => [](TypeOK /\ Inv)
BY InitInv, StepKeeps, PTL DEF Spec

\* The types hold in every behaviour.
THEOREM TypeCorrect == Spec => []TypeOK
BY Invariance, PTL

\* What a delivered mail's recipients have in common with its attempt.
LEMMA DeliveredFacts ==
    ASSUME TypeOK, Inv, NEW d \in delivered
    PROVE  /\ d.id \in DOMAIN session /\ d.id \in Id /\ Attempt(d.id) \in DOMAIN session
           /\ session[d.id].reply = "ok" /\ d.text = session[d.id].text
           /\ \E s \in Section : d.text = <<s>> /\ d.rcpts = OwedTo(Attempt(d.id), s)
           /\ \A r \in d.rcpts :
                 d.text = <<Settings[session[Attempt(d.id)].config].section[r]>>
<1>1. d.id \in DOMAIN session /\ d.id \in Id /\ DeliveredOK(d)
    BY DEF TypeOK, Inv
<1>2. Attempt(d.id) \in DOMAIN session
    BY <1>1, AttemptFacts, CopyParts
<1>3. PICK s \in Section : d.text = <<s>> /\ d.rcpts = OwedTo(Attempt(d.id), s)
    BY <1>1 DEF DeliveredOK
<1>4. FieldsOK(Attempt(d.id))
    BY <1>2 DEF Inv
<1>5. ASSUME NEW r \in d.rcpts
      PROVE  s = Settings[session[Attempt(d.id)].config].section[r]
  <2>1. <<r, s>> \in session[Attempt(d.id)].owed
    BY <1>3 DEF OwedTo
  <2> QED
    BY <1>4, <2>1 DEF FieldsOK
<1> QED
    BY <1>1, <1>2, <1>3, <1>5 DEF DeliveredOK

\* on_eom's signature check and find_match on the captured configuration: whatever mails, sections
\* and configurations there are, and however often one is published, a mail leaves encrypted exactly
\* once, and by the section of its recipients.
THEOREM OnceEncrypted == Spec => []EncryptedOnce
<1>1. TypeOK /\ Inv => EncryptedOnce
    BY DeliveredFacts DEF EncryptedOnce
<1> QED
    BY <1>1, Invariance, PTL

LEMMA OneDelivery ==
    ASSUME TypeOK, Inv, NEW d \in delivered, NEW e \in delivered,
           Attempt(d.id) = Attempt(e.id), NEW r \in d.rcpts, r \in e.rcpts
    PROVE  d = e
<1> DEFINE a == Attempt(d.id)
<1>1. d.text = e.text
    BY DeliveredFacts
<1>2. /\ d.id \in DOMAIN session /\ d.id \in Id /\ d.text = session[d.id].text
      /\ e.id \in DOMAIN session /\ e.id \in Id /\ e.text = session[e.id].text
    BY DeliveredFacts
<1>3. d.id = e.id
  <2>1. CASE Original(d.id) /\ Original(e.id)
    BY <1>2, <2>1, AttemptFacts
  <2>2. CASE ~Original(d.id) /\ ~Original(e.id)
    <3>1. PICK s \in Section : d.id = CopyId(a, s) /\ session[d.id].text = <<s>>
      BY <1>2, <2>2, CopyParts
    <3>2. PICK u \in Section : e.id = CopyId(a, u) /\ session[e.id].text = <<u>>
      BY <1>2, <2>2, CopyParts
    <3>3. <<s>> = <<u>>
      BY <1>1, <1>2, <3>1, <3>2
    <3>4. s = u
      BY <3>3
    <3> QED
      BY <3>1, <3>2, <3>4
  <2>3. CASE Original(d.id) /\ ~Original(e.id)
    <3>1. a = d.id
      BY <1>2, <2>3, AttemptFacts
    <3>2. session[e.id].text # session[a].text
      BY <1>2, <2>3, CopyParts
    <3> QED
      BY <1>1, <1>2, <3>1, <3>2
  <2>4. CASE ~Original(d.id) /\ Original(e.id)
    <3>1. a = e.id
      BY <1>2, <2>4, AttemptFacts
    <3>2. session[d.id].text # session[a].text
      BY <1>2, <2>4, CopyParts
    <3> QED
      BY <1>1, <1>2, <3>1, <3>2
  <2> QED
    BY <2>1, <2>2, <2>3, <2>4
<1> QED
    BY <1>3 DEF Inv, DeliveredOK

\* on_eom: an attempt with all its copies serves a recipient at most once, whatever the MTA, the
\* milter and libcurl each believe became of it.
THEOREM ServedOncePerAttempt == Spec => []OncePerAttempt
<1>1. TypeOK /\ Inv => OncePerAttempt
  <2> SUFFICES ASSUME TypeOK, Inv, NEW d \in delivered, NEW e \in delivered,
                      Attempt(d.id) = Attempt(e.id), d.rcpts \cap e.rcpts # {}
               PROVE  d = e
    BY DEF OncePerAttempt
  <2>1. PICK r \in d.rcpts : r \in e.rcpts
    OBVIOUS
  <2> QED
    BY <2>1, OneDelivery
<1> QED
    BY <1>1, Invariance, PTL

\* on_eom: when the sender is told that its mail is accepted, that attempt has served everyone the
\* milter has a key for.
THEOREM AllServedWhenAccepted == Spec => []AcceptedIsServed
<1>1. TypeOK /\ Inv => AcceptedIsServed
  <2> SUFFICES ASSUME TypeOK, Inv, NEW x \in DOMAIN session, Original(x), session[x].reply = "ok"
               PROVE  {p[1] : p \in session[x].owed} = UNION {d.rcpts : d \in Mine(x)}
    BY DEF AcceptedIsServed
  <2>1. session[x].owed \in SUBSET (Rcpt \X Section)
    BY DEF TypeOK, Transaction
  <2>2. ASSUME NEW p \in session[x].owed
        PROVE  p[1] \in UNION {d.rcpts : d \in Mine(x)}
    <3>1. p = <<p[1], p[2]>> /\ p[1] \in Rcpt /\ p[2] \in Section /\ p[2] \in Sections(x)
      BY <2>1, <2>2 DEF Sections
    <3>2. PICK d \in delivered : Attempt(d.id) = x /\ d.text = <<p[2]>>
      BY <3>1 DEF Inv, OriginalOK
    <3>3. PICK s \in Section : d.text = <<s>> /\ d.rcpts = OwedTo(x, s)
      BY <3>2, DeliveredFacts
    <3>4. p[1] \in d.rcpts
      BY <2>2, <3>1, <3>2, <3>3 DEF OwedTo
    <3> QED
      BY <3>2, <3>4 DEF Mine
  <2>3. ASSUME NEW d \in Mine(x), NEW r \in d.rcpts
        PROVE  r \in {p[1] : p \in session[x].owed}
    <3>1. d \in delivered /\ Attempt(d.id) = x
      BY <2>3 DEF Mine
    <3>2. PICK s \in Section : d.rcpts = OwedTo(x, s)
      BY <3>1, DeliveredFacts
    <3>3. <<r, s>> \in session[x].owed
      BY <2>3, <3>2 DEF OwedTo
    <3> QED
      BY <3>3
  <2> QED
    BY <2>2, <2>3
<1> QED
    BY <1>1, Invariance, PTL

\* on_data, on_eom: an attempt refused for good has served nobody, not even by a copy that libcurl
\* believes lost.
THEOREM NobodyServedWhenRefused == Spec => []RefusedIsUnserved
<1>1. TypeOK /\ Inv => RefusedIsUnserved
  <2> SUFFICES ASSUME TypeOK, Inv, NEW x \in DOMAIN session, Original(x),
                      session[x].reply = "reject", NEW d \in Mine(x)
               PROVE  FALSE
    BY DEF RefusedIsUnserved
  <2>1. d \in delivered /\ Attempt(d.id) = x
    BY DEF Mine
  <2>2. d.id \in DOMAIN session /\ d.id \in Id /\ session[d.id].reply = "ok"
    BY <2>1, DeliveredFacts
  <2>3. CASE Original(d.id)
    BY <2>1, <2>2, <2>3, AttemptFacts
  <2>4. CASE ~Original(d.id)
    BY <2>1, <2>2, <2>4, CopyParts
  <2> QED
    BY <2>3, <2>4
<1> QED
    BY <1>1, Invariance, PTL
=============================================================================
