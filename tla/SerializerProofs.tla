--------------------------- MODULE SerializerProofs ---------------------------
(***************************************************************************)
(* Proofs that the properties of Serializer hold for any number of         *)
(* processes, any class hierarchy and any versions of the names.           *)
(***************************************************************************)
EXTENDS Serializer, TLAPS

\* An entry of the registry is a class that is loaded, under its name.
NamesAgree ==
  \A p \in Process : \A i \in DOMAIN decoratedModels[p] :
    /\ decoratedModels[p][i].class \in loaded[p]
    /\ decoratedModels[p][i].name = naming[p][decoratedModels[p][i].class]

\* The name of every decorated class that is loaded is in the registry.
NamesRegistered ==
  \A p \in Process : \A c \in loaded[p] :
    naming[p][c] # None => IsModelled(decoratedModels[p], naming[p][c])

\* A class is loaded after the classes it extends.
BasesLoaded == \A p \in Process : \A c \in loaded[p] : InstanceOf[c] \subseteq loaded[p]

Extends(c, b) == b # c /\ b \in InstanceOf[c]

\* A class whose name is its own comes after its base classes in the registry.
BasesRegisteredFirst ==
  \A p \in Process : \A i, j \in DOMAIN decoratedModels[p] :
    /\ ~NameClash(decoratedModels[p][i].class)
    /\ Extends(decoratedModels[p][i].class, decoratedModels[p][j].class)
    => j < i

\* A class whose name is its own stays in the registry.
ConfiguredRegistered ==
  \A p \in Process : \A i \in DOMAIN extensions[p] :
    ~NameClash(extensions[p][i]) =>
      \E j \in DOMAIN decoratedModels[p] :
        decoratedModels[p][j].class = extensions[p][i]

\* So its extension is found before those of its base classes.
OwnExtensionFirst ==
  \A p \in Process : \A i, j \in DOMAIN extensions[p] :
    /\ ~NameClash(extensions[p][i])
    /\ Extends(extensions[p][i], extensions[p][j])
    => \E k \in DOMAIN extensions[p] :
         k < j /\ extensions[p][k] = extensions[p][i]

\* Bytes carry the name of some class, in the version that wrote them; its own
\* if the class had been configured and its name is no other's.
StoredNamed ==
  stored # None =>
    /\ stored.form = "tagged" =>
         \E c \in Class : naming[stored.by][c] = stored.name
    /\ stored.known /\ ~NameClash(stored.made) =>
         /\ stored.form = "tagged"
         /\ stored.name = naming[stored.by][stored.made]

\* Nothing is given before something is stored.
GivenStored == stored = None => \A p \in Process : given[p] = None

Registry == NamesAgree /\ NamesRegistered /\ BasesLoaded /\ BasesRegisteredFirst

-----------------------------------------------------------------------------
(* SetModel                                                                *)

\* What Map.set does to the entries.
LEMMA SetModelType ==
  ASSUME NEW m \in Seq(Model), NEW n \in Name, NEW c \in Class
  PROVE  /\ SetModel(m, n, c) \in Seq(Model)
         /\ DOMAIN m \subseteq DOMAIN SetModel(m, n, c)
         /\ IsModelled(SetModel(m, n, c), n)
<1> DEFINE e == [name |-> n, class |-> c]
           s == [i \in DOMAIN m |-> IF m[i].name = n THEN e ELSE m[i]]
<1>1. e \in Model
  BY DEF Model
<1>2. CASE IsModelled(m, n)
  <2>1. SetModel(m, n, c) = s
    BY <1>2 DEF SetModel
  <2>2. DOMAIN m = 1 .. Len(m) /\ \A i \in DOMAIN m : m[i] \in Model
    OBVIOUS
  <2>3. s \in [1 .. Len(m) -> Model]
    BY <1>1, <2>2
  <2>4. s \in Seq(Model)
    BY <2>3
  <2>5. PICK i \in DOMAIN m : m[i].name = n
    BY <1>2 DEF IsModelled
  <2>6. s[i].name = n
    BY <2>5
  <2> QED
    BY <2>1, <2>4, <2>5, <2>6 DEF IsModelled
<1>3. CASE ~IsModelled(m, n)
  <2>1. SetModel(m, n, c) = Append(m, e)
    BY <1>3 DEF SetModel
  <2>2. Append(m, e) \in Seq(Model) /\ DOMAIN m \subseteq DOMAIN Append(m, e)
    BY <1>1
  <2>3. Len(m) + 1 \in DOMAIN Append(m, e) /\ Append(m, e)[Len(m) + 1] = e
    BY <1>1
  <2> QED
    BY <2>1, <2>2, <2>3 DEF IsModelled
<1> QED
  BY <1>2, <1>3

\* An entry is the new one or an old one that has kept its place; the new one
\* replaces one of its name, or comes last.
LEMMA SetModelEntries ==
  ASSUME NEW m \in Seq(Model), NEW n \in Name, NEW c \in Class,
         NEW i \in DOMAIN SetModel(m, n, c)
  PROVE  \/ i \in DOMAIN m /\ m[i].name # n /\ SetModel(m, n, c)[i] = m[i]
         \/ /\ SetModel(m, n, c)[i] = [name |-> n, class |-> c]
            /\ \/ i \in DOMAIN m /\ m[i].name = n
               \/ i = Len(m) + 1 /\ \A j \in DOMAIN m : m[j].name # n
<1> DEFINE e == [name |-> n, class |-> c]
<1>1. e \in Model
  BY DEF Model
<1>2. CASE IsModelled(m, n)
  BY <1>2 DEF SetModel
<1>3. CASE ~IsModelled(m, n)
  <2>1. SetModel(m, n, c) = Append(m, e)
    BY <1>3 DEF SetModel
  <2>2. DOMAIN Append(m, e) = DOMAIN m \cup {Len(m) + 1}
    BY <1>1
  <2>3. Append(m, e)[Len(m) + 1] = e
    BY <1>1
  <2>4. ASSUME i \in DOMAIN m PROVE Append(m, e)[i] = m[i]
    BY <1>1, <2>4
  <2> QED
    BY <1>3, <2>1, <2>2, <2>3, <2>4 DEF IsModelled
<1> QED
  BY <1>2, <1>3
-----------------------------------------------------------------------------
(* Types                                                                   *)

\* Everything is empty at first.
LEMMA InitType == Init => TypeOK
BY SerializerAssumption DEF Init, TypeOK

\* The registry after a class has been loaded.
LEMMA SerializeRegistry ==
  ASSUME TypeOK, NamesAgree, NEW p \in Process, NEW c \in Class, Serialize(p, c)
  PROVE  /\ decoratedModels' \in [Process -> Seq(Model)]
         /\ \A q \in Process \ {p} : decoratedModels'[q] = decoratedModels[q]
         /\ loaded' = [loaded EXCEPT ![p] = @ \cup {c}]
         /\ \/ /\ naming[p][c] = None
               /\ decoratedModels'[p] = decoratedModels[p]
            \/ /\ naming[p][c] \in Name
               /\ decoratedModels'[p] =
                    SetModel(decoratedModels[p], naming[p][c], c)
<1>1. naming[p] \in [Class -> Name \cup {None}]
  BY SerializerAssumption DEF TypeOK
<1>2. CASE naming[p][c] = None
  BY <1>2 DEF Serialize, TypeOK
<1>3. CASE naming[p][c] # None
  <2>1. naming[p][c] \in Name
    BY <1>1, <1>3
  <2>2. SetModel(decoratedModels[p], naming[p][c], c) \in Seq(Model)
    BY <2>1, SetModelType DEF TypeOK
  <2>3. decoratedModels' = [decoratedModels EXCEPT ![p] =
          SetModel(decoratedModels[p], naming[p][c], c)]
    BY <1>3 DEF Serialize
  <2> HIDE DEF SetModel
  <2> QED
    BY <2>1, <2>2, <2>3 DEF TypeOK, Serialize
<1> QED
  BY <1>2, <1>3

\* Where the elements of two sequences are found in their concatenation.
LEMMA Concatenation ==
  ASSUME NEW s \in Seq(Class), NEW t \in Seq(Class)
  PROVE  /\ s \o t \in Seq(Class)
         /\ DOMAIN (s \o t) = 1 .. Len(s) + Len(t)
         /\ \A i \in 1 .. Len(s) : (s \o t)[i] = s[i]
         /\ \A i \in 1 .. Len(t) : (s \o t)[Len(s) + i] = t[i]
<1>1. Len(s \o t) = Len(s) + Len(t) /\ s \o t \in Seq(Class)
  OBVIOUS
<1>2. DOMAIN (s \o t) = 1 .. Len(s \o t)
  BY <1>1
<1> QED
  BY <1>1, <1>2

\* The classes of the registry, the last one first, in front of the extensions
\* there are.
LEMMA Prepended ==
  ASSUME NEW m \in Seq(Model), NEW x \in Seq(Class)
  PROVE  LET y == [i \in DOMAIN m |-> m[Len(m) - i + 1].class] \o x
         IN  /\ y \in Seq(Class)
             /\ DOMAIN y = 1 .. Len(m) + Len(x)
             /\ \A i \in 1 .. Len(m) : y[i] = m[Len(m) - i + 1].class
             /\ \A i \in 1 .. Len(x) : y[Len(m) + i] = x[i]
<1> DEFINE front == [i \in DOMAIN m |-> m[Len(m) - i + 1].class]
<1>1. DOMAIN m = 1 .. Len(m) /\ Len(m) \in Nat
  OBVIOUS
<1>2. \A i \in 1 .. Len(m) : m[Len(m) - i + 1].class \in Class
  <2>1. \A i \in 1 .. Len(m) : Len(m) - i + 1 \in 1 .. Len(m)
    BY <1>1
  <2>2. \A i \in 1 .. Len(m) : m[i] \in Model
    BY <1>1
  <2> QED
    BY <2>1, <2>2 DEF Model
<1>3. front \in Seq(Class) /\ Len(front) = Len(m)
  BY <1>1, <1>2
<1>4. \A i \in 1 .. Len(m) : front[i] = m[Len(m) - i + 1].class
  BY <1>1
<1> HIDE DEF front
<1>5. /\ front \o x \in Seq(Class)
      /\ DOMAIN (front \o x) = 1 .. Len(front) + Len(x)
      /\ \A i \in 1 .. Len(front) : (front \o x)[i] = front[i]
      /\ \A i \in 1 .. Len(x) : (front \o x)[Len(front) + i] = x[i]
  BY <1>3, Concatenation
<1>6. /\ front \o x \in Seq(Class)
      /\ DOMAIN (front \o x) = 1 .. Len(m) + Len(x)
      /\ \A i \in 1 .. Len(m) : (front \o x)[i] = m[Len(m) - i + 1].class
      /\ \A i \in 1 .. Len(x) : (front \o x)[Len(m) + i] = x[i]
  BY <1>3, <1>4, <1>5
<1> QED
  BY <1>6 DEF front

\* The extensions after configure: the classes of the registry, the last one
\* first, and then the extensions before.
LEMMA ConfigureExtensions ==
  ASSUME TypeOK, NEW p \in Process, Configure(p)
  PROVE  LET m == decoratedModels[p]
             x == extensions[p]
         IN  /\ extensions' \in [Process -> Seq(Class)]
             /\ \A q \in Process \ {p} : extensions'[q] = extensions[q]
             /\ DOMAIN extensions'[p] = 1 .. Len(m) + Len(x)
             /\ \A i \in 1 .. Len(m) :
                  extensions'[p][i] = m[Len(m) - i + 1].class
             /\ \A i \in 1 .. Len(x) : extensions'[p][Len(m) + i] = x[i]
<1> DEFINE m == decoratedModels[p]
           x == extensions[p]
           y == [i \in DOMAIN m |-> m[Len(m) - i + 1].class] \o x
<1>1. m \in Seq(Model) /\ x \in Seq(Class)
  BY DEF TypeOK
<1>2. extensions' = [extensions EXCEPT ![p] = y]
  BY DEF Configure
<1> HIDE DEF m, x
<1>3. /\ y \in Seq(Class)
      /\ DOMAIN y = 1 .. Len(m) + Len(x)
      /\ \A i \in 1 .. Len(m) : y[i] = m[Len(m) - i + 1].class
      /\ \A i \in 1 .. Len(x) : y[Len(m) + i] = x[i]
  BY <1>1, Prepended
<1> HIDE DEF y
<1>4. /\ extensions' \in [Process -> Seq(Class)]
      /\ \A q \in Process \ {p} : extensions'[q] = extensions[q]
      /\ extensions'[p] = y
  BY <1>2, <1>3 DEF TypeOK
<1> QED
  BY <1>3, <1>4 DEF m, x

\* Every step keeps the types; only Serialize and Configure need the registry.
LEMMA NextType == TypeOK /\ NamesAgree /\ [Next]_vars => TypeOK'
<1> SUFFICES ASSUME TypeOK, NamesAgree, [Next]_vars
             PROVE  TypeOK'
  OBVIOUS
<1>1. ASSUME NEW p \in Process, NEW c \in Class, Serialize(p, c)
      PROVE  TypeOK'
  <2>1. decoratedModels' \in [Process -> Seq(Model)]
    BY <1>1, SerializeRegistry
  <2> QED
    BY <1>1, <2>1 DEF Serialize, TypeOK
<1>2. ASSUME NEW p \in Process, NEW c \in Class, Execute(p, c)
      PROVE  TypeOK'
  BY <1>2 DEF Execute, Result, Instance, TypeOK
<1>3. ASSUME NEW p \in Process, Configure(p)
      PROVE  TypeOK'
  <2>1. ASSUME NEW q \in Process, NEW i \in DOMAIN extensions'[q]
        PROVE  naming[q][extensions'[q][i]] \in Name
    <3>1. CASE q # p
      BY <1>3, <2>1, <3>1, ConfigureExtensions DEF TypeOK
    <3>2. CASE q = p
      <4> DEFINE n == Len(decoratedModels[p])
      <4>1. /\ n \in Nat /\ Len(extensions[p]) \in Nat
            /\ i \in 1 .. n + Len(extensions[p])
        BY <1>3, <3>2, ConfigureExtensions DEF TypeOK
      <4>2. CASE i \in 1 .. n
        <5>1. n - i + 1 \in DOMAIN decoratedModels[p]
          BY <4>1, <4>2 DEF TypeOK
        <5>2. decoratedModels[p][n - i + 1] \in Model
          BY <5>1 DEF TypeOK
        <5>3. extensions'[p][i] = decoratedModels[p][n - i + 1].class
          BY <1>3, <4>2, ConfigureExtensions
        <5>4. naming[p][decoratedModels[p][n - i + 1].class] \in Name
          BY <5>1, <5>2 DEF NamesAgree, Model
        <5> QED
          BY <3>2, <5>3, <5>4
      <4>3. CASE i \notin 1 .. n
        <5>1. i \in Nat /\ i - n \in 1 .. Len(extensions[p]) /\ i = n + (i - n)
          <6> HIDE DEF n
          <6> QED
            BY <4>1, <4>3
        <5>2. extensions'[p][i] = extensions[p][i - n]
          BY <1>3, <5>1, ConfigureExtensions
        <5> QED
          BY <3>2, <5>1, <5>2 DEF TypeOK
      <4> QED
        BY <4>2, <4>3
    <3> QED
      BY <3>1, <3>2
  <2> QED
    BY <1>3, <2>1, ConfigureExtensions DEF Configure, TypeOK
<1>4. ASSUME NEW p \in Process, Build(p)
      PROVE  TypeOK'
  BY <1>4 DEF Build, TypeOK
<1>5. ASSUME NEW p \in Process, Replay(p)
      PROVE  TypeOK'
  BY <1>5 DEF Replay, TypeOK
<1>6. CASE UNCHANGED vars
  BY <1>6 DEF vars, TypeOK
<1> QED
  BY <1>1, <1>2, <1>3, <1>4, <1>5, <1>6 DEF Next
-----------------------------------------------------------------------------
(* The registry                                                            *)

\* Of an empty registry there is nothing to show.
LEMMA InitRegistry == Init => Registry
BY DEF Init, Registry, NamesAgree, NamesRegistered, BasesLoaded,
       BasesRegisteredFirst

\* Loading a class keeps what is said of the registry.
LEMMA SerializeKeepsRegistry ==
  ASSUME TypeOK, Registry, NEW p \in Process, NEW c \in Class, Serialize(p, c)
  PROVE  Registry'
<1> DEFINE m == decoratedModels[p]
           n == naming[p][c]
<1>1. /\ m \in Seq(Model) /\ DOMAIN m = 1 .. Len(m) /\ Len(m) \in Nat
      /\ \A i \in DOMAIN m : m[i] \in Model
  BY DEF TypeOK
<1>2. naming' = naming
  BY DEF Serialize
<1>3. /\ loaded'[p] = loaded[p] \cup {c}
      /\ \A q \in Process \ {p} : loaded'[q] = loaded[q]
      /\ \A q \in Process \ {p} : decoratedModels'[q] = decoratedModels[q]
      /\ \/ n = None /\ decoratedModels'[p] = m
         \/ n \in Name /\ decoratedModels'[p] = SetModel(m, n, c)
  BY SerializeRegistry DEF TypeOK, Registry
<1>4. c \notin loaded[p] /\ InstanceOf[c] \ {c} \subseteq loaded[p]
  BY DEF Serialize
<1>5. \A i \in DOMAIN m : m[i].class \in loaded[p] /\ m[i].name = naming[p][m[i].class]
  BY DEF Registry, NamesAgree
\* The new entry, if there is one, is for c; the others were there before.
<1>6. ASSUME NEW i \in DOMAIN decoratedModels'[p]
      PROVE  \/ i \in DOMAIN m /\ decoratedModels'[p][i] = m[i]
             \/ /\ decoratedModels'[p][i] = [name |-> n, class |-> c]
                /\ n \in Name
                /\ \/ i \in DOMAIN m /\ m[i].name = n
                   \/ i = Len(m) + 1
  BY <1>1, <1>3, SetModelEntries
<1> HIDE DEF m, n
<1>7. NamesAgree'
  <2>1. ASSUME NEW q \in Process \ {p}, NEW i \in DOMAIN decoratedModels'[q]
        PROVE  /\ decoratedModels'[q][i].class \in loaded'[q]
               /\ decoratedModels'[q][i].name
                    = naming'[q][decoratedModels'[q][i].class]
    BY <1>2, <1>3, <2>1 DEF Registry, NamesAgree
  <2>2. ASSUME NEW i \in DOMAIN decoratedModels'[p]
        PROVE  /\ decoratedModels'[p][i].class \in loaded'[p]
               /\ decoratedModels'[p][i].name
                    = naming'[p][decoratedModels'[p][i].class]
    BY <1>2, <1>3, <1>5, <1>6 DEF n
  <2> QED
    BY <2>1, <2>2 DEF NamesAgree
<1>8. NamesRegistered'
  <2>1. ASSUME NEW q \in Process \ {p}, NEW d \in loaded'[q],
               naming'[q][d] # None
        PROVE  IsModelled(decoratedModels'[q], naming'[q][d])
    BY <1>2, <1>3, <2>1 DEF Registry, NamesRegistered
  <2>2. ASSUME NEW d \in loaded'[p], naming'[p][d] # None
        PROVE  IsModelled(decoratedModels'[p], naming'[p][d])
    <3>1. CASE n = None
      <4>1. d \in loaded[p]
        BY <1>2, <1>3, <2>2, <3>1 DEF n
      <4>2. decoratedModels'[p] = m
        BY <1>3, <3>1, SerializerAssumption
      <4> QED
        BY <1>2, <2>2, <4>1, <4>2 DEF m, Registry, NamesRegistered
    <3>2. CASE n \in Name
      <4>1. decoratedModels'[p] = SetModel(m, n, c)
        BY <1>3, <3>2, SerializerAssumption
      <4>2. /\ DOMAIN m \subseteq DOMAIN SetModel(m, n, c)
            /\ IsModelled(SetModel(m, n, c), n)
        BY <1>1, <3>2, SetModelType
      <4>3. CASE naming[p][d] = n
        BY <1>2, <4>1, <4>2, <4>3
      <4>4. CASE naming[p][d] # n
        <5>1. d \in loaded[p]
          BY <1>3, <4>4 DEF n
        <5>2. PICK i \in DOMAIN m : m[i].name = naming[p][d]
          BY <1>2, <2>2, <5>1 DEF m, Registry, NamesRegistered, IsModelled
        <5>3. SetModel(m, n, c)[i] = m[i]
          BY <1>1, <3>2, <4>2, <4>4, <5>2, SetModelEntries
        <5> QED
          BY <1>2, <4>1, <4>2, <5>2, <5>3 DEF IsModelled
      <4> QED
        BY <4>3, <4>4
    <3> QED
      BY <1>3, <3>1, <3>2
  <2> QED
    BY <2>1, <2>2 DEF NamesRegistered
<1>9. BasesLoaded'
  <2>1. ASSUME NEW q \in Process, NEW d \in loaded'[q]
        PROVE  InstanceOf[d] \subseteq loaded'[q]
    BY <1>3, <1>4, <2>1 DEF Registry, BasesLoaded
  <2> QED
    BY <2>1 DEF BasesLoaded
<1>10. BasesRegisteredFirst'
  <2>1. ASSUME NEW q \in Process \ {p}, NEW i \in DOMAIN decoratedModels'[q],
               NEW j \in DOMAIN decoratedModels'[q],
               ~NameClash(decoratedModels'[q][i].class),
               Extends(decoratedModels'[q][i].class, decoratedModels'[q][j].class)
        PROVE  j < i
    BY <1>3, <2>1 DEF Registry, BasesRegisteredFirst
  <2>2. ASSUME NEW i \in DOMAIN decoratedModels'[p],
               NEW j \in DOMAIN decoratedModels'[p],
               ~NameClash(decoratedModels'[p][i].class),
               Extends(decoratedModels'[p][i].class, decoratedModels'[p][j].class)
        PROVE  j < i
    <3>1. CASE decoratedModels'[p][i] = [name |-> n, class |-> c] /\ n \in Name
      <4>1. \A k \in DOMAIN m : m[k].name # n
        <5>1. SUFFICES ASSUME NEW k \in DOMAIN m, m[k].name = n
                       PROVE  FALSE
          OBVIOUS
        <5>2. /\ m[k].class \in Class \ {c}
              /\ naming[p][m[k].class] = naming[p][c] /\ naming[p][c] # None
          BY <1>1, <1>4, <1>5, <3>1, <5>1, SerializerAssumption DEF n, Model
        <5> QED
          BY <2>2, <3>1, <5>2 DEF NameClash
      <4>2. i = Len(m) + 1
        BY <1>5, <1>6, <3>1, <4>1, <1>4
      <4>3. j \in DOMAIN m
        BY <1>6, <2>2, <3>1 DEF Extends
      <4> QED
        BY <1>1, <4>2, <4>3
    <3>2. CASE i \in DOMAIN m /\ decoratedModels'[p][i] = m[i]
      <4>1. m[i].class \in loaded[p] /\ InstanceOf[m[i].class] \subseteq loaded[p]
        BY <1>5, <3>2 DEF Registry, BasesLoaded
      <4>2. j \in DOMAIN m /\ decoratedModels'[p][j] = m[j]
        BY <1>4, <1>6, <2>2, <3>2, <4>1 DEF Extends
      <4> QED
        BY <2>2, <3>2, <4>2 DEF m, Registry, BasesRegisteredFirst
    <3> QED
      BY <1>6, <3>1, <3>2
  <2> QED
    BY <1>2, <2>1, <2>2 DEF BasesRegisteredFirst, NameClash
<1> QED
  BY <1>7, <1>8, <1>9, <1>10 DEF Registry

\* No other step touches it.
LEMMA NextRegistry == TypeOK /\ Registry /\ [Next]_vars => Registry'
<1> SUFFICES ASSUME TypeOK, Registry, [Next]_vars
             PROVE  Registry'
  OBVIOUS
<1>1. CASE UNCHANGED <<naming, loaded, decoratedModels>>
  BY <1>1 DEF Registry, NamesAgree, NamesRegistered, BasesLoaded,
              BasesRegisteredFirst, NameClash
<1>2. ASSUME NEW p \in Process, NEW c \in Class, Serialize(p, c)
      PROVE  Registry'
  BY <1>2, SerializeKeepsRegistry
<1> QED
  BY <1>1, <1>2 DEF Next, Execute, Configure, Build, Replay, vars
-----------------------------------------------------------------------------
(* The extensions                                                          *)

Extended == ConfiguredRegistered /\ OwnExtensionFirst

\* A class that has its name for itself stays in the registry when another one
\* is loaded.
LEMMA SerializeKeepsExtended ==
  ASSUME TypeOK, Registry, Extended,
         NEW p \in Process, NEW c \in Class, Serialize(p, c)
  PROVE  Extended'
<1> DEFINE m == decoratedModels[p]
           n == naming[p][c]
<1>1. naming' = naming /\ extensions' = extensions
  BY DEF Serialize
<1>2. /\ m \in Seq(Model)
      /\ \A q \in Process \ {p} : decoratedModels'[q] = decoratedModels[q]
      /\ \/ n = None /\ decoratedModels'[p] = m
         \/ n \in Name /\ decoratedModels'[p] = SetModel(m, n, c)
  BY SerializeRegistry DEF TypeOK, Registry
<1>3. ASSUME NEW j \in DOMAIN m, ~NameClash(m[j].class)
      PROVE  j \in DOMAIN decoratedModels'[p] /\ decoratedModels'[p][j] = m[j]
  <2>1. CASE n \in Name /\ decoratedModels'[p] = SetModel(m, n, c)
    <3>1. /\ m[j].class \in Class \ {c}
          /\ naming[p][m[j].class] = m[j].name /\ m[j].name # None
      <4>1. m[j] \in Model
        BY <1>2
      <4>2. m[j].class \in Class /\ m[j].name \in Name
        BY <4>1 DEF Model
      <4>3. m[j].class \in loaded[p] /\ naming[p][m[j].class] = m[j].name
        BY DEF Registry, NamesAgree
      <4>4. c \notin loaded[p]
        BY DEF Serialize
      <4> QED
        BY <4>2, <4>3, <4>4, SerializerAssumption
    <3>2. m[j].name # n
      BY <1>3, <3>1 DEF NameClash
    <3>3. j \in DOMAIN SetModel(m, n, c)
      BY <1>2, <2>1, SetModelType
    <3> QED
      BY <1>2, <2>1, <3>2, <3>3, SetModelEntries
  <2> QED
    BY <1>2, <2>1
<1> HIDE DEF m, n
<1>4. ASSUME NEW q \in Process, NEW i \in DOMAIN extensions[q],
             ~NameClash(extensions[q][i])
      PROVE  \E j \in DOMAIN decoratedModels'[q] :
               decoratedModels'[q][j].class = extensions[q][i]
  <2>1. PICK j \in DOMAIN decoratedModels[q] :
          decoratedModels[q][j].class = extensions[q][i]
    BY <1>4 DEF Extended, ConfiguredRegistered
  <2> QED
    BY <1>2, <1>3, <1>4, <2>1 DEF m
<1>5. ConfiguredRegistered'
  BY <1>1, <1>4 DEF ConfiguredRegistered, NameClash
<1>6. OwnExtensionFirst'
  BY <1>1 DEF Extended, OwnExtensionFirst, NameClash, Extends
<1> QED
  BY <1>5, <1>6 DEF Extended

\* configure puts every class in front of its base classes.
LEMMA ConfigureKeepsExtended ==
  ASSUME TypeOK, Registry, Extended, NEW p \in Process, Configure(p)
  PROVE  Extended'
<1> DEFINE m == decoratedModels[p]
           x == extensions[p]
           y == extensions'[p]
           n == Len(m)
<1>1. naming' = naming /\ decoratedModels' = decoratedModels
  BY DEF Configure
<1>2. /\ DOMAIN m = 1 .. n /\ n \in Nat
      /\ DOMAIN x = 1 .. Len(x) /\ Len(x) \in Nat
  BY DEF TypeOK
<1>3. /\ DOMAIN y = 1 .. n + Len(x)
      /\ \A i \in 1 .. n : y[i] = m[n - i + 1].class
      /\ \A i \in 1 .. Len(x) : y[n + i] = x[i]
      /\ \A q \in Process \ {p} : extensions'[q] = extensions[q]
  BY ConfigureExtensions
<1> HIDE DEF m, x, y, n
<1>4. ASSUME NEW i \in DOMAIN y, ~NameClash(y[i])
      PROVE  \E a \in DOMAIN m : m[a].class = y[i]
  <2>1. CASE i \in 1 .. n
    <3>1. n - i + 1 \in DOMAIN m
      BY <1>2, <2>1
    <3> QED
      BY <1>3, <2>1, <3>1
  <2>2. CASE i \notin 1 .. n
    <3>1. i \in Nat /\ i - n \in DOMAIN x /\ i = n + (i - n)
      BY <1>2, <1>3, <2>2
    <3>2. y[i] = x[i - n]
      BY <1>2, <1>3, <3>1
    <3> QED
      BY <1>4, <3>1, <3>2 DEF m, x, Extended, ConfiguredRegistered
  <2> QED
    BY <2>1, <2>2
<1>5. ConfiguredRegistered'
  <2>1. ASSUME NEW q \in Process, NEW i \in DOMAIN extensions'[q],
               ~NameClash(extensions'[q][i])
        PROVE  \E j \in DOMAIN decoratedModels[q] :
                 decoratedModels[q][j].class = extensions'[q][i]
    <3>1. CASE q = p
      BY <1>4, <2>1, <3>1 DEF m, y
    <3>2. CASE q # p
      BY <1>3, <2>1, <3>2 DEF Extended, ConfiguredRegistered
    <3> QED
      BY <3>1, <3>2
  <2> QED
    BY <1>1, <2>1 DEF ConfiguredRegistered, NameClash
<1>6. ASSUME NEW i \in DOMAIN y, NEW j \in DOMAIN y,
             ~NameClash(y[i]), Extends(y[i], y[j])
      PROVE  \E k \in DOMAIN y : k < j /\ y[k] = y[i]
  <2>1. PICK a \in DOMAIN m : m[a].class = y[i]
    BY <1>4, <1>6
  <2>2. /\ n - a + 1 \in 1 .. n /\ n - a + 1 \in DOMAIN y
        /\ n - (n - a + 1) + 1 = a
    BY <1>2, <1>3
  <2>3. y[n - a + 1] = y[i]
    BY <1>3, <2>1, <2>2
  <2>4. n - a + 1 < j
    <3>1. CASE j \in 1 .. n
      <4>1. n - j + 1 \in DOMAIN m /\ y[j] = m[n - j + 1].class
        <5>1. n - j + 1 \in 1 .. n
          BY <1>2, <3>1
        <5> QED
          BY <1>2, <1>3, <3>1, <5>1
      <4>2. n - j + 1 < a
        BY <1>6, <2>1, <4>1 DEF m, Registry, BasesRegisteredFirst
      <4> QED
        BY <1>2, <3>1, <4>2
    <3>2. CASE j \notin 1 .. n
      BY <1>2, <1>3, <2>2, <3>2
    <3> QED
      BY <3>1, <3>2
  <2> QED
    BY <2>2, <2>3, <2>4
<1>7. OwnExtensionFirst'
  <2>1. ASSUME NEW q \in Process, NEW i \in DOMAIN extensions'[q],
               NEW j \in DOMAIN extensions'[q],
               ~NameClash(extensions'[q][i]),
               Extends(extensions'[q][i], extensions'[q][j])
        PROVE  \E k \in DOMAIN extensions'[q] :
                 k < j /\ extensions'[q][k] = extensions'[q][i]
    <3>1. CASE q = p
      BY <1>6, <2>1, <3>1 DEF y
    <3>2. CASE q # p
      BY <1>3, <2>1, <3>2 DEF Extended, OwnExtensionFirst
    <3> QED
      BY <3>1, <3>2
  <2> QED
    BY <1>1, <2>1 DEF OwnExtensionFirst, NameClash, Extends
<1> QED
  BY <1>5, <1>7 DEF Extended

\* No other step touches the registry, the names or the extensions.
LEMMA NextExtended == TypeOK /\ Registry /\ Extended /\ [Next]_vars => Extended'
<1> SUFFICES ASSUME TypeOK, Registry, Extended, [Next]_vars
             PROVE  Extended'
  OBVIOUS
<1>1. CASE UNCHANGED <<naming, decoratedModels, extensions>>
  BY <1>1 DEF Extended, ConfiguredRegistered, OwnExtensionFirst, NameClash,
              Extends
<1>2. ASSUME NEW p \in Process, NEW c \in Class, Serialize(p, c)
      PROVE  Extended'
  BY <1>2, SerializeKeepsExtended
<1>3. ASSUME NEW p \in Process, Configure(p)
      PROVE  Extended'
  BY <1>3, ConfigureKeepsExtended
<1> QED
  BY <1>1, <1>2, <1>3 DEF Next, Execute, Build, Replay, vars

-----------------------------------------------------------------------------
(* The result                                                              *)

Kept == StoredNamed /\ GivenStored /\ DecodedAsWritten

\* What execute stores carries the name of the class itself if that class was
\* configured and has its name for itself.
LEMMA PackNamed ==
  ASSUME TypeOK, OwnExtensionFirst, NEW p \in Process, NEW c \in Class,
         NEW w \in Wire, Pack(p, c, w)
  PROVE  /\ w.made = c /\ w.by = p
         /\ w.form = "tagged" => \E d \in Class : naming[p][d] = w.name
         /\ w.known /\ ~NameClash(c) =>
              w.form = "tagged" /\ w.name = naming[p][c]
<1> DEFINE x == extensions[p]
<1>1. /\ DOMAIN x = 1 .. Len(x) /\ Len(x) \in Nat
      /\ \A i \in DOMAIN x : x[i] \in Class
  BY DEF TypeOK
<1>2. w.made = c /\ w.by = p
  BY DEF Pack
<1>3. w.known => \E i \in DOMAIN x : x[i] = c
  BY DEF Pack, HasExtension
<1>4. ASSUME w.form = "tagged"
      PROVE  \E i \in Fits(p, c) :
               /\ \A j \in Fits(p, c) : i <= j
               /\ w.name = naming[p][x[i]]
  BY <1>4 DEF Pack
<1>5. w.form = "tagged" => \E d \in Class : naming[p][d] = w.name
  BY <1>1, <1>4 DEF Fits
<1>6. ASSUME w.known, ~NameClash(c)
      PROVE  w.form = "tagged" /\ w.name = naming[p][c]
  <2>1. PICK k \in DOMAIN x : x[k] = c
    BY <1>3, <1>6
  <2>2. k \in Fits(p, c)
    BY <2>1, SerializerAssumption DEF Fits
  <2>3. w.form = "tagged"
    BY <2>2 DEF Pack
  <2>4. PICK i \in Fits(p, c) :
          (\A j \in Fits(p, c) : i <= j) /\ w.name = naming[p][x[i]]
    BY <1>4, <2>3
  <2>5. x[i] = c
    <3>1. SUFFICES ASSUME x[i] # c
                   PROVE  FALSE
      OBVIOUS
    <3>2. i \in DOMAIN x /\ Extends(x[k], x[i]) /\ ~NameClash(x[k])
      BY <1>6, <2>1, <3>1 DEF Fits, Extends
    <3>3. PICK h \in DOMAIN x : h < i /\ x[h] = c
      BY <2>1, <3>2 DEF OwnExtensionFirst
    <3>4. h \in Fits(p, c)
      BY <3>3, SerializerAssumption DEF Fits
    <3> QED
      BY <1>1, <2>4, <3>2, <3>3, <3>4
  <2> QED
    BY <2>3, <2>4, <2>5
<1> QED
  BY <1>2, <1>5, <1>6

\* The first result is given as it is, and stored as PackNamed says.
LEMMA ExecuteKept ==
  ASSUME TypeOK, OwnExtensionFirst, Kept,
         NEW p \in Process, NEW c \in Class, Execute(p, c)
  PROVE  Kept'
<1>1. PICK w \in Wire : Pack(p, c, w) /\ stored' = w
  BY DEF Execute
<1>2. /\ naming' = naming /\ stored = None /\ stored' # None
      /\ given' = [given EXCEPT ![p] = [form |-> "instance", class |-> c]]
  BY <1>1, NoneAssumption DEF Execute
<1>3. /\ w.made = c /\ w.by = p
      /\ w.form = "tagged" => \E d \in Class : naming[p][d] = w.name
      /\ w.known /\ ~NameClash(c) =>
           w.form = "tagged" /\ w.name = naming[p][c]
  BY <1>1, PackNamed
<1>4. StoredNamed'
  BY <1>1, <1>2, <1>3 DEF StoredNamed, NameClash
<1>5. GivenStored'
  BY <1>2 DEF GivenStored
<1>6. \A q \in Process : given'[q] = None \/ q = p
  BY <1>2 DEF Kept, GivenStored, TypeOK
<1>7. given'[p] = [form |-> "instance", class |-> c]
  BY <1>2 DEF TypeOK
<1>8. DecodedAsWritten'
  BY <1>1, <1>3, <1>6, <1>7 DEF DecodedAsWritten
<1> QED
  BY <1>4, <1>5, <1>8 DEF Kept

\* The only class of the reader's version that has the written name is the one
\* whose instance was stored.
LEMMA ReplayKept ==
  ASSUME TypeOK, NamesAgree, Kept, NEW p \in Process, Replay(p)
  PROVE  Kept'
<1>1. PICK r \in Result : Unpack(p, stored, r) /\ given' = [given EXCEPT ![p] = r]
  BY DEF Replay
<1>2. naming' = naming /\ stored' = stored /\ stored # None /\ stored \in Wire
  BY DEF Replay, TypeOK
<1>3. given'[p] = r /\ \A q \in Process \ {p} : given'[q] = given[q]
  BY <1>1 DEF TypeOK
<1>4. ASSUME stored.known, ~NameClash(stored.made)
      PROVE  r = [form |-> "instance", class |-> stored.made] \/ r.form = "refused"
  <2>1. stored.form = "tagged" /\ stored.name = naming[stored.by][stored.made]
    BY <1>2, <1>4 DEF Kept, StoredNamed
  <2>2. stored.by \in Process /\ stored.made \in Class /\ stored.name \in Name
    BY <1>2, <2>1 DEF Wire
  <2>3. CASE r = [form |-> "refused"]
    BY <2>3
  <2>4. CASE \E i \in DOMAIN decoratedModels[p] :
               /\ decoratedModels[p][i].name = stored.name
               /\ r = [form |-> "instance", class |-> decoratedModels[p][i].class]
    <3>1. PICK i \in DOMAIN decoratedModels[p] :
               /\ decoratedModels[p][i].name = stored.name
               /\ r = [form |-> "instance", class |-> decoratedModels[p][i].class]
      BY <2>4
    <3>2. /\ decoratedModels[p][i].class \in Class
          /\ naming[p][decoratedModels[p][i].class] = stored.name
      BY <3>1 DEF TypeOK, NamesAgree, Model
    <3>3. decoratedModels[p][i].class = stored.made
      BY <1>4, <2>1, <2>2, <3>2, SerializerAssumption DEF NameClash
    <3> QED
      BY <3>1, <3>3
  <2> QED
    BY <1>1, <2>1, <2>3, <2>4 DEF Unpack
<1>5. StoredNamed' /\ GivenStored'
  BY <1>2 DEF Kept, StoredNamed, GivenStored, NameClash
<1>6. DecodedAsWritten'
  <2>1. ASSUME NEW q \in Process, stored.known, ~NameClash(stored.made),
               given'[q] # None
        PROVE  \/ given'[q] = [form |-> "instance", class |-> stored.made]
               \/ given'[q].form = "refused"
    BY <1>2, <1>3, <1>4, <2>1 DEF Kept, DecodedAsWritten
  <2> QED
    BY <1>2, <2>1 DEF DecodedAsWritten, NameClash
<1> QED
  BY <1>5, <1>6 DEF Kept

\* No other step stores or gives anything.
LEMMA NextKept == TypeOK /\ NamesAgree /\ OwnExtensionFirst /\ Kept /\ [Next]_vars
                    => Kept'
<1> SUFFICES ASSUME TypeOK, NamesAgree, OwnExtensionFirst, Kept, [Next]_vars
             PROVE  Kept'
  OBVIOUS
<1>1. CASE UNCHANGED <<naming, stored, given>>
  BY <1>1 DEF Kept, StoredNamed, GivenStored, DecodedAsWritten, NameClash
<1>2. ASSUME NEW p \in Process, NEW c \in Class, Execute(p, c)
      PROVE  Kept'
  BY <1>2, ExecuteKept
<1>3. ASSUME NEW p \in Process, Replay(p)
      PROVE  Kept'
  BY <1>3, ReplayKept
<1> QED
  BY <1>1, <1>2, <1>3 DEF Next, Serialize, Configure, Build, vars

\* A process that knows the name of every class of the version that stored the
\* result knows the one the bytes carry.
LEMMA ReplayNotRefused ==
  ASSUME TypeOK, NamesRegistered, StoredNamed, NEW p \in Process, Replay(p),
         loaded[p] = Class, extensions[p] # <<>>, given'[p].form = "refused"
  PROVE  naming[p] # naming[stored.by]
<1> SUFFICES ASSUME naming[p] = naming[stored.by]
             PROVE  FALSE
  OBVIOUS
<1>1. PICK r \in Result : Unpack(p, stored, r) /\ given' = [given EXCEPT ![p] = r]
  BY DEF Replay
<1>2. r.form = "refused"
  BY <1>1 DEF TypeOK
<1>3. stored.form = "tagged" /\ ~IsModelled(decoratedModels[p], stored.name)
  BY <1>1, <1>2 DEF Unpack
<1>4. stored \in Wire /\ stored # None
  BY DEF Replay, TypeOK
<1>5. stored.name \in Name
  BY <1>3, <1>4 DEF Wire
<1>6. PICK c \in Class : naming[p][c] = stored.name
  BY <1>3, <1>4 DEF StoredNamed
<1> QED
  BY <1>3, <1>5, <1>6, SerializerAssumption DEF NamesRegistered

-----------------------------------------------------------------------------
(* Theorems                                                                *)

\* What the properties need of every state, inductive.
SerializerInv == TypeOK /\ Registry /\ Extended /\ Kept

\* The strengthened invariant holds of every reachable state.
LEMMA SerializerInvariant == Spec => []SerializerInv
<1>1. Init => SerializerInv
  <2>1. Init => Extended /\ Kept
    BY DEF Init, Extended, ConfiguredRegistered, OwnExtensionFirst, Kept,
           StoredNamed, GivenStored, DecodedAsWritten
  <2> QED
    BY <2>1, InitType, InitRegistry DEF SerializerInv
<1>2. SerializerInv /\ [Next]_vars => SerializerInv'
  <2> SUFFICES ASSUME SerializerInv, [Next]_vars
               PROVE  SerializerInv'
    OBVIOUS
  <2>1. TypeOK /\ Registry /\ Extended /\ Kept /\ NamesAgree /\ OwnExtensionFirst
    BY DEF SerializerInv, Registry, Extended
  <2> QED
    BY <2>1, NextType, NextRegistry, NextExtended, NextKept DEF SerializerInv
<1> QED
  BY <1>1, <1>2, PTL DEF Spec

\* The registry, the extensions, the bytes and the results have their types,
\* for any number of processes and whatever classes and versions there are.
THEOREM SerializerTypes == Spec => []TypeOK
<1>1. SerializerInv => TypeOK
  BY DEF SerializerInv
<1> QED
  BY <1>1, SerializerInvariant, PTL

\* A configured class that has its name for itself comes back as itself or not
\* at all: under any hierarchy, any order of decoration, any number of calls of
\* configure and any versions of the code.
THEOREM ResultsDecoded == Spec => []DecodedAsWritten
<1>1. SerializerInv => DecodedAsWritten
  BY DEF SerializerInv, Kept
<1> QED
  BY <1>1, SerializerInvariant, PTL

\* A process ready for the version that stored the result is not refused it.
THEOREM ReadyServed == Spec => ReadyNotRefused
<1> DEFINE Ready(p) ==
             /\ stored # None /\ loaded[p] = Class /\ extensions[p] # <<>>
             /\ given'[p] # given[p] /\ given'[p].form = "refused"
             => naming[p] # naming[stored.by]
<1>1. SerializerInv /\ [Next]_vars => [\A p \in Process : Ready(p)]_vars
  <2> SUFFICES ASSUME SerializerInv, Next, NEW p \in Process, stored # None,
                      loaded[p] = Class, extensions[p] # <<>>,
                      given'[p] # given[p], given'[p].form = "refused"
               PROVE  naming[p] # naming[stored.by]
    OBVIOUS
  <2>1. ASSUME NEW q \in Process, Replay(q)
        PROVE  q = p
    BY <2>1 DEF Replay, SerializerInv, TypeOK
  <2>2. ~\E q \in Process, c \in Class : Execute(q, c)
    BY DEF Execute
  <2>3. ~UNCHANGED given
    OBVIOUS
  <2>4. Replay(p)
    BY <2>1, <2>2, <2>3 DEF Next, Serialize, Configure, Build
  <2> QED
    BY <2>4, ReplayNotRefused DEF SerializerInv, Registry, Kept
<1> QED
  BY <1>1, SerializerInvariant, PTL DEF Spec, ReadyNotRefused
=============================================================================
