----------------------------- MODULE Serializer -----------------------------
(***************************************************************************)
(* What becomes of a task's result that one process stores and another one *)
(* is given: the registry of classes marked with @Serialize, the           *)
(* MessagePack serializer configured from it, and the bytes in between.    *)
(* A process is one life of a Node.js process.  Its modules are loaded,    *)
(* the serializer is configured (or not) and the transformer is built in   *)
(* an order the application chooses; a deployment may load other code,     *)
(* that names the classes differently.                                     *)
(*                                                                         *)
(* Source: packages/core/base/serializer, packages/message-pack-adapter    *)
(* and packages/core/factory.  Of a result, its class alone is modelled.   *)
(***************************************************************************)
EXTENDS Naturals, Sequences

CONSTANTS
  Process,        \* processes that run the workflow, one after the other or not
  Class,          \* classes of which tasks return instances
  InstanceOf,     \* the classes an instance of each is an instanceof
  Contract,       \* classes that have both methods the decorator asks for
  Name,           \* names given to @Serialize
  Naming,         \* names of the decorated classes in each version of the code
  None,           \* no name, no class, no result
  MaxExtensions   \* bound on the extensions of a process

ASSUME SerializerAssumption ==
  /\ InstanceOf \in [Class -> SUBSET Class]
  /\ \A c \in Class : c \in InstanceOf[c]
  /\ Contract \subseteq Class
  /\ Naming \subseteq [Class -> Name \cup {None}]
  /\ None \notin Name /\ None \notin Class
  /\ MaxExtensions \in Nat

VARIABLES
  naming,          \* the version each process runs
  loaded,          \* classes whose definition has been evaluated
  decoratedModels, \* the registry, a Map: entries in the order of their keys
  extensions,      \* classes msgpackr has an extension for, latest first
  built,           \* whether the process has a transformer
  stored,          \* the serialized result in the checkpoint row, or None
  given            \* what execute last returned in each process, or None

vars ==
  <<naming, loaded, decoratedModels, extensions, built, stored, given>>

-----------------------------------------------------------------------------
(* Data                                                                    *)

Model == [name : Name, class : Class]

\* Bytes tagged with a name, or those of a plain object.  Who wrote them, the
\* class the task made, and whether it had an extension by then, are history.
Wire ==
  [form : {"tagged"}, name : Name, by : Process, made : Class, known : BOOLEAN]
    \cup [form : {"plain"}, by : Process, made : Class, known : BOOLEAN]

Instance == [form : {"instance"}, class : Class]
Result == Instance \cup [form : {"plain", "refused"}]

ASSUME NoneAssumption == None \notin Wire \cup Result

IsModelled(m, name) == \E i \in DOMAIN m : m[i].name = name

\* Map.set: a key that is there keeps its place and loses its value.
SetModel(m, name, c) ==
  IF IsModelled(m, name)
  THEN [i \in DOMAIN m |->
          IF m[i].name = name THEN [name |-> name, class |-> c] ELSE m[i]]
  ELSE Append(m, [name |-> name, class |-> c])

-----------------------------------------------------------------------------
(* Set-up                                                                  *)

\* Slip: a class is registered whether or not it has a name.
SerializeUnnamed(p, c) ==
  /\ c \notin loaded[p]
  /\ InstanceOf[c] \ {c} \subseteq loaded[p]
  /\ loaded' = [loaded EXCEPT ![p] = @ \cup {c}]
  /\ decoratedModels' =
       [decoratedModels EXCEPT ![p] = SetModel(@, naming[p][c], c)]
  /\ UNCHANGED <<naming, extensions, built, stored, given>>

\* The module of class c is loaded, after those of the classes it extends.  If
\* c is decorated and lacks a method the decorator throws: c is not loaded.
Serialize(p, c) ==
  /\ c \notin loaded[p]
  /\ InstanceOf[c] \ {c} \subseteq loaded[p]
  /\ naming[p][c] # None => c \in Contract
  /\ loaded' = [loaded EXCEPT ![p] = @ \cup {c}]
  /\ decoratedModels' =
       IF naming[p][c] = None THEN decoratedModels
       ELSE [decoratedModels EXCEPT ![p] = SetModel(@, naming[p][c], c)]
  /\ UNCHANGED <<naming, extensions, built, stored, given>>

\* Slip: extensions searched in the order in which they were added.
ConfigureAppends(p) ==
  /\ Len(extensions[p]) + Len(decoratedModels[p]) <= MaxExtensions
  /\ extensions' = [extensions EXCEPT ![p] =
       @ \o [i \in DOMAIN decoratedModels[p] |-> decoratedModels[p][i].class]]
  /\ UNCHANGED <<naming, loaded, decoratedModels, built, stored, given>>

\* configure adds an extension for each class the registry has by now, and
\* addExtension puts each one in front of those before it.
Configure(p) ==
  LET m == decoratedModels[p]
  IN  /\ Len(extensions[p]) + Len(m) <= MaxExtensions
      /\ extensions' = [extensions EXCEPT ![p] =
           [i \in DOMAIN m |-> m[Len(m) - i + 1].class] \o @]
      /\ UNCHANGED <<naming, loaded, decoratedModels, built, stored, given>>

\* build hands the serializer on as it is; so does the NestJS module's provider,
\* which calls build.
Build(p) ==
  /\ ~built[p]
  /\ built' = [built EXCEPT ![p] = TRUE]
  /\ UNCHANGED <<naming, loaded, decoratedModels, extensions, stored, given>>

-----------------------------------------------------------------------------
(* Storing and decoding                                                    *)

\* Extensions that fit an instance of c.
Fits(p, c) == {i \in DOMAIN extensions[p] : extensions[p][i] \in InstanceOf[c]}

HasExtension(p, c) == \E i \in DOMAIN extensions[p] : extensions[p][i] = c

\* The first extension that fits writes the instance under its own class's
\* name; without one msgpackr packs the properties it can see.
Pack(p, c, w) ==
  /\ w.by = p /\ w.made = c /\ w.known = HasExtension(p, c)
  /\ \/ Fits(p, c) = {} /\ w.form = "plain"
     \/ \E i \in Fits(p, c) :
          /\ \A j \in Fits(p, c) : i <= j
          /\ w.form = "tagged" /\ w.name = naming[p][extensions[p][i]]

\* Slip: names are looked up among the classes configured, not in the registry.
UnpackSnapshot(p, w, r) ==
  \/ w.form = "plain" /\ r = [form |-> "plain"]
  \/ /\ w.form = "tagged"
     /\ \A i \in DOMAIN extensions[p] : naming[p][extensions[p][i]] # w.name
     /\ r = [form |-> "refused"]
  \/ /\ w.form = "tagged"
     /\ \E i \in DOMAIN extensions[p] :
          /\ naming[p][extensions[p][i]] = w.name
          /\ r = [form |-> "instance", class |-> extensions[p][i]]

\* All extensions share type 1 and one read function: it looks the name up in
\* the registry, as it is now.  Without any extension type 1 is unknown.
Unpack(p, w, r) ==
  LET m == decoratedModels[p]
      unknown == extensions[p] = <<>> \/ ~IsModelled(m, w.name)
  IN \/ w.form = "plain" /\ r = [form |-> "plain"]
     \/ w.form = "tagged" /\ unknown /\ r = [form |-> "refused"]
     \/ /\ w.form = "tagged" /\ ~unknown
        /\ \E i \in DOMAIN m :
             m[i].name = w.name /\ r = [form |-> "instance", class |-> m[i].class]

\* The first execute runs the task, stores its result and returns the result
\* itself.
Execute(p, c) ==
  /\ built[p] /\ stored = None /\ c \in loaded[p]
  /\ \E w \in Wire : Pack(p, c, w) /\ stored' = w
  /\ given' = [given EXCEPT ![p] = [form |-> "instance", class |-> c]]
  /\ UNCHANGED <<naming, loaded, decoratedModels, extensions, built>>

\* An execute after it is answered with the row.
Replay(p) ==
  /\ built[p] /\ stored # None
  /\ \E r \in Result : Unpack(p, stored, r) /\ given' = [given EXCEPT ![p] = r]
  /\ UNCHANGED <<naming, loaded, decoratedModels, extensions, built, stored>>

-----------------------------------------------------------------------------
Init ==
  /\ naming \in [Process -> Naming]
  /\ loaded = [p \in Process |-> {}]
  /\ decoratedModels = [p \in Process |-> <<>>]
  /\ extensions = [p \in Process |-> <<>>]
  /\ built = [p \in Process |-> FALSE]
  /\ stored = None
  /\ given = [p \in Process |-> None]

Next ==
  \E p \in Process :
    \/ \E c \in Class : Serialize(p, c) \/ Execute(p, c)
    \/ Configure(p) \/ Build(p) \/ Replay(p)

Spec == Init /\ [][Next]_vars

-----------------------------------------------------------------------------
(* Properties                                                              *)

\* The registry, the extensions, the bytes and the results have their types;
\* in particular an extension always has a name to write.
TypeOK ==
  /\ naming \in [Process -> Naming]
  /\ loaded \in [Process -> SUBSET Class]
  /\ decoratedModels \in [Process -> Seq(Model)]
  /\ extensions \in [Process -> Seq(Class)]
  /\ \A p \in Process : \A i \in DOMAIN extensions[p] :
       naming[p][extensions[p][i]] \in Name
  /\ built \in [Process -> BOOLEAN]
  /\ stored \in Wire \cup {None}
  /\ given \in [Process -> Result \cup {None}]

\* A process has another class under a name that some process has c under.
NameClash(c) ==
  \E d \in Class \ {c} : \E p, q \in Process :
    naming[p][c] # None /\ naming[p][c] = naming[q][d]

\* A result whose class had been configured when it was stored, and whose name
\* is no other class's, is given to every run as an instance of that class, or
\* not at all: whatever base classes it has, in whatever order the classes were
\* decorated, and however often the serializer was configured.
DecodedAsWritten ==
  \A p \in Process :
    /\ stored # None /\ stored.known /\ ~NameClash(stored.made)
    /\ given[p] # None
    => \/ given[p] = [form |-> "instance", class |-> stored.made]
       \/ given[p].form = "refused"

\* A process that has loaded every class, of the version that stored the
\* result, and has configured any, is not refused it, although classes may have
\* been decorated after the last configure.
ReadyNotRefused ==
  [][\A p \in Process :
       /\ stored # None /\ loaded[p] = Class /\ extensions[p] # <<>>
       /\ given'[p] # given[p] /\ given'[p].form = "refused"
       => naming[p] # naming[stored.by]]_vars
=============================================================================
