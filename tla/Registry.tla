------------------------------ MODULE Registry ------------------------------
(***************************************************************************)
(* bundle.Registry: the concept types a deployment accepts.  Each owns one *)
(* top-level folder, and the folder a concept lives in decides its type.   *)
(* A name is a word and the way it is capitalised: names are compared      *)
(* ignoring case and stored as the registry has them.                      *)
(***************************************************************************)
EXTENDS Naturals, Sequences

CONSTANTS
    Word,        \* names, ignoring case
    Folder,      \* top-level folders
    Registered,  \* the registry: a sequence of types
    FolderOf     \* concept path -> its top-level folder (TopFolder)

Name == [word : Word, casing : {"registered", "other"}]

ConceptType == [name : Name, folder : Folder]

EqualFold(a, b) == a.word = b.word

\* NewRegistry refuses to start the server with any other registry.
ValidRegistry(types) ==
    /\ types \in Seq(ConceptType) /\ types # << >>
    /\ \A j, k \in DOMAIN types : j # k =>
          ~EqualFold(types[j].name, types[k].name) /\ types[j].folder # types[k].folder

ASSUME RegistryAssumption == ValidRegistry(Registered)

\* ForPath: the registered types whose folder p is in, which is one or none.
ForPath(p) == {j \in DOMAIN Registered : Registered[j].folder = FolderOf[p]}

InRegistry(p) == ForPath(p) # {}

TypeFor(p) == Registered[CHOOSE j \in ForPath(p) : TRUE].name

\* Resolve succeeds if the folder is registered and the requested type, if
\* there is one ({name}, not {}), is the folder's in any casing.
Resolves(p, requested) ==
    InRegistry(p) /\ \A name \in requested : EqualFold(name, TypeFor(p))

\* Problem finds nothing wrong with a concept of this type at p.
FollowsFolder(p, type) == InRegistry(p) /\ type = TypeFor(p)
=============================================================================
