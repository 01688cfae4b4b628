------------------------ MODULE CircularDependencies ------------------------
(***************************************************************************)
(* The search for circular imports (engine/circular.rs, with the filter of *)
(* production edges of import_graph/cfg_test.rs).  The import graph holds  *)
(* every import; the loops of the graph are candidates, whose files are    *)
(* then read again, within a budget of files, to leave out the imports     *)
(* that production code does not have and to tell the deferred ones.       *)
(*                                                                         *)
(* A pure function: its inputs are chosen at the start, its one step       *)
(* computes the answer.  Files are numbered in the order of their names.   *)
(***************************************************************************)
EXTENDS Integers, FiniteSets, SequencesExt

CONSTANTS
  FileCount,        \* how many files the project has
  Statements,       \* the import statements a project may have: [from, to, timing]
  MaxStatements,    \* bound: how many of them it has
  Declarations,     \* the sets of files that may be declaration files (.d.ts)
  Ancestors,        \* pairs of a Rust submodule and a module that contains it
  Searches          \* [scans, limit]: MAX_SCANNED_FILES and max_results (0: all)

Modules == 1..FileCount

VARIABLES
  language,    \* "rust", or "timed" for JavaScript, TypeScript and Python
  statements,  \* what the files import.  "erased": gated by cfg(test), or a type only
  declared,    \* the declaration files
  search,      \* the limits of this search
  answered,    \* the search was made
  cycles       \* its answer

circularVars == <<language, statements, declared, search, answered, cycles>>

-----------------------------------------------------------------------------
(* FileNode.imports and imported_by: every import, whatever its timing. *)
ImportEdges == {<<s.from, s.to>> : s \in statements}
Importers(file) == {g \in Modules : <<g, file>> \in ImportEdges}
Timings(edge) == {s.timing : s \in {s \in statements : <<s.from, s.to>> = edge}}

(* Which file reaches which, through one more file at a time. *)
Reach(edges) ==
  FoldLeft(LAMBDA r, k : r \union {<<p[1], q[2]>> : p \in {p \in r : p[2] = k},
                                                   q \in {q \in r : q[1] = k}},
           edges, [k \in Modules |-> k])

(* tarjan_scc: the strongly connected components of more than one file. *)
Components(edges) ==
  LET reach == Reach(edges)
  IN  {c \in {{g \in Modules : <<f, g>> \in reach /\ <<g, f>> \in reach} : f \in Modules} :
         Cardinality(c) > 1}

Sorted(files) == SelectSeq([k \in Modules |-> k], LAMBDA k : k \in files)

(* ProductionEdgeFilter::proof: a file is read once, while the budget lasts; *)
(* a declaration file needs no reading.                                      *)
Prove(filter, file) ==
  IF file \in filter.asked THEN filter
  ELSE LET read == file \notin declared /\ filter.budget > 0
       IN  [asked |-> filter.asked \union {file},
            scanned |-> filter.scanned \union (IF read THEN {file} ELSE {}),
            budget |-> filter.budget - (IF read THEN 1 ELSE 0)]

(* A file that could not be read keeps all its edges. *)
IsProductionEdge(filter, edge) ==
  /\ edge[1] \notin declared
  /\ edge[1] \in filter.scanned => Timings(edge) # {"erased"}

IsDeferredSomehow(filter, edge) ==                                  \* mutant
  edge[1] \in filter.scanned /\ "deferred" \in Timings(edge)

(* An edge binds at the earliest of its statements. *)
IsDeferredEdge(filter, edge) ==
  /\ edge[1] \in filter.scanned
  /\ "deferred" \in Timings(edge) /\ "eager" \notin Timings(edge)

(* is_test_only_file: asks one importer after the other, in the whole graph, *)
(* until one of them uses the file in production.                            *)
AskImporters(filter, file) ==
  FoldLeft(LAMBDA st, importer :
             IF ~ st.testOnly THEN st
             ELSE LET after == Prove(st.filter, importer)
                  IN  [filter |-> after,
                       testOnly |-> ~ IsProductionEdge(after, <<importer, file>>)],
           [filter |-> filter, testOnly |-> language = "rust" /\ Importers(file) # {}],
           IF language = "rust" THEN Sorted(Importers(file)) ELSE <<>>)

(* is_rust_submodule_to_ancestor *)
IsModuleTree(edge) == language = "rust" /\ edge \in Ancestors

(* production_subcycles, the loop over the files of a candidate *)
Visit(st, file, members) ==
  LET asked == AskImporters(st.filter, file)
      edges == {e \in ImportEdges : e[1] = file /\ e[2] \in members /\ ~ IsModuleTree(e)}
      after == IF edges = {} THEN asked.filter ELSE Prove(asked.filter, file)
  IN  IF asked.testOnly THEN [st EXCEPT !.filter = asked.filter]
      ELSE [filter |-> after,
            kept |-> st.kept \union {e \in edges : IsProductionEdge(after, e)}]

(* All candidates share one filter, hence one budget. *)
Filtered ==
  FoldLeft(LAMBDA st, members :
             FoldLeft(LAMBDA s, file : Visit(s, file, members), st, Sorted(members)),
           [filter |-> [asked |-> {}, scanned |-> {}, budget |-> search.scans], kept |-> {}],
           SetToSortSeq(Components(ImportEdges), LAMBDA c, d : Sorted(c)[1] < Sorted(d)[1]))

(* A component is load-time when its eager edges alone still loop. *)
ProductionSubcycles ==
  LET result == Filtered
      eager == {e \in result.kept : ~ IsDeferredEdge(result.filter, e)}
      loadTime == UNION Components(eager)
  IN  {[files |-> c, deferred |-> c \intersect loadTime = {}] : c \in Components(result.kept)}

(* Load-time cycles first, then the longer, then by name. *)
ListedBefore(c, d) ==
  \/ ~ c.deferred /\ d.deferred
  \/ c.deferred = d.deferred
     /\ \/ Cardinality(c.files) > Cardinality(d.files)
        \/ Cardinality(c.files) = Cardinality(d.files)
             /\ Sorted(c.files)[1] < Sorted(d.files)[1]

-----------------------------------------------------------------------------
CircularInit ==
  /\ language \in {"rust", "timed"}
  /\ statements \in UNION {kSubset(k, Statements) : k \in 0..MaxStatements}
  /\ declared \in Declarations
  /\ language = "rust" => declared = {} /\ \A s \in statements : s.timing # "deferred"
  /\ search \in Searches
  /\ answered = FALSE
  /\ cycles = <<>>

(* find_circular_dependencies *)
FindCircularDependencies ==
  LET found == SetToSortSeq(ProductionSubcycles, ListedBefore)
  IN  /\ cycles' = IF search.limit > 0 /\ Len(found) > search.limit
                     THEN SubSeq(found, 1, search.limit) ELSE found
      /\ answered' = TRUE
      /\ UNCHANGED <<language, statements, declared, search>>

CircularNext == FindCircularDependencies
CircularSpec == CircularInit /\ [][CircularNext]_circularVars

-----------------------------------------------------------------------------
CircularTypeOK ==
  /\ language \in {"rust", "timed"}
  /\ statements \subseteq Statements
  /\ declared \subseteq Modules
  /\ search \in Searches
  /\ answered \in BOOLEAN
  /\ cycles \in Seq([files : SUBSET Modules, deferred : BOOLEAN])

(* The imports that production code has, by the files alone: no budget, no   *)
(* candidates, no filter.                                                    *)
TestOnlyModules ==
  {f \in Modules : language = "rust" /\ Importers(f) # {}
                     /\ \A g \in Importers(f) : Timings(<<g, f>>) = {"erased"}}
ProductionImports ==
  {e \in ImportEdges : Timings(e) # {"erased"} /\ e[1] \notin declared \union TestOnlyModules
                     /\ ~ IsModuleTree(e)}
LoadTimeImports == {e \in ProductionImports : "eager" \in Timings(e)}

(* The loops of a graph, step by step and without components: the ways        *)
(* through different files that lead back to the first.                       *)
Rounds == {w \in UNION {[1..n -> Modules] : n \in 2..FileCount} : IsInjective(w)}
Loops(edges) ==
  {Range(w) : w \in {w \in Rounds :
     \A i \in DOMAIN w : <<w[i], w[(i % Len(w)) + 1]>> \in edges}}

Listed(loop) == {i \in DOMAIN cycles : loop \subseteq cycles[i].files}

(* What the answer says of the loops of the production imports, which the     *)
(* code finds by two passes of components and a filter with a budget: every   *)
(* load-time loop is listed, as such, unless the list is full of load-time    *)
(* ones; every loop is listed unless the list is full; and when the budget    *)
(* reaches every file, what is listed is a loop, deferred only if no loop     *)
(* through its files happens at load time.                                    *)
LoopsAreTold ==
  LET full == search.limit > 0 /\ Len(cycles) = search.limit
      loops == Loops(ProductionImports)
      loadTime == Loops(LoadTimeImports)
  IN  answered =>
        /\ \A l \in loadTime :
             \/ \E i \in Listed(l) : ~ cycles[i].deferred
             \/ full /\ \A i \in DOMAIN cycles : ~ cycles[i].deferred
        /\ full \/ \A l \in loops : Listed(l) # {}
        /\ search.scans >= FileCount => \A i \in DOMAIN cycles :
             /\ cycles[i].files = UNION {l \in loops : l \subseteq cycles[i].files}
             /\ cycles[i].deferred = ({l \in loadTime : l \subseteq cycles[i].files} = {})
=============================================================================
