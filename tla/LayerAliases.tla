---------------------------- MODULE LayerAliases ----------------------------
(***************************************************************************)
(* HonuaSession of honua_gp: the layer aliases and unbound output names of  *)
(* one session, and the shim calls that share them from several threads.    *)
(*                                                                         *)
(* Each session method holds the session's lock, but a call is several of   *)
(* them: one action per locked section, or per request to the server.       *)
(* Alias objects live in a heap, because a call keeps the object it looked  *)
(* up while the name may be bound to another one.                           *)
(***************************************************************************)
EXTENDS Integers, FiniteSets

CONSTANTS
  Threads,
  Names,       \* names that can be an alias, an output, or a workspace path
  Objects,     \* alias objects; those nobody refers to are reused
  NoObject,
  Jobs,        \* jobs, and the inline results they return; bounds the tool calls
  NoJob,
  Layers,      \* honua:// layer URIs, which resolve to themselves
  Rows,        \* a where clause is the set of rows it selects
  NoWhere

ASSUME HeapAssumption ==
  /\ NoObject \notin Objects
  /\ NoJob \notin Jobs \cup Names \cup Layers
  /\ NoWhere \notin {rows : rows \in SUBSET Rows}
  /\ Names \cap Layers = {} /\ Jobs \cap (Names \cup Layers) = {}
  /\ IsFiniteSet(Names) /\ Names # {} /\ IsFiniteSet(Threads)
  /\ Cardinality(Objects) >= Cardinality(Names) + Cardinality(Threads)

VARIABLES
  pc, op,
  inn, out,      \* the input and output names of a call
  src,           \* what the input resolved to
  obj,           \* the alias object the call keeps
  arg,           \* the where clause it was called with
  whr,           \* the where clause it will use
  res,           \* the inline result it will bind, or pass on
  layers,        \* _layers
  unbound,       \* _unbound_outputs
  overwrite,     \* env.overwriteOutput
  heap,          \* heap[o]: the alias object o
  done,          \* the jobs that succeeded
  asked,         \* history: outputs asked for and not bound since
  late,          \* history: the calls whose input was asked for when they began
  stable         \* history: the calls whose input was not touched meanwhile

locals == <<op, inn, out, src, obj, arg, whr, res>>
vars == <<pc, locals, layers, unbound, overwrite, heap, done, asked, late, stable>>

Ops == {"tool", "make", "select", "read"}
Paths == Names \cup Layers
Sources == Paths \cup Jobs
Wheres == {rows : rows \in SUBSET Rows} \cup {NoWhere}
PCs == {"idle", "marking", "resolving", "unaliased", "resolved", "dissolving",
        "reserving", "running", "binding", "registering", "reading"}

\* LayerAlias, and a history: whether its where clause is the one the layer was made
\* with, which no server has seen, or a selection, which was counted on the
\* layer's own dataset or was not.
Alias == [source : Sources, output : Jobs \cup {NoJob}, where : Wheres,
          vetted : {"made", "counted", "uncounted"}]

TypeOK ==
  /\ pc \in [Threads -> PCs]
  /\ op \in [Threads -> Ops]
  /\ inn \in [Threads -> Paths]
  /\ out \in [Threads -> Names]
  /\ src \in [Threads -> Sources \cup {NoJob}]
  /\ obj \in [Threads -> Objects \cup {NoObject}]
  /\ arg \in [Threads -> Wheres]
  /\ whr \in [Threads -> Wheres]
  /\ res \in [Threads -> Jobs \cup {NoJob}]
  /\ layers \in [Names -> Objects \cup {NoObject}]
  /\ unbound \in SUBSET Names
  /\ overwrite \in BOOLEAN
  /\ heap \in [Objects -> Alias]
  /\ done \in SUBSET Jobs
  /\ asked \in SUBSET Names
  /\ late \in SUBSET Threads
  /\ stable \in SUBSET Threads

Blank == [source |-> CHOOSE p \in Paths : TRUE, output |-> NoJob, where |-> NoWhere,
          vetted |-> "made"]

Init ==
  /\ pc = [t \in Threads |-> "idle"]
  /\ op = [t \in Threads |-> "read"]
  /\ inn = [t \in Threads |-> Blank.source]
  /\ out = [t \in Threads |-> CHOOSE n \in Names : TRUE]
  /\ src = [t \in Threads |-> NoJob]
  /\ obj = [t \in Threads |-> NoObject]
  /\ arg = [t \in Threads |-> NoWhere]
  /\ whr = [t \in Threads |-> NoWhere]
  /\ res = [t \in Threads |-> NoJob]
  /\ layers = [n \in Names |-> NoObject]
  /\ unbound = {}
  /\ overwrite \in BOOLEAN
  /\ heap = [o \in Objects |-> Blank]
  /\ done = {}
  /\ asked = {}
  /\ late = {}
  /\ stable = {}

-----------------------------------------------------------------------------
(* The session's methods *)

\* get_layer; a URI is never an alias.
LayerOf(p) == IF p \in Names THEN layers[p] ELSE NoObject

Used(ls, os) == {ls[n] : n \in Names} \cup {os[t] : t \in Threads}

\* Objects nobody refers to any more are collected.
Collected(h, ls, os) == [o \in Objects |-> IF o \in Used(ls, os) THEN h[o] ELSE Blank]

Free == CHOOSE o \in Objects : o \notin Used(layers, obj)

\* Mutant: the check made when the output was reserved is relied upon.
RegisterUnchecked(t, alias) ==
  /\ layers' = [layers EXCEPT ![out[t]] = Free]
  /\ heap' = Collected([heap EXCEPT ![Free] = alias], layers', obj)
  /\ unbound' = unbound \ {out[t]}
  /\ asked' = asked \ {out[t]}
  /\ stable' = stable \ {u \in Threads : u = t \/ inn[u] = out[t]}

\* register_layer: check, publish and clear the mark under one lock.
Register(t, alias) ==
  /\ overwrite \/ layers[out[t]] = NoObject
  /\ layers' = [layers EXCEPT ![out[t]] = Free]
  /\ heap' = Collected([heap EXCEPT ![Free] = alias], layers', obj)
  /\ unbound' = unbound \ {out[t]}
  /\ asked' = asked \ {out[t]}
  /\ stable' = stable \ {u \in Threads : u = t \/ inn[u] = out[t]}

-----------------------------------------------------------------------------
(* The calls *)

Goto(t, p) == pc' = [pc EXCEPT ![t] = p]

\* A call returns or raises, and its locals go.
Finish(t) ==
  /\ Goto(t, "idle")
  /\ op' = [op EXCEPT ![t] = "read"]
  /\ inn' = [inn EXCEPT ![t] = Blank.source]
  /\ out' = [out EXCEPT ![t] = CHOOSE n \in Names : TRUE]
  /\ src' = [src EXCEPT ![t] = NoJob]
  /\ obj' = [obj EXCEPT ![t] = NoObject]
  /\ arg' = [arg EXCEPT ![t] = NoWhere]
  /\ whr' = [whr EXCEPT ![t] = NoWhere]
  /\ res' = [res EXCEPT ![t] = NoJob]
  /\ late' = late \ {t}

\* w: the call's own where clause.
Start(t, o, p, w) ==
  /\ pc[t] = "idle"
  /\ op' = [op EXCEPT ![t] = o]
  /\ inn' = [inn EXCEPT ![t] = p]
  /\ arg' = [arg EXCEPT ![t] = w]
  /\ late' = IF p \in asked THEN late \cup {t} ELSE late \ {t}
  /\ stable' = stable \cup {t}

\* A GP tool begins: _mark_requested_output looks its output name up.
BeginTool(t, p, n) ==
  /\ \E w \in Wheres : Start(t, "tool", p, w)
  /\ Goto(t, IF layers[n] = NoObject THEN "marking" ELSE "resolving")
  /\ out' = [out EXCEPT ![t] = n]
  /\ UNCHANGED <<src, obj, whr, res, layers, unbound, overwrite, heap, done, asked>>

\* MakeFeatureLayer / MakeTableView.
BeginMake(t, p, n) ==
  /\ \E w \in Wheres : Start(t, "make", p, w)
  /\ Goto(t, "resolving")
  /\ out' = [out EXCEPT ![t] = n]
  /\ UNCHANGED <<src, obj, whr, res, layers, unbound, overwrite, heap, done, asked>>

\* _apply_selection; without a clause the selection stays.
ApplySelection(existing, type, w) ==
  CASE type = "CLEAR_SELECTION" -> NoWhere
    [] type # "CLEAR_SELECTION" /\ w = NoWhere -> existing
    [] type # "CLEAR_SELECTION" /\ w # NoWhere /\ existing = NoWhere -> w
    [] type = "NEW_SELECTION" /\ w # NoWhere /\ existing # NoWhere -> w
    [] type = "ADD_TO_SELECTION" /\ w # NoWhere /\ existing # NoWhere -> existing \cup w
    [] type = "SUBSET_SELECTION" /\ w # NoWhere /\ existing # NoWhere -> existing \cap w
    [] type = "REMOVE_FROM_SELECTION" /\ w # NoWhere /\ existing # NoWhere -> existing \ w

SelectionTypes == {"NEW_SELECTION", "ADD_TO_SELECTION", "REMOVE_FROM_SELECTION",
                   "SUBSET_SELECTION", "CLEAR_SELECTION"}

\* SelectLayerByAttribute: the alias is looked up and the candidate computed;
\* a bound output is counted in memory, a layer by way of its name.
BeginSelect(t, n) ==
  /\ layers[n] # NoObject
  /\ Start(t, "select", n, NoWhere)
  /\ obj' = [obj EXCEPT ![t] = layers[n]]
  /\ \E type \in SelectionTypes, w \in Wheres :
       whr' = [whr EXCEPT ![t] = ApplySelection(heap[layers[n]].where, type, w)]
  /\ Goto(t, IF heap[layers[n]].output = NoJob THEN "resolving" ELSE "resolved")
  /\ src' = [src EXCEPT ![t] = heap[layers[n]].output]
  /\ UNCHANGED <<out, res, layers, unbound, overwrite, heap, done, asked>>

\* GetCount and the cursors look the alias up, then resolve its name again.
BeginRead(t, p) ==
  /\ \E w \in Wheres : Start(t, "read", p, w)
  /\ Goto(t, "resolving")
  /\ obj' = [obj EXCEPT ![t] = LayerOf(p)]
  /\ UNCHANGED <<out, src, whr, res, layers, unbound, overwrite, heap, done, asked>>

\* The name had no alias a moment ago: it is unbound until its job succeeds.
Mark(t) ==
  /\ pc[t] = "marking"
  /\ Goto(t, "resolving")
  /\ unbound' = unbound \cup {out[t]}
  /\ asked' = IF layers[out[t]] = NoObject THEN asked \cup {out[t]} ELSE asked
  /\ UNCHANGED <<locals, layers, overwrite, heap, done, late, stable>>

\* resolve, first lock: an alias answers with its source.
ResolveAlias(t) ==
  /\ pc[t] = "resolving"
  /\ IF LayerOf(inn[t]) = NoObject
     THEN Goto(t, "unaliased") /\ UNCHANGED src
     ELSE /\ Goto(t, "resolved")
          /\ src' = [src EXCEPT ![t] = heap[LayerOf(inn[t])].source]
  /\ UNCHANGED <<op, inn, out, obj, arg, whr, res, layers, unbound, overwrite, heap,
                 done, asked, late, stable>>

\* Mutant: the marks are not looked at.
ResolvePathUnmarked(t) ==
  /\ pc[t] = "unaliased"
  /\ Goto(t, "resolved")
  /\ src' = [src EXCEPT ![t] = inn[t]]
  /\ UNCHANGED <<op, inn, out, obj, arg, whr, res, layers, unbound, overwrite, heap,
                 done, asked, late, stable>>

\* resolve, second lock: a marked name raises, any other is a workspace path.
ResolvePath(t) ==
  /\ pc[t] = "unaliased"
  /\ inn[t] \notin unbound
  /\ Goto(t, "resolved")
  /\ src' = [src EXCEPT ![t] = inn[t]]
  /\ UNCHANGED <<op, inn, out, obj, arg, whr, res, layers, unbound, overwrite, heap,
                 done, asked, late, stable>>

\* Dissolve takes the features of a bound output straight from the alias.
ReadOutput(t) ==
  /\ pc[t] = "resolving"
  /\ op[t] = "tool"
  /\ LayerOf(inn[t]) # NoObject
  /\ heap[LayerOf(inn[t])].output # NoJob
  /\ Goto(t, "dissolving")
  /\ src' = [src EXCEPT ![t] = heap[LayerOf(inn[t])].output]
  /\ UNCHANGED <<op, inn, out, obj, arg, whr, res, layers, unbound, overwrite, heap,
                 done, asked, late, stable>>

\* _selection_where, on the name.
Selection(t) == IF LayerOf(inn[t]) = NoObject THEN NoWhere ELSE heap[LayerOf(inn[t])].where

\* _combine_where: a selection and the call's own clause hold together.
Combine(where, w) ==
  IF where = NoWhere THEN w ELSE IF w = NoWhere THEN where ELSE where \cap w

\* A layer-aware process filters its input; no process filters a job result,
\* and only Dissolve takes one.  SpatialJoin resolves its join_features so as well,
\* and goes on only if they have no selection: a tool call over that input alone.
TakeSelection(t) ==
  /\ op[t] = "tool"
  /\ \/ pc[t] = "dissolving" /\ Selection(t) = NoWhere /\ arg[t] = NoWhere
     \/ pc[t] = "resolved" /\ src[t] \notin Jobs
  /\ Goto(t, "reserving")
  /\ whr' = [whr EXCEPT ![t] = Combine(Selection(t), arg[t])]
  /\ UNCHANGED <<op, inn, out, src, obj, arg, res, layers, unbound, overwrite, heap,
                 done, asked, late, stable>>

NewJob == {j \in Jobs : j \notin done /\ \A t \in Threads : res[t] # j}

\* _reserve_output, then the submission of the job.
Reserve(t) ==
  /\ pc[t] = "reserving"
  /\ overwrite \/ layers[out[t]] = NoObject
  /\ Goto(t, "running")
  /\ \E j \in NewJob : res' = [res EXCEPT ![t] = j]
  /\ UNCHANGED <<op, inn, out, src, obj, arg, whr, layers, unbound, overwrite, heap,
                 done, asked, late, stable>>

JobSucceeds(t) ==
  /\ pc[t] = "running"
  /\ Goto(t, "binding")
  /\ done' = done \cup {res[t]}
  /\ UNCHANGED <<locals, layers, unbound, overwrite, heap, asked, late, stable>>

\* _bind_output.
Bind(t) ==
  /\ pc[t] = "binding"
  /\ Register(t, [source |-> res[t], output |-> res[t], where |-> NoWhere,
                  vetted |-> "made"])
  /\ Finish(t)
  /\ UNCHANGED <<overwrite, done>>

\* _make_layer_handler looks the input up again for the output it may hold.
ReadInput(t) ==
  /\ pc[t] = "resolved"
  /\ op[t] = "make"
  /\ Goto(t, "registering")
  /\ res' = [res EXCEPT ![t] = IF LayerOf(inn[t]) = NoObject THEN NoJob
                               ELSE heap[LayerOf(inn[t])].output]
  /\ UNCHANGED <<op, inn, out, src, obj, arg, whr, layers, unbound, overwrite, heap,
                 done, asked, late, stable>>

\* The clause is stored without a request to the server.
RegisterLayer(t) ==
  /\ pc[t] = "registering"
  /\ Register(t, [source |-> src[t], output |-> res[t], where |-> arg[t],
                  vetted |-> "made"])
  /\ Finish(t)
  /\ UNCHANGED <<overwrite, done>>

\* A job result is only counted by the alias that holds it, and whole.
Countable(t) == src[t] \in Jobs => heap[obj[t]].output = src[t] /\ whr[t] = NoWhere

\* Mutant: the selection is written before the server has accepted it.
CommitUncounted(t) ==
  /\ pc[t] = "resolved"
  /\ op[t] = "select"
  /\ Finish(t)
  /\ heap' = Collected([heap EXCEPT ![obj[t]].where = whr[t], ![obj[t]].vetted = "uncounted"], layers, obj')
  /\ stable' = stable \ {u \in Threads : u = t \/ LayerOf(inn[u]) = obj[t]}
  /\ UNCHANGED <<layers, unbound, overwrite, done, asked>>

\* The server counts the candidate; only then it is written to the alias.
CountAndCommit(t) ==
  /\ pc[t] = "resolved"
  /\ op[t] = "select"
  /\ Countable(t)
  /\ LET o == obj[t]
         own == src[t] \in {heap[o].source, heap[o].output}
         h == [heap EXCEPT ![o].where = whr[t],
                           ![o].vetted = IF own THEN "counted" ELSE "uncounted"]
     IN /\ Finish(t)
        /\ heap' = Collected(h, layers, obj')
        /\ stable' = stable \ {u \in Threads : u = t \/ LayerOf(inn[u]) = o}
  /\ UNCHANGED <<layers, unbound, overwrite, done, asked>>

\* The rows come from the alias's output if it has one, else from the server,
\* filtered by the selection the alias carries by now and by the reader's own clause;
\* an output is not filtered.
ReadRows(t) ==
  /\ pc[t] = "resolved"
  /\ op[t] = "read"
  /\ LET alias == IF obj[t] = NoObject THEN Blank ELSE heap[obj[t]]
         where == Combine(alias.where, arg[t])
     IN /\ IF alias.output # NoJob THEN where = NoWhere ELSE src[t] \notin Jobs
        /\ src' = [src EXCEPT ![t] = IF alias.output # NoJob THEN alias.output ELSE @]
        /\ whr' = [whr EXCEPT ![t] = where]
  /\ obj' = [obj EXCEPT ![t] = NoObject]
  /\ heap' = Collected(heap, layers, obj')
  /\ Goto(t, "reading")
  /\ UNCHANGED <<op, inn, out, arg, res, layers, unbound, overwrite, done, asked, late, stable>>

\* A reader is through; or validation, resolution, the server, the job or the
\* binding raises and the session stays as it is.
CallEnds(t) ==
  /\ pc[t] \notin {"idle", "marking"}
  /\ Finish(t)
  /\ heap' = Collected(heap, layers, obj')
  /\ stable' = stable \ {t}
  /\ UNCHANGED <<layers, unbound, overwrite, done, asked>>

SetOverwrite ==
  /\ overwrite' = ~overwrite
  /\ UNCHANGED <<pc, locals, layers, unbound, heap, done, asked, late, stable>>

\* HonuaSession.reset, whatever calls are under way.
Reset ==
  /\ layers' = [n \in Names |-> NoObject]
  /\ unbound' = {}
  /\ overwrite' = FALSE
  /\ heap' = Collected(heap, layers', obj)
  /\ asked' = {}
  /\ late' = {}
  /\ stable' = {}
  /\ UNCHANGED <<pc, locals, done>>

-----------------------------------------------------------------------------

Begin(t) ==
  \/ \E p \in Paths, n \in Names : BeginTool(t, p, n) \/ BeginMake(t, p, n)
  \/ \E n \in Names : BeginSelect(t, n)
  \/ \E p \in Paths : BeginRead(t, p)

Step(t) ==
  \/ Mark(t) \/ ResolveAlias(t) \/ ResolvePath(t) \/ ReadOutput(t) \/ TakeSelection(t)
  \/ Reserve(t) \/ JobSucceeds(t) \/ Bind(t) \/ ReadInput(t) \/ RegisterLayer(t)
  \/ CountAndCommit(t) \/ ReadRows(t) \/ CallEnds(t)

Next == (\E t \in Threads : Begin(t) \/ Step(t)) \/ SetOverwrite \/ Reset

Spec == Init /\ [][Next]_vars

-----------------------------------------------------------------------------
(* Properties *)

Named == {layers[n] : n \in Names} \ {NoObject}

\* The output name of a tool that has not succeeded is never taken for a dataset
\* of the workspace, by a call during which nothing was bound to it.
NotImaginary ==
  \A t \in late \cap stable : src[t] # inn[t]

\* No name stands for a job that has not succeeded: a failed, timed out or
\* unfinished tool publishes no alias, and the name it asked for is not taken for
\* a dataset of the workspace either.
OnlyRealOutputs ==
  /\ \A o \in Named : heap[o].output # NoJob => heap[o].output \in done
  /\ NotImaginary

\* With env.overwriteOutput off an existing alias is not replaced, although the
\* jobs of two tools with one output name may run side by side.
OverwriteProtected ==
  [][\A n \in Names :
       (~overwrite /\ layers[n] # NoObject /\ layers'[n] # NoObject) => layers'[n] = layers[n]]_vars

\* A selection a named layer carries, beyond the clause it was made with, is one the
\* server accepted for that layer's own dataset.
SelectionsVetted ==
  \A o \in Named : heap[o].vetted # "uncounted"

\* Selections are vetted, and a tool, or a reader, works on the dataset its input
\* names, on exactly the rows that are selected there and meet its own clause,
\* unless the input changed meanwhile.
SelectionReachesWork ==
  /\ SelectionsVetted
  /\ \A t \in stable :
       pc[t] \in {"running", "reading"} =>
         /\ whr[t] = Combine(Selection(t), arg[t])
         /\ LayerOf(inn[t]) # NoObject =>
              src[t] \in {heap[LayerOf(inn[t])].source, heap[LayerOf(inn[t])].output}
=============================================================================
