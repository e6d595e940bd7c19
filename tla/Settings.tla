------------------------------- MODULE Settings -------------------------------
(***************************************************************************)
(* The life of a ZarrStreamSettings and of the streams made of it.         *)
(*                                                                         *)
(* A caller builds settings with the create functions of the C interface   *)
(* (acquire.zarr.cpp) or loads them from text (settings.io.cpp), may dump  *)
(* them, makes a stream of them and gives them back.  ZarrStream_s reads   *)
(* them while it is made: it checks all of them, makes the store, then the *)
(* arrays and the plates (zarr.stream.cpp).  close writes the metadata.    *)
(* What the stream does in between is Stream.tla's and Array.tla's; here   *)
(* its error_ is what it was made with.                                    *)
(*                                                                         *)
(* Memory is what the caller may free: a block is named by the pointer it  *)
(* was allocated for, as <<"plates", 1, "wells", 2, "row">>.  A caller     *)
(* gives back what he was given with the function that belongs to it, as   *)
(* the header asks, and passes only settings that are complete.            *)
(***************************************************************************)
EXTENDS Store

CONSTANTS Configs,      \* the settings a caller has in mind
          Disks,        \* what may be at store_path: absent, file, old
          UnsetIds,     \* what an acquisition id that is not set may read as
          AsRead,       \* names to names: an unquoted scalar, read as YAML
          MaxStreams,   \* bound: streams made
          MaxRebuilds,  \* bound: lists created that were there already
          NoSettings

\* What a caller may have in mind.  Every name has a reading, and no order of
\* storage names a dimension twice (array.dimensions.cpp:97 is undefined then).
Names == DOMAIN AsRead
Keys == Seq(Names) \cup {NoKey}
DimensionSettings ==
    [name : Names, type : STRING, size : Nat, chunk : Nat, shard : Nat, scale : Int]
CompressionSettings == [compressor : STRING, codec : STRING, level : Nat, shuffle : Nat]
ArraySettings ==
    [key : Keys, comp : {None} \cup CompressionSettings, dims : Seq(DimensionSettings),
     order : {o \in Seq(Nat) : IsInjective(o)}, multi : BOOLEAN,
     method : {"decimate", "mean", "min", "max"}, maxLevels : Nat]
ImageSettings == [path : Keys, acq : {None} \cup Nat, array : ArraySettings]
WellSettings == [row : Names, col : Names, images : Seq(ImageSettings)]
PlateSettings ==
    [path : Keys, rows : Seq(Names), cols : Seq(Names), acqs : Seq(Nat),
     wells : Seq(WellSettings)]
StreamSettings ==
    [overwrite : BOOLEAN, s3 : {None} \cup [endpoint : STRING, bucket : Nat],
     arrays : Seq(ArraySettings), plates : Seq(PlateSettings)]

ASSUME SettingsAssumption ==
    /\ Configs \subseteq StreamSettings /\ NoSettings \notin StreamSettings
    /\ AsRead \in [Names -> Names] /\ NoKey \notin Seq(Names) /\ None \notin Nat
    /\ Disks \subseteq {"absent", "file", "old"} /\ UnsetIds \subseteq Nat
    /\ MaxStreams \in Nat /\ MaxRebuilds \in Nat /\ "zarr.json" \in MetadataNames
\* A level is named by its number.
ASSUME LevelsAssumption ==
    \A c \in Configs : \A o \in Outputs(Arrays(c)) : \A l \in DOMAIN o.levels :
        ToString(l - 1) \in NumericNames \ (MetadataNames \cup {""})

VARIABLES
    config,    \* what the caller has in mind
    settings,  \* what is in the settings, or NoSettings
    origin,    \* none, built, loaded
    mem,       \* pointer -> block
    live,      \* blocks allocated and not freed
    again,     \* history: blocks freed twice
    keyed,     \* history: blocks that output_key was pointed at
    text,      \* the settings file: [of, format]
    rebuilds, streams, \* history: counters
    pc,        \* none, commit, arrays, plates, open, finalize, groups, closed, refused
    disk,      \* what is at store_path
    lost,      \* history: this stream removed what was at store_path
    ioFailed,  \* history: the file system or S3 failed this stream
    error,     \* error_ is not empty
    reused,    \* history: made of settings that a stream has changed
    outputs,   \* arrays_
    groups,    \* intermediate_group_paths_
    plates,    \* plates_: path -> [acqs, used]
    wells,     \* wells_: paths
    frames,    \* key -> how many of its levels have frames
    custom,    \* keys with custom_metadata_
    pending,   \* at close: the outputs, then the groups still to be written
    files,     \* path of a node -> what its zarr.json says: [kind, custom]
    closed     \* what close returned: none, ok, error, thrown

blocks == <<mem, live, again, keyed>>
caller == <<config, settings, origin, blocks, text, rebuilds>>
made == <<outputs, groups, plates, wells, lost, ioFailed, error, reused>>
written == <<frames, custom, pending, files, closed>>
stream == <<streams, pc, disk, made, written>>
vars == <<caller, stream>>
-----------------------------------------------------------------------------
(* Text *)

\* reparses_as_nonstring, so emit_json quotes it.
NeedsQuotes(name) == AsRead[name] # name

\* A name that is emitted in a format and read again (scalar_to_json,
\* as_string).  JSON quotes every string.
Reread(format, name) ==
    IF format = "json" \/ NeedsQuotes(name) THEN name ELSE AsRead[name]
\* A key with slashes is a string however it is written.
RereadKey(format, key) ==
    IF key # NoKey /\ Len(key) = 1 THEN <<Reread(format, key[1])>> ELSE key
RereadAll(format, names) == [i \in DOMAIN names |-> Reread(format, names[i])]

\* mutant: the order of storage is not written.
DumpNoOrder(a, hasKey) == [a EXCEPT !.order = <<>>]
\* dump_array: the key of a field's array is not written, nor what only
\* multiscale arrays need.
DumpArray(a, hasKey) ==
    [a EXCEPT !.key = IF hasKey THEN @ ELSE NoKey,
              !.method = IF a.multi THEN @ ELSE "decimate",
              !.maxLevels = IF a.multi THEN @ ELSE 0]
DumpField(image) == [image EXCEPT !.array = DumpArray(@, FALSE)]
DumpWell(w) == [w EXCEPT !.images = [k \in DOMAIN @ |-> DumpField(@[k])]]
DumpPlate(p) == [p EXCEPT !.wells = [j \in DOMAIN @ |-> DumpWell(@[j])]]
Dumped(s) ==
    [s EXCEPT !.arrays = [i \in DOMAIN @ |-> DumpArray(@[i], TRUE)],
              !.plates = [i \in DOMAIN @ |-> DumpPlate(@[i])]]

\* load_array: a key is looked for only where one is allowed.
LoadDimension(format, d) == [d EXCEPT !.name = Reread(format, @)]
LoadArray(format, a, hasKey) ==
    [a EXCEPT !.key = IF hasKey THEN RereadKey(format, @) ELSE NoKey,
              !.dims = [i \in DOMAIN @ |-> LoadDimension(format, @[i])]]
LoadField(format, image) ==
    [image EXCEPT !.path = RereadKey(format, @), !.array = LoadArray(format, @, FALSE)]
LoadWell(format, w) ==
    [w EXCEPT !.row = Reread(format, @), !.col = Reread(format, @),
              !.images = [k \in DOMAIN @ |-> LoadField(format, @[k])]]
LoadPlate(format, p) ==
    [p EXCEPT !.path = RereadKey(format, @),
              !.rows = RereadAll(format, @), !.cols = RereadAll(format, @),
              !.wells = [j \in DOMAIN @ |-> LoadWell(format, @[j])]]
Loaded(t) ==
    [t.of EXCEPT !.arrays = [i \in DOMAIN @ |-> LoadArray(t.format, @[i], TRUE)],
                 !.plates = [i \in DOMAIN @ |-> LoadPlate(t.format, @[i])]]
-----------------------------------------------------------------------------
(* Memory *)

\* g, but what f says where f says something; f with another value at x.
Override(f, g) == [x \in DOMAIN f \cup DOMAIN g |-> IF x \in DOMAIN f THEN f[x] ELSE g[x]]
Put(f, x, value) == Override([y \in {x} |-> value], f)

If(condition, slots) == IF condition THEN slots ELSE <<>>
Each(seq, Slots(_)) == FlattenSeq([i \in DOMAIN seq |-> Slots(i)])

\* The blocks that json_to_settings allocates, in its order.  A list of names
\* counts as one, so do the names of dimensions and of acquisitions.
ArraySlots(at, a, hasKey) ==
    If(hasKey /\ a.key # NoKey, <<at \o <<"key">>>>)
    \o If(a.comp # None, <<at \o <<"comp">>>>)
    \o <<at \o <<"dims">>, at \o <<"names">>>>
    \o If(a.order # <<>>, <<at \o <<"order">>>>)
ImageSlots(at, image) ==
    <<at \o <<"path">>, at \o <<"array">>>>
    \o ArraySlots(at \o <<"array">>, image.array, FALSE)
WellSlots(at, w) ==
    <<at \o <<"row">>, at \o <<"col">>, at \o <<"images">>>>
    \o Each(w.images, LAMBDA k : ImageSlots(at \o <<"images", k>>, w.images[k]))
PlateSlots(at, p) ==
    <<at \o <<"path">>, at \o <<"name">>, at \o <<"rows">>, at \o <<"cols">>,
      at \o <<"wells">>>>
    \o Each(p.wells, LAMBDA j : WellSlots(at \o <<"wells", j>>, p.wells[j]))
    \o If(p.acqs # <<>>, <<at \o <<"acqs">>, at \o <<"acqNames">>>>)
LoadSlots(s) ==
    <<<<"store">>>>
    \o If(s.s3 # None, <<<<"s3">>, <<"endpoint">>, <<"bucket">>>>)
    \o If(s.arrays # <<>>, <<<<"arrays">>>>)
    \o Each(s.arrays, LAMBDA i : ArraySlots(<<"arrays", i>>, s.arrays[i], TRUE))
    \o If(s.plates # <<>>, <<<<"hcs">>, <<"plates">>>>)
    \o Each(s.plates, LAMBDA i : PlateSlots(<<"plates", i>>, s.plates[i]))

\* What destroy_loaded_settings frees, where it is not NULL.
Freed == {"store", "s3", "endpoint", "bucket", "arrays", "key", "comp", "names", "dims",
          "order", "hcs", "plates", "path", "name", "rows", "cols", "wells", "row", "col",
          "images", "array", "acqs", "acqNames"}

\* The blocks behind some pointers are freed, a block twice when two of them
\* share it.
FreePointers(pointers) ==
    /\ live' = live \ {mem[p] : p \in pointers}
    /\ again' = again \cup {mem[p] : p \in {p \in pointers :
                              \E q \in pointers \ {p} : mem[q] = mem[p]}}

\* The lists the create functions allocate, in the order of the settings.
WellLists(at, w) ==
    <<at \o <<"images">>>>
    \o Each(w.images, LAMBDA k : <<at \o <<"images", k, "dims">>>>)
PlateLists(at, p) ==
    <<at \o <<"wells">>>>
    \o Each(p.wells, LAMBDA j : WellLists(at \o <<"wells", j>>, p.wells[j]))
    \o If(p.acqs # <<>>, <<at \o <<"acqs">>>>)
    \o <<at \o <<"rows">>, at \o <<"cols">>>>
BuildLists(s) ==
    If(s.arrays # <<>>, <<<<"arrays">>>>)
    \o Each(s.arrays, LAMBDA i : <<<<"arrays", i, "dims">>>>)
    \o If(s.plates # <<>>, <<<<"plates">>>>)
    \o Each(s.plates, LAMBDA i : PlateLists(<<"plates", i>>, s.plates[i]))

\* The destroy functions: those that one of them calls for each element.
NoAcquisitions == [arrays |-> {"dims"}, plates |-> {"wells", "rows", "cols"},
                   wells |-> {"images"}, images |-> {"dims"}]           \* mutant
Cascade == [arrays |-> {"dims"}, plates |-> {"wells", "acqs", "rows", "cols"},
            wells |-> {"images"}, images |-> {"dims"}]

FreedWith(slot) ==
    {p \in DOMAIN mem :
       \/ p = slot
       \/ IsStrictPrefix(slot, p) /\ \A i \in Len(slot) + 2 .. Len(p) :
             i % 2 = Len(p) % 2 => p[i] \in Cascade[p[i - 2]]}
Without(pointers) == [p \in DOMAIN mem \ pointers |-> mem[p]]
-----------------------------------------------------------------------------
(* The caller *)

Init ==
    /\ config \in Configs
    /\ settings = NoSettings /\ origin = "none"
    /\ mem = <<>> /\ live = {} /\ again = {} /\ keyed = {}
    /\ text = [of |-> Dumped(config), format |-> "yaml"]
    /\ rebuilds = 0 /\ streams = 0
    /\ disk \in Disks
    /\ pc = "none" /\ lost = FALSE /\ ioFailed = FALSE /\ error = FALSE /\ reused = FALSE
    /\ outputs = {} /\ groups = {} /\ plates = <<>> /\ wells = {}
    /\ frames = <<>> /\ custom = {} /\ pending = {} /\ files = <<>> /\ closed = "none"

\* create and close keep the caller until they return; close deletes the stream.
NoStream == pc = "none"
Idle == pc \in {"none", "open"}
Complete ==
    \/ origin = "loaded"
    \/ origin = "built" /\ DOMAIN mem = ToSet(BuildLists(config))

\* A settings struct, zeroed; the strings in it are the caller's.
StartBuilding ==
    /\ NoStream /\ origin = "none"
    /\ settings' = config /\ origin' = "built"
    /\ UNCHANGED <<config, blocks, text, rebuilds, stream>>

\* ..._create_..._array, for the first list that is not there, or again for one
\* that is: the new one replaces it.
CreateList(slot) ==
    /\ NoStream /\ origin = "built"
    /\ LET missing == SelectSeq(BuildLists(config), LAMBDA p : p \notin DOMAIN mem)
       IN  slot \in DOMAIN mem \/ (missing # <<>> /\ slot = Head(missing))
    /\ IF slot \in DOMAIN mem
       THEN /\ rebuilds < MaxRebuilds /\ rebuilds' = rebuilds + 1
            /\ LET new == <<slot, 1 - mem[slot][2]>>
               IN  /\ live' = (live \ {mem[p] : p \in FreedWith(slot)}) \cup {new}
                   /\ mem' = Put(Without({p \in DOMAIN mem : IsPrefix(slot, p)}), slot, new)
       ELSE /\ mem' = Put(mem, slot, <<slot, 0>>)
            /\ live' = live \cup {<<slot, 0>>}
            /\ UNCHANGED rebuilds
    /\ UNCHANGED <<config, settings, origin, again, keyed, text, stream>>

\* ZarrStreamSettings_destroy_arrays and ZarrHCSSettings_destroy_plate_array.
GiveBackBuilt ==
    /\ Idle /\ origin = "built"
    /\ FreePointers(FreedWith(<<"arrays">>) \cup FreedWith(<<"plates">>))
    /\ settings' = NoSettings /\ origin' = "none" /\ mem' = <<>> /\ rebuilds' = 0
    /\ UNCHANGED <<config, keyed, text, stream>>

Load ==
    /\ NoStream /\ origin = "none"
    /\ settings' = Loaded(text) /\ origin' = "loaded"
    /\ mem' = [p \in ToSet(LoadSlots(settings')) |-> <<p, 0>>]
    /\ live' = live \cup Range(mem')
    /\ UNCHANGED <<config, again, keyed, text, rebuilds, stream>>

\* load_from: a field is missing or wrong.  What was allocated before it is
\* given back.
LoadFails ==
    /\ NoStream /\ origin = "none"
    /\ LET slots == LoadSlots(Loaded(text))
       IN  \E n \in DOMAIN slots :
              live' = live \cup {<<slots[i], 0>> :
                                   i \in {i \in 1 .. n : Last(slots[i]) \notin Freed}}
    /\ UNCHANGED <<config, settings, origin, mem, again, keyed, text, rebuilds, stream>>

GiveBackLoaded ==
    /\ Idle /\ origin = "loaded"
    /\ FreePointers({p \in DOMAIN mem : Last(p) \in Freed})
    /\ settings' = NoSettings /\ origin' = "none" /\ mem' = <<>>
    /\ UNCHANGED <<config, keyed, text, rebuilds, stream>>

Dump(format) ==
    /\ NoStream /\ origin # "none" /\ Complete
    /\ text' = [of |-> Dumped(settings), format |-> format]
    /\ UNCHANGED <<config, settings, origin, blocks, rebuilds, stream>>
-----------------------------------------------------------------------------
(* ZarrStream_create *)

AllFields(s) ==
    FlattenSeq([i \in DOMAIN s.plates |->
                  [n \in DOMAIN FieldsOf(s.plates[i]) |-> <<i, FieldsOf(s.plates[i])[n]>>]])

FieldsWithKey(s) ==
    {at \in Range(AllFields(s)) : FieldAt(s.plates[at[1]], at[2]).array.key # NoKey}

Refuse(io) == pc' = "refused" /\ error' = TRUE /\ ioFailed' = io

\* validate_settings_; the directory of store_path may be none, or not to be
\* written to.
CreateStream ==
    /\ NoStream /\ Complete
    /\ rebuilds = 0    \* bound: no stream of settings with a list created twice
    /\ streams < MaxStreams /\ streams' = streams + 1
    /\ reused' = (FieldsWithKey(settings) # FieldsWithKey(config))
    /\ \/ IF Accepts(settings)
          THEN /\ pc' = "commit" /\ groups' = GroupPaths(settings)
               /\ error' = Complains(settings) /\ ioFailed' = FALSE
          ELSE Refuse(FALSE) /\ groups' = {}
       \/ settings.s3 = None /\ Refuse(TRUE) /\ groups' = {}
    /\ UNCHANGED <<caller, disk, outputs, plates, wells, lost, written>>

\* create_store_.
CommitStore ==
    /\ pc = "commit"
    /\ LET removes == settings.s3 = None /\ settings.overwrite /\ disk # "absent"
           keeps == settings.s3 = None /\ ~settings.overwrite
       IN  \/ /\ settings.s3 # None
              /\ pc' = "arrays" \/ Refuse(TRUE)
              /\ UNCHANGED <<disk, lost>>
           \/ /\ keeps /\ disk = "old"
              /\ pc' = "arrays"
              /\ UNCHANGED <<disk, lost>>
           \/ /\ keeps /\ disk = "file"
              /\ Refuse(FALSE)
              /\ UNCHANGED <<disk, lost>>
           \/ /\ settings.s3 = None /\ (removes \/ disk = "absent")
              /\ lost' = removes
              /\ \/ disk' = "old" /\ pc' = "arrays"
                 \/ disk' \in {disk, "absent"} /\ Refuse(TRUE)
    /\ pc' = "arrays" => UNCHANGED <<error, ioFailed>>
    /\ UNCHANGED <<caller, streams, outputs, groups, plates, wells, reused, written>>

ConfigureArrays ==
    /\ pc = "arrays"
    /\ IF \E i \in DOMAIN settings.arrays : ArrayThrows(settings.arrays[i])
       THEN Refuse(FALSE) /\ UNCHANGED outputs
       ELSE /\ outputs' = Outputs(FlatArrays(settings)) /\ pc' = "plates"
            /\ UNCHANGED <<error, ioFailed>>
    /\ UNCHANGED <<caller, streams, disk, groups, plates, wells, lost, reused, written>>

\* commit_hcs_settings_ points output_key at the path of the image, in the
\* caller's settings.
KeyFields(s, fields) ==
    LET Field(i, j, k) ==
          LET image == s.plates[i].wells[j].images[k]
          IN  IF <<i, <<j, k>>>> \in fields
              THEN [image EXCEPT !.array.key = image.path] ELSE image
        Well(i, j) == [s.plates[i].wells[j] EXCEPT !.images =
                         [k \in DOMAIN @ |-> Field(i, j, k)]]
        Plate(i) == [s.plates[i] EXCEPT !.wells = [j \in DOMAIN @ |-> Well(i, j)]]
    IN  [s EXCEPT !.plates = [i \in DOMAIN @ |-> Plate(i)]]
FieldSlot(at) == <<"plates", at[1], "wells", at[2][1], "images", at[2][2]>>

\* The fields up to the first one whose array is not made, or to the end of the
\* first plate that is not.
FieldsTried(unset) ==
    LET all == AllFields(settings)
        Throws(n) == ArrayThrows(FieldAt(settings.plates[all[n][1]], all[n][2]).array)
        Refused(n) == /\ n = Len(all) \/ all[n + 1][1] # all[n][1]
                      /\ LET p == settings.plates[all[n][1]]
                         IN  ~PlateAccepts(p, UsedBy(p, unset))
        stops == {n \in DOMAIN all : Throws(n) \/ Refused(n)}
    IN  [fields |-> IF stops = {} THEN all ELSE SubSeq(all, 1, Min(stops)),
         ok |-> stops = {}]

\* plates_.emplace keeps the first plate of a path.
FirstOf(s, path) ==
    s.plates[Min({i \in DOMAIN s.plates : Regularize(s.plates[i].path) = path})]

CommitPlates(unset) ==
    /\ pc = "plates"
    /\ LET tried == FieldsTried(unset)
           paths == {Regularize(p.path) : p \in Range(settings.plates)}
       IN  /\ settings' = KeyFields(settings, Range(tried.fields))
           /\ IF origin = "loaded"
              THEN LET path(at) == mem[FieldSlot(at) \o <<"path">>]
                       new == {FieldSlot(at) \o <<"array", "key">> : at \in Range(tried.fields)}
                   IN  /\ mem' = Override([p \in new |-> mem[SubSeq(p, 1, 6) \o <<"path">>]], mem)
                       /\ keyed' = keyed \cup {path(at) : at \in Range(tried.fields)}
              ELSE UNCHANGED <<mem, keyed>>
           /\ IF tried.ok
              THEN /\ pc' = "open"
                   /\ outputs' = Outputs(Arrays(settings))
                   /\ plates' = [path \in paths |->
                        LET p == FirstOf(settings, path)
                        IN  [acqs |-> Range(p.acqs), used |-> UsedBy(p, unset)]]
                   /\ wells' = UNION {{WellPath(p, w) : w \in Range(p.wells)} :
                                      p \in {FirstOf(settings, path) : path \in paths}}
                   /\ frames' = [key \in {o.key : o \in outputs'} |-> 0]
                   /\ UNCHANGED <<error, ioFailed>>
              ELSE Refuse(FALSE) /\ UNCHANGED <<outputs, plates, wells, frames>>
    /\ UNCHANGED <<config, origin, live, again, text, rebuilds, streams, disk, groups,
                   lost, reused, custom, pending, files, closed>>
-----------------------------------------------------------------------------
(* The stream, and ZarrStream_close *)

\* Frames reach one more level of an array.
TakeFrames(o) ==
    /\ pc = "open" /\ ~error
    /\ frames[o.key] + 1 \in DOMAIN o.levels
    /\ frames' = [frames EXCEPT ![o.key] = @ + 1]
    /\ UNCHANGED <<caller, streams, pc, disk, made, custom, pending, files, closed>>

WriteCustomMetadata(o) ==
    /\ pc = "open"
    /\ custom' = custom \cup {o.key}
    /\ UNCHANGED <<caller, streams, pc, disk, made, frames, pending, files, closed>>

\* On the file system a node below p/zarr.json makes that a directory.
Blocked(p) ==
    /\ config.s3 = None
    /\ \E o \in outputs : /\ IsPrefix(p \o <<"zarr.json">>, o.key)
                          /\ frames[o.key] > 0 \/ o.key \in DOMAIN files

Close ==
    /\ pc = "open"
    /\ IF error THEN pc' = "closed" /\ closed' = "error" /\ UNCHANGED pending
                ELSE pc' = "finalize" /\ pending' = {o.key : o \in outputs} /\ UNCHANGED closed
    /\ UNCHANGED <<caller, streams, disk, made, frames, custom, files>>

Fail(result) == pc' = "closed" /\ closed' = result

\* finalize_array.  An array without frames or custom metadata writes nothing.
NodeWritten(o) == o.grouped \/ frames[o.key] > 0 \/ o.key \in custom
FilesOf(o) ==
    LET kind == IF o.grouped THEN "multiscale" ELSE "array"
        level(l) == o.key \o <<ToString(l - 1)>>
        node == IF NodeWritten(o)
                THEN Put(<<>>, o.key, [kind |-> kind, custom |-> o.key \in custom]) ELSE <<>>
        levels == [p \in {level(l) : l \in 1 .. frames[o.key]} |->
                     [kind |-> "array", custom |-> FALSE]]
    IN  IF o.grouped THEN Override(node, levels) ELSE node

FinalizeArray(o) ==
    /\ pc = "finalize" /\ o.key \in pending
    /\ \/ /\ ~(NodeWritten(o) /\ Blocked(o.key))
          /\ files' = Override(FilesOf(o), files)
          /\ pending' = pending \ {o.key}
          /\ UNCHANGED <<pc, ioFailed, closed>>
       \/ /\ Fail("error")
          /\ ioFailed' = ~Blocked(o.key)
          /\ UNCHANGED <<pending, files>>
    /\ UNCHANGED <<caller, streams, disk, outputs, groups, plates, wells, lost, error,
                   reused, frames, custom>>

\* write_intermediate_metadata_.  Plate::to_json throws, and the exception
\* leaves ZarrStream_close, when no image belongs to an acquisition; so does the
\* write when there is no file handle to be had.
GroupKind(p) ==
    IF p \in DOMAIN plates THEN "plate" ELSE IF p \in wells THEN "well" ELSE "group"
HasUnused(p) == p \in DOMAIN plates /\ ~(plates[p].acqs \subseteq plates[p].used)
WriteGroup(p) ==
    /\ pc = "groups" /\ p \in pending
    /\ \/ /\ HasUnused(p) \/ Blocked(p)
          /\ Fail("thrown")
          /\ UNCHANGED <<pending, files, ioFailed, error>>
       \/ /\ ~HasUnused(p) /\ ~Blocked(p)
          /\ files' = Put(files, p, [kind |-> GroupKind(p), custom |-> FALSE])
          /\ pending' = pending \ {p}
          /\ UNCHANGED <<pc, ioFailed, error, closed>>
       \/ /\ ~HasUnused(p)
          /\ \E result \in {"error", "thrown"} : Fail(result)
          /\ ioFailed' = TRUE /\ error' = TRUE
          /\ UNCHANGED <<pending, files>>
    /\ UNCHANGED <<caller, streams, disk, outputs, groups, plates, wells, lost, reused,
                   frames, custom>>

WrittenAll ==
    /\ pending = {}
    /\ \/ pc = "finalize" /\ pc' = "groups" /\ pending' = groups /\ UNCHANGED closed
       \/ pc = "groups" /\ pc' = "closed" /\ closed' = "ok" /\ UNCHANGED pending
    /\ UNCHANGED <<caller, streams, disk, made, frames, custom, files>>

\* The stream is deleted, when its constructor throws and after close.
Gone ==
    /\ pc \in {"refused", "closed"}
    /\ pc' = "none" /\ lost' = FALSE /\ ioFailed' = FALSE /\ error' = FALSE
    /\ reused' = FALSE /\ outputs' = {} /\ groups' = {} /\ plates' = <<>> /\ wells' = {}
    /\ frames' = <<>> /\ custom' = {} /\ pending' = {} /\ files' = <<>> /\ closed' = "none"
    /\ UNCHANGED <<caller, streams, disk>>

Next ==
    \/ StartBuilding \/ GiveBackBuilt
    \/ \E slot \in ToSet(BuildLists(config)) : CreateList(slot)
    \/ Load \/ LoadFails \/ GiveBackLoaded
    \/ \E format \in {"yaml", "json"} : Dump(format)
    \/ CreateStream \/ CommitStore \/ ConfigureArrays
    \/ \E unset \in UnsetIds : CommitPlates(unset)
    \/ \E o \in outputs : TakeFrames(o) \/ WriteCustomMetadata(o) \/ FinalizeArray(o)
    \/ Close
    \/ \E p \in groups : WriteGroup(p)
    \/ WrittenAll \/ Gone

Spec == Init /\ [][Next]_vars
-----------------------------------------------------------------------------
(* Properties *)

\* The state is made of keys without empty segments, of blocks behind their
\* pointers, and of what is written at nodes of the stream.
Regular(path) == \A i \in DOMAIN path : path[i] # ""
TypeOK ==
    /\ settings = NoSettings <=> origin = "none"
    /\ DOMAIN mem = {} \/ origin # "none"
    /\ live \subseteq {<<b[1], g>> : b \in live, g \in 0 .. 1}
    /\ rebuilds \in 0 .. MaxRebuilds /\ streams \in 0 .. MaxStreams
    /\ pc \in {"none", "commit", "arrays", "plates", "open", "finalize", "groups",
               "closed", "refused"}
    /\ closed \in {"none", "ok", "error", "thrown"}
    /\ disk \in {"absent", "file", "old"}
    /\ {lost, ioFailed, error, reused} \subseteq BOOLEAN
    /\ \A p \in {o.key : o \in outputs} \cup groups \cup wells \cup DOMAIN files : Regular(p)
    /\ custom \subseteq {o.key : o \in outputs}
    /\ pending \subseteq {o.key : o \in outputs} \cup groups

\* The nodes whose zarr.json this stream writes.
LevelPaths(o) == IF o.grouped THEN {o.key \o <<ToString(l - 1)>> : l \in DOMAIN o.levels}
                 ELSE {}
NodePaths == groups \cup UNION {{o.key} \cup LevelPaths(o) : o \in outputs}

\* An array comes after those above it, and no key starts with the name of a
\* metadata file: check_array_structure counts on the one (a node that is there
\* keeps its type) and forgets the other (the first segment is not looked at).
Orderly ==
    LET arrays == Arrays(config)
    IN  /\ \A m, n \in DOMAIN arrays : m < n => ~IsStrictPrefix(arrays[n].key, arrays[m].key)
        /\ \A n \in DOMAIN arrays :
              arrays[n].key # <<>> => Head(arrays[n].key) \notin MetadataNames

\* Every zarr.json of a store has one writer, no node lies where a zarr.json is
\* to be, and whatever lies between a node and the root is a node as well:
\* check_array_structure lets nothing else through.
NodesDisjoint ==
    Orderly /\ pc \in {"open", "finalize", "groups", "closed"} =>
        /\ \A o \in outputs : o.key \notin groups /\ LevelPaths(o) \cap groups = {}
        /\ \A o, q \in outputs : o # q =>
              ({o.key} \cup LevelPaths(o)) \cap ({q.key} \cup LevelPaths(q)) = {}
        /\ \A p \in NodePaths : \A i \in DOMAIN p : p[i] \notin MetadataNames
        /\ \A p \in NodePaths : p # <<>> => Front(p) \in NodePaths

\* What only the constructors of Array and Plate refuse, after the store is
\* made: a first dimension of no size in two dimensions, and names and
\* acquisitions of a plate.
RefusedLate ==
    \/ \E w \in Range(Arrays(config)) : Len(w.array.dims) = 2 /\ w.array.dims[1].size = 0
    \/ \E p \in Range(config.plates) :
          \/ ~GoodNames(p.rows) \/ ~GoodNames(p.cols)
          \/ \E f \in Range(FieldsOf(p)) : FieldAt(p, f).acq \notin Range(p.acqs)

\* Settings that are refused cost nothing: with overwrite, the old store is
\* removed only for a stream that is then made, unless the file system fails it
\* or the settings are among those that are found out late.
RefusalKeepsStore == pc = "refused" /\ lost => ioFailed \/ RefusedLate

\* What is allocated for settings is what their pointers lead to: create and
\* destroy functions, a load that fails half-way and destroy_loaded leak
\* nothing.  Nothing is freed twice but the paths that commit_hcs_settings_ has
\* pointed an output_key at.
OneOwner == live = Range(mem) /\ again \subseteq keyed

\* Settings that went through dump and load, any number of times and in either
\* format, and through streams, ask for the same store as those the caller
\* wrote.
RoundTrip ==
    settings # NoSettings /\ Idle =>
        /\ FieldsWithKey(config) = {} => (Accepts(settings) <=> Accepts(config))
        /\ Outputs(Arrays(settings)) = Outputs(Arrays(config))
        /\ GroupPaths(settings) = GroupPaths(config)

\* Plates at different paths, none at a well of another, and no array at one of
\* these nodes.
PlatesApart ==
    LET plateAt(p) == Regularize(p.path)
        wellsOf(p) == {WellPath(p, w) : w \in Range(p.wells)}
    IN  /\ \A i, j \in DOMAIN config.plates : i # j =>
              plateAt(config.plates[i]) # plateAt(config.plates[j])
        /\ \A p, q \in Range(config.plates) : plateAt(p) \notin wellsOf(q)
        /\ \A p \in Range(config.plates), w \in Range(Arrays(config)) :
              w.key \notin {plateAt(p)} \cup wellsOf(p)

\* A stream has the arrays that the C interface names for its settings, and it
\* starts without an error unless the settings have keys for fields of view or
\* were used before.  If close says so, the store describes every array that
\* was given frames or metadata, every level that was given frames, every
\* plate, well and group, each as what it is, with the metadata that was
\* accepted; close says otherwise only after a failure, an error or on account
\* of an acquisition without images.
StreamAsAsked ==
    /\ pc = "open" =>
          /\ {o.key : o \in outputs} = UniqueKeys(config)
          /\ error => reused \/ FieldsWithKey(config) # {}
    /\ pc = "closed" /\ Orderly /\ PlatesApart /\ closed = "ok" =>
          /\ \A o \in outputs :
                /\ NodeWritten(o) => files[o.key] =
                      [kind |-> IF o.grouped THEN "multiscale" ELSE "array",
                       custom |-> o.key \in custom]
                /\ o.grouped => \A l \in 1 .. frames[o.key] :
                      files[o.key \o <<ToString(l - 1)>>].kind = "array"
          /\ \A p \in Range(config.plates) :
                /\ files[Regularize(p.path)].kind = "plate"
                /\ \A w \in Range(p.wells) : files[WellPath(p, w)].kind = "well"
          /\ \A p \in groups : p \in DOMAIN files
    /\ pc = "closed" /\ Orderly /\ closed # "ok" =>
          ioFailed \/ error \/ \E p \in DOMAIN plates : HasUnused(p)
=============================================================================
