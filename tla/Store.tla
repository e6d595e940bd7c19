-------------------------------- MODULE Store --------------------------------
(***************************************************************************)
(* What a ZarrStreamSettings asks for (zarr.stream.cpp, plate.cpp): which  *)
(* settings validate_settings_ accepts, and the nodes of the store that a  *)
(* stream made of them has.                                                *)
(*                                                                         *)
(* A settings value is [overwrite, s3, arrays, plates].  An array is       *)
(* [key, comp, dims, order, multi, method, maxLevels], a plate is          *)
(* [path, rows, cols, acqs, wells], a well is [row, col, images], an image *)
(* is [path, acq, array].  A key is the sequence of the segments between   *)
(* its slashes, "" where slashes meet or stand at an end.  An empty list   *)
(* is a NULL pointer.  Names are members of a small set, and what the code *)
(* finds out about a name by looking at its characters is a constant.      *)
(***************************************************************************)
EXTENDS Levels, SequencesExt, Functions, TLC

CONSTANTS InvalidNames,   \* "__x", "..", "a b": is_valid_zarr_key refuses them
          NumericNames,   \* is_numeric_string
          MetadataNames,  \* is_reserved_metadata_file
          PlainNames,     \* only letters and digits
          LowerCase,      \* names to names: std::tolower, letter by letter
          NoKey,          \* output_key is NULL
          None            \* an absent s3, compression or acquisition id

\* regularize_key: slashes at the ends go, several become one.
AsGiven(key) == IF key = NoKey THEN <<>> ELSE key      \* mutant
Regularize(key) ==
    IF key = NoKey THEN <<>>
    ELSE FlattenSeq([i \in DOMAIN key |-> IF key[i] = "" THEN <<>> ELSE <<key[i]>>])

\* is_valid_zarr_key.
IsValidKey(key) ==
    /\ key # <<>> /\ Last(key) # ""
    /\ \A i \in DOMAIN key : key[i] = "" \/ key[i] \notin InvalidNames

\* The key of an array below a parent, as validate_array_settings and
\* make_array_config make it.
KeyBelow(parent, key) == Regularize(parent \o Regularize(key))
MayBeKey(key) == key = <<>> \/ IsValidKey(key)
-----------------------------------------------------------------------------
(* One array *)

ValidS3(s3) == s3.endpoint # "" /\ s3.bucket \in 3 .. 63

ValidCompression(c) ==
    \/ c = None
    \/ c.compressor = "none"
    \/ /\ c.compressor = "blosc1"
       /\ c.codec \in {"blosc-lz4", "blosc-zstd"}
       /\ c.level \in 0 .. 9 /\ c.shuffle \in 0 .. 2
    \/ /\ c.compressor = "zstd" /\ c.codec = "zstd"
       /\ c.level \in 0 .. 22 /\ c.shuffle = 0

\* make_compression_params: what a chunk is compressed with.
CompressionParams(c) ==
    IF c = None THEN None
    ELSE CASE c.compressor = "blosc1" -> <<"blosc", c.codec, c.level, c.shuffle>>
           [] c.compressor = "zstd" -> <<"zstd", c.level>>
           [] OTHER -> None

\* mutant: any dimension may be without an end.
ValidUnbounded(d, isAppend) == d.name # "" /\ d.chunk # 0 /\ d.shard # 0 /\ d.scale >= 0
ValidDimension(d, isAppend) ==
    /\ d.name # ""
    /\ isAppend \/ d.size # 0
    /\ d.chunk # 0 /\ d.shard # 0 /\ d.scale >= 0

ValidArray(a, parent) ==
    LET n == Len(a.dims)
    IN  /\ MayBeKey(KeyBelow(parent, a.key))
        /\ ValidCompression(a.comp)
        /\ n >= 2
        /\ a.dims[n].type = "space" /\ a.dims[n - 1].type = "space"
        /\ \A i \in 1 .. n : ValidDimension(a.dims[i], i = 1)

\* The constructor of ArrayDimensions, which make_array_config runs, throws
\* unless this holds.
MakesDimensions(a) ==
    a.order = <<>> \/ MayStore(WithSingleton(a.dims), a.order)

\* The constructor of Array throws, which nobody asks before the store is made.
ArrayThrows(a) == ChunksInMemory(BaseLevel(a.dims, a.order)) = 0
-----------------------------------------------------------------------------
(* Plates, wells and fields of view *)

FieldsOf(plate) ==
    FlattenSeq([j \in DOMAIN plate.wells |->
                  [k \in DOMAIN plate.wells[j].images |-> <<j, k>>]])
WellPath(plate, well) == Regularize(Regularize(plate.path) \o <<well.row, well.col>>)
FieldAt(plate, f) == plate.wells[f[1]].images[f[2]]
FieldKey(plate, f) ==
    KeyBelow(WellPath(plate, plate.wells[f[1]]), FieldAt(plate, f).path)

ValidFields(well) ==
    LET Path(k) == Regularize(well.images[k].path)
    IN  /\ well.images # <<>>
        /\ \A k \in DOMAIN well.images : IsValidKey(Path(k))
        /\ \A k, l \in DOMAIN well.images : Path(k) = Path(l) => k = l

\* validate_hcs_settings, where it returns false, and the loop over the fields
\* in validate_settings_.
ValidPlate(p) ==
    /\ IsInjective(p.acqs)
    /\ p.rows # <<>> /\ p.cols # <<>>
    /\ \A n \in Range(p.rows) \cup Range(p.cols) : IsValidKey(<<n>>)
    /\ p.wells # <<>>
    /\ MayBeKey(Regularize(p.path))
    /\ \A j \in DOMAIN p.wells :
          /\ p.wells[j].row \in Range(p.rows) /\ p.wells[j].col \in Range(p.cols)
          /\ ValidFields(p.wells[j])
    /\ \A f \in Range(FieldsOf(p)) :
          /\ ValidArray(FieldAt(p, f).array, WellPath(p, p.wells[f[1]]))
          /\ MayBeKey(FieldKey(p, f))
          /\ MakesDimensions(FieldAt(p, f).array)

\* mutant: a field's array is never to have settings of its own.
ComplainsAlways(s) == s.plates # <<>>
\* Where validate_hcs_settings sets error but goes on: the message stays behind
\* in error_ of a stream that is made.
Complains(s) ==
    \E i \in DOMAIN s.plates :
       LET p == s.plates[i]
       IN  \/ ~IsInjective(p.rows) \/ ~IsInjective(p.cols)
           \/ \E f \in Range(FieldsOf(p)) : FieldAt(p, f).array.key # NoKey

\* The constructor of Plate throws unless this holds.  used are the
\* acquisitions of the images; an image without one has any, since the empty
\* optional is read all the same.
UsedBy(p, unset) ==
    {IF FieldAt(p, f).acq = None THEN unset ELSE FieldAt(p, f).acq : f \in Range(FieldsOf(p))}
GoodNames(names) ==
    /\ IsInjective(names)
    /\ Range(names) \subseteq PlainNames
    /\ \A m, n \in Range(names) : LowerCase[m] = LowerCase[n] => m = n
PlateAccepts(p, used) ==
    used \subseteq Range(p.acqs) /\ GoodNames(p.rows) /\ GoodNames(p.cols)
-----------------------------------------------------------------------------
(* The arrays of a stream, in the order they are configured *)

FlatArrays(s) ==
    [i \in DOMAIN s.arrays |-> [key |-> KeyBelow(<<>>, s.arrays[i].key),
                                array |-> s.arrays[i], isHcs |-> FALSE]]
PlateArrays(p) ==
    LET fields == FieldsOf(p)
    IN  [n \in DOMAIN fields |-> [key |-> FieldKey(p, fields[n]),
                                  array |-> FieldAt(p, fields[n]).array, isHcs |-> TRUE]]
Arrays(s) ==
    FlatArrays(s) \o FlattenSeq([i \in DOMAIN s.plates |-> PlateArrays(s.plates[i])])

\* make_array_config and make_array: an entry of arrays_.
Output(w) ==
    [key |-> w.key, grouped |-> w.array.multi \/ w.isHcs,
     levels |-> LET a == w.array
                IN  IF a.multi THEN LevelsOf(a.dims, a.order, a.maxLevels)
                    ELSE <<BaseLevel(a.dims, a.order)>>,
     order |-> w.array.order, comp |-> CompressionParams(w.array.comp),
     method |-> IF w.array.multi THEN w.array.method ELSE None]
Outputs(arrays) == {Output(w) : w \in Range(arrays)}

\* get_unique_array_keys: what the C interface says the keys are.
UniqueKeys(s) ==
    {Regularize(s.arrays[i].key) : i \in DOMAIN s.arrays}
    \cup UNION {{Regularize(p.path) \o <<p.wells[f[1]].row, p.wells[f[1]].col>>
                   \o Regularize(FieldAt(p, f).path) : f \in Range(FieldsOf(p))} :
                p \in Range(s.plates)}
-----------------------------------------------------------------------------
(* check_array_structure *)

Below(p, tree) == {q \in DOMAIN tree : Len(q) = Len(p) + 1 /\ IsPrefix(p, q)}

\* The arrays enter the tree one after the other.  A node is made, and given its
\* type, by the first array at it or below; the root is there from the start,
\* and the last array at it decides.
Kind(w) == IF w.array.multi THEN "multiscale" ELSE "array"
NodeKind(arrays, p) ==
    LET at == {n \in DOMAIN arrays : arrays[n].key = p}
        through == {n \in DOMAIN arrays : IsPrefix(p, arrays[n].key)}
        made == IF p = <<>> THEN Max(at) ELSE Min(through)
    IN  IF at # {} /\ made \in at THEN Kind(arrays[made]) ELSE "directory"
Tree(s) ==
    LET arrays == Arrays(s)
    IN  [p \in {<<>>} \cup UNION {Prefixes(w.key) : w \in Range(arrays)} |->
           NodeKind(arrays, p)]

\* mutant: a multiscale array may have children of any name.
AnyChild(tree, p) == tree[p] = "array" => Below(p, tree) = {}
MayHaveChildren(tree, p) ==
    /\ tree[p] = "array" => Below(p, tree) = {}
    /\ tree[p] = "multiscale" => \A q \in Below(p, tree) : Last(q) \notin NumericNames

\* The first segment of a key is not looked at.
ValidStructure(s) ==
    LET arrays == Arrays(s)
        tree == Tree(s)
    IN  /\ arrays # <<>>
        /\ \A m, n \in DOMAIN arrays : arrays[m].key = arrays[n].key => m = n
        /\ \A n \in DOMAIN arrays : \A i \in 2 .. Len(arrays[n].key) :
              arrays[n].key[i] \notin MetadataNames
        /\ \A p \in DOMAIN tree : MayHaveChildren(tree, p)

\* intermediate_group_paths_.
GroupPaths(s) == LET tree == Tree(s) IN {p \in DOMAIN tree : tree[p] = "directory"}

\* validate_settings_, but for the file system.
Accepts(s) ==
    /\ s.s3 = None \/ ValidS3(s.s3)
    /\ \A i \in DOMAIN s.arrays :
          ValidArray(s.arrays[i], <<>>) /\ MakesDimensions(s.arrays[i])
    /\ \A i \in DOMAIN s.plates : ValidPlate(s.plates[i])
    /\ ValidStructure(s)
=============================================================================
