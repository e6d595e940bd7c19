------------------------------ MODULE MCSettings ------------------------------
(***************************************************************************)
(* Settings that are accepted, settings that are refused for one reason    *)
(* each, and settings that the code finds out about late or not at all.    *)
(***************************************************************************)
EXTENDS Settings

MCNames == {"", "a", "b", "c", "p", "A", "B", "1", "05", "5", "0", "A-1", "f", "g",
            "..", "zarr.json", "t", "z", "y", "x"}
MCAsRead == [n \in MCNames |-> IF n = "05" THEN "5" ELSE n]
MCLowerCase == [n \in MCNames |-> CASE n = "A" -> "a" [] n = "B" -> "b" [] OTHER -> n]

D(name, type, size, chunk) ==
    [name |-> name, type |-> type, size |-> size, chunk |-> chunk, shard |-> 1, scale |-> 1]
X == D("x", "space", 2, 1)
YX == <<D("y", "space", 4, 2), D("x", "space", 2, 1)>>
TYX == <<D("t", "time", 0, 1), D("y", "space", 2, 1), X>>
ZTYX == <<D("z", "space", 2, 1), D("t", "time", 2, 1), D("y", "space", 2, 1), X>>

Plain(key, dims) ==
    [key |-> key, comp |-> None, dims |-> dims, order |-> <<>>, multi |-> FALSE,
     method |-> "mean", maxLevels |-> 0]
Multi(key, dims) == [Plain(key, dims) EXCEPT !.multi = TRUE]
Blosc(level) == [compressor |-> "blosc1", codec |-> "blosc-lz4", level |-> level, shuffle |-> 1]

Flat(arrays) == [overwrite |-> FALSE, s3 |-> None, arrays |-> arrays, plates |-> <<>>]
Over(s) == [s EXCEPT !.overwrite = TRUE]
InS3(s, bucket) == [s EXCEPT !.s3 = [endpoint |-> "e", bucket |-> bucket]]

Image(path, acq) == [path |-> path, acq |-> acq, array |-> Plain(NoKey, TYX)]
Well(row, col, images) == [row |-> row, col |-> col, images |-> images]
Plate(path, rows, cols, acqs, ofWells) ==
    [path |-> path, rows |-> rows, cols |-> cols, acqs |-> acqs, wells |-> ofWells]
Hcs(of) == [Flat(<<>>) EXCEPT !.plates = of]
OneWell(row, acqs, images) ==
    Plate(<<"p">>, <<row>>, <<"1">>, acqs, <<Well(row, "1", images)>>)

MCConfigs ==
    { \* arrays at the root, below each other and beside each other
      Flat(<<Plain(NoKey, YX)>>),
      Over(Flat(<<Multi(<<"", "a">>, TYX), Plain(<<"a", "b">>, TYX)>>)),
      InS3(Flat(<<[Multi(<<"a", "05", "">>, ZTYX) EXCEPT !.order = <<2, 1, 3, 4>>,
                                                    !.maxLevels = 1]>>), 3),
      Over(Flat(<<[Plain(<<"a", "", "b">>, YX) EXCEPT !.comp = Blosc(9)]>>)),
      \* a parent after its child; a key that starts with zarr.json
      Flat(<<Plain(<<"a", "b">>, TYX), Plain(<<"a">>, TYX)>>),
      Flat(<<Plain(<<"zarr.json">>, TYX)>>),
      \* refused: children of arrays and of levels, names, keys, compression, s3
      Over(Flat(<<Plain(<<"a">>, TYX), Plain(<<"a", "b">>, TYX)>>)),
      Over(Flat(<<Multi(<<"a">>, TYX), Plain(<<"a", "0">>, TYX)>>)),
      Over(Flat(<<Plain(<<"a", "zarr.json">>, TYX)>>)),
      Over(Flat(<<Plain(<<"a">>, TYX), Plain(<<"", "a">>, YX)>>)),
      Over(Flat(<<Plain(<<"..">>, TYX)>>)),
      Over(Flat(<<[Plain(<<"a">>, TYX) EXCEPT !.comp = Blosc(10)]>>)),
      InS3(Flat(<<Plain(<<"a">>, YX)>>), 2),
      \* refused: a second dimension of no size; late: a first one of two
      Over(Flat(<<Plain(<<"a">>, <<D("t", "time", 0, 1), D("y", "space", 0, 1), X>>)>>)),
      Over(Flat(<<Plain(<<"a">>, <<D("y", "space", 0, 1), X>>)>>)),
      Over(Hcs(<<OneWell("A", <<1>>, <<[Image(<<"f">>, 1) EXCEPT
                            !.array.dims = <<D("y", "space", 0, 1), X>>]>>)>>)),
      \* plates: two images, an array beside; names; no acquisitions
      [Over(Hcs(<<Plate(<<"p">>, <<"A">>, <<"05">>, <<1>>,
                        <<Well("A", "05", <<Image(<<"f">>, 1), Image(<<"g">>, 1)>>)>>)>>))
         EXCEPT !.arrays = <<Plain(<<"b">>, TYX)>>],
      Hcs(<<OneWell("A", <<1>>, <<Image(<<"f">>, None)>>)>>),
      Over(Hcs(<<OneWell("A-1", <<1>>, <<Image(<<"f">>, 1)>>)>>)),
      Over(Hcs(<<OneWell("A", <<1, 2>>, <<Image(<<"f">>, 1)>>)>>)),
      \* the same path twice: of images, of plates
      Over(Hcs(<<OneWell("A", <<1>>, <<Image(<<"f">>, 1), Image(<<"f">>, 1)>>)>>)),
      Hcs(<<OneWell("A", <<1>>, <<Image(<<"f">>, 1)>>),
            OneWell("B", <<1>>, <<Image(<<"f">>, 1)>>)>>),
      \* a plate at a well of another
      Hcs(<<OneWell("A", <<1>>, <<Image(<<"f">>, 1)>>),
            [OneWell("B", <<1>>, <<Image(<<"f">>, 1)>>) EXCEPT !.path = <<"p", "A", "1">>]>>),
      \* a key for a field of view
      Hcs(<<OneWell("A", <<1>>, <<[Image(<<"f">>, 1) EXCEPT !.array.key = <<"c">>]>>)>>) }
=============================================================================
