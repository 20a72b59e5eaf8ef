---------------------------- MODULE MCYaffs2File ----------------------------
(* One volume with a directory, a file of three pages whose second is a hole  *)
(* and whose third is short, a hard link to it, one that dangles and one that  *)
(* points at itself.  Pages hold two bytes.                                    *)
EXTENDS Yaffs2File

Object(type, name, parent, kids, size, equiv, chunks) ==
    [type |-> type, name |-> name, parent |-> parent, kids |-> kids, size |-> size,
     equiv |-> equiv, chunks |-> chunks]

SomeVolumes == {[objs |-> <<
    Object("dir", "", NoObj, <<2, 4, 5>>, 0, 0, <<>>),
    Object("dir", "d", 1, <<3, 6>>, 0, 0, <<>>),
    Object("file", "f", 2, <<>>, 7, 0,
           <<[page |-> 40, nbytes |-> 2], [page |-> ChunkUnset, nbytes |-> 0], [page |-> 42, nbytes |-> 1]>>),
    Object("link", "l", 1, <<>>, 0, 3, <<>>),
    Object("link", "gone", 1, <<>>, 0, 9, <<>>),
    Object("link", "self", 2, <<>>, 0, 6, <<>>)>>]}

ASSUME \A v \in SomeVolumes : ParentsHold(v) /\ NamesAndLinksPlain(v)

SomePaths ==
    [absolute : BOOLEAN, parts : {<<>>, <<"..">>, <<"d">>, <<"d", "f">>, <<"d", "..", "l">>, <<"gone">>,
                                  <<"l", ".">>, <<"d", "self">>, <<"f", "f">>}]
=============================================================================
