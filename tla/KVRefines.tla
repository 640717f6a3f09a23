----------------------------- MODULE KVRefines -----------------------------
(***************************************************************************)
(* The key-value store as an implementation of the durable map of KVAbs.   *)
(***************************************************************************)
EXTENDS KVStore

\* index_init indexes the newest intact record of every key.
Durable(key) ==
    LET heads == {b \in All : /\ dev[b].meta # NoMeta
                              /\ dev[b].meta.key = key
                              /\ Reads(dev[b].meta, b)}
        newest(b) == \A c \in heads :
                        \/ dev[c].meta.version < dev[b].meta.version
                        \/ dev[c].meta.version = dev[b].meta.version /\ b <= c
    IN  IF heads = {} THEN 0
        ELSE dev[CHOOSE b \in heads : newest(b)].meta.crc

\* The refinement mapping: what is durable, what a get returns, the put in
\* flight, and whether the store runs.
db == [k \in Keys |-> Durable(k)]

view ==
    IF status = "up" THEN [k \in Keys |-> bsys_io_read(k)] ELSE [k \in Keys |-> 0]

pend == {[key |-> e.key, val |-> e.crc] : e \in Range(batch)}

mode == CASE status = "up" -> "live" [] status = "fault" -> "broken" [] OTHER -> "down"

Abs == INSTANCE KVAbs

\* The store implements the durable map of KVAbs: an acknowledged put is on
\* the device and is what a get returns, and a restart after a crash at any
\* store of a flush brings back every key's last durable put.
ImplementsKV == Abs!Spec
=============================================================================
