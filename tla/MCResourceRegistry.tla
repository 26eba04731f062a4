------------------------- MODULE MCResourceRegistry -------------------------
(* Two resources, two regular files, a directory, a FIFO to re-point to.    *)
EXTENDS ResourceRegistry

CONSTANTS notes, keys, i1, i2, dir, fifo, q1

MCResources == {notes, keys}
MCInodes == {i1, i2, dir, fifo}
MCDirectories == {dir, fifo}
MCFifos == {fifo}
OneReader == {q1}

MCMishaps == {{"repoint"}, {"repoint", "io"}}
=============================================================================
