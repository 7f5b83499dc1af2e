---------------------------- MODULE MCGenerateSeal ----------------------------
(***************************************************************************)
(* The instance for TLC: a process with two threads and one with one; an   *)
(* image and an audio request; keys and bytes are model values.            *)
(***************************************************************************)
EXTENDS GenerateSeal, TLC

image == [media_type |-> "image", text |-> "a"]
audio == [media_type |-> "audio", text |-> "b"]
MCRequests == {image, audio}

\* The first two threads are of the API, the third is of an operator's script.
CONSTANTS w1, w2, w3
MCWorkers == {w1, w2, w3}
MCProcesses == {"api", "script"}
MCProcessOf == [w \in MCWorkers |-> IF w = w3 THEN "script" ELSE "api"]

\* Keys are interchangeable, and the script makes one call: k1 is the name of its key.
CONSTANTS k1, k2
MCKeys == {k1, k2}
KeyOfScript == calls'[w3] > 0 => key'[w3] = k1
===============================================================================
