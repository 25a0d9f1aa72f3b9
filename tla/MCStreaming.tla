------------------------------ MODULE MCStreaming ------------------------------
(* Streams of three parts, read to the last part or to the end mark, fetched      *)
(* ahead or not, from another function or from a list.                     *)
EXTENDS Streaming

MCScenes == [form : {"inner", "list"}, classic : BOOLEAN, calls : {3, 4}]

(* One call after the end.                                                *)
MCBeyond == [form : {"inner"}, classic : {FALSE}, calls : {5}]
================================================================================
