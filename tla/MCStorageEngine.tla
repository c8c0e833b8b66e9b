-------------------------- MODULE MCStorageEngine --------------------------
(* The rows of the StorageEngine runs. *)
EXTENDS StorageEngine

Bars   == [key : {"bars"}, id : {1, 2}]
Trade  == [key : {"trades"}, id : {1}]
Quote  == [key : {"quotes"}, id : {1}]
MCRows == Bars \cup Trade \cup Quote
=============================================================================
