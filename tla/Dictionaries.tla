---------------------------- MODULE Dictionaries ----------------------------
(***************************************************************************)
(* A dictionary is a function with the keys it has as its domain.          *)
(***************************************************************************)

NoKeys == [k \in {} |-> k]
Only(key, value) == [k \in {key} |-> value]

Get(dictionary, key, default) ==
    IF key \in DOMAIN dictionary THEN dictionary[key] ELSE default

\* DictionaryOverlay: the values of the second one are favoured.
Overlay(basis, overlay) ==
    [k \in DOMAIN basis \cup DOMAIN overlay |->
        IF k \in DOMAIN overlay THEN overlay[k] ELSE basis[k]]
=============================================================================
