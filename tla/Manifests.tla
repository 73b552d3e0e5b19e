----------------------------- MODULE Manifests -----------------------------
(***************************************************************************)
(* RegistryManifestRestorer: from manifest files and the network files     *)
(* they name to the networks of the two storages.  A manifest has entries  *)
(* (in order; a name may come twice, as names are stripped of quotes) and  *)
(* the network files next to it.  A file is missing, does not parse, or    *)
(* has a network in it.                                                    *)
(***************************************************************************)
EXTENDS AgentNetworks, Dictionaries

CONSTANT Reference(_)       \* how other networks refer to a network

MCP_DEFAULT_MODE == TRUE
NotServed == [from |-> 0, mcp |-> FALSE]

\* ManifestKeyConfigFilter: the last one of the entries with a name.
FilterKeys(entries) ==
    [name \in {entries[i].name : i \in DOMAIN entries} |->
        entries[CHOOSE i \in DOMAIN entries :
            /\ entries[i].name = name
            /\ \A j \in i + 1 .. Len(entries) : entries[j].name # name]]

\* ManifestDictConfigFilter: TRUE, FALSE or a dictionary becomes a dictionary;
\* anything else is skipped.  What is for MCP is public.
FilterDicts(entries) ==
    LET Expand(e) ==
            IF e.kind = "bool"
            THEN [serve |-> e.serve, public |-> e.serve \/ MCP_DEFAULT_MODE, mcp |-> MCP_DEFAULT_MODE]
            ELSE [serve |-> e.serve, public |-> e.public \/ e.mcp, mcp |-> e.mcp]
    IN  [name \in {n \in DOMAIN entries : entries[n].kind # "other"} |-> Expand(entries[name])]

\* Mutant: no entry is left in place of one that is not served.
FilterServedOut(entries) ==
    [name \in {n \in DOMAIN entries : entries[n].serve} |-> entries[name]]

\* ServedManifestConfigFilter with entry_for_skipped, for a later manifest to
\* take a network of an earlier one away.
FilterServed(entries) == entries

\* ManifestFilterChain
FilterManifest(manifest) == FilterServed(FilterDicts(FilterKeys(manifest.entries)))

\* Every name of the manifest may be referred to, also one that is not served.
ExternalNetworkNames(entries) == {Reference(name) : name \in DOMAIN entries}

\* restore_one_agent_network(): the file's network, or nothing.
Readable(file) == file.state = "network"

\* A file with two agents of one name, or one that a validator stumbles over, ends the
\* whole restore.
RestoreRaises(manifest) ==
    LET entries == FilterManifest(manifest)
    IN  \E name \in DOMAIN entries :
            /\ entries[name].serve
            /\ Readable(manifest.files[name])
            /\ LET network == manifest.files[name].network
               IN  HasDuplicates(network) \/ SearchRaises(network)

\* restore_one_manifest() and process_one_agent_network(): a network that is to be
\* served and has no valid file leaves no trace; one that is not served leaves
\* None (NotServed) in its place, in the storage that its entry says.
RestoreOneManifest(manifest, number) ==
    LET entries == FilterManifest(manifest)
        urls == ExternalNetworkNames(entries)
        Usable(name) == /\ Readable(manifest.files[name])
                        /\ Validate(manifest.files[name].network, urls) = {}
        Kept == {name \in DOMAIN entries : entries[name].serve => Usable(name)}
        Network(name) == IF entries[name].serve
                         THEN [from |-> number, mcp |-> entries[name].mcp] ELSE NotServed
        Storage(public) == [name \in {n \in Kept : entries[n].public = public} |-> Network(name)]
    IN  [public |-> Storage(TRUE), protected |-> Storage(FALSE)]

\* restore_from_files() overlays what each manifest gives; later ones win.
OverlayNetworks(all, one) ==
    [public |-> Overlay(all.public, one.public),
     protected |-> Overlay(all.protected, one.protected)]

\* At the end what is None goes.
DropNone(storage) == [name \in {n \in DOMAIN storage : storage[n] # NotServed} |-> storage[name]]
ServedNetworks(all) == [public |-> DropNone(all.public), protected |-> DropNone(all.protected)]
=============================================================================
