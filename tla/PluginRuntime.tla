---------------------------- MODULE PluginRuntime ---------------------------
(***************************************************************************)
(* PluginRuntimeCatalog: the plugins that are loaded, kept in step with    *)
(* the DSO files of a directory by scanDirectory and reload, and the       *)
(* handles of plugin instances, which keep a library loaded after the      *)
(* catalog dropped it.                                                     *)
(*                                                                         *)
(* The files belong to another process: they come, change and go between   *)
(* any two steps.  A scan inspects every file in one step and then loads   *)
(* one plugin per step.  What a DSO contains is an image: the family       *)
(* vtables it exports that pass validation, its manifest, its HAS_DIALOG   *)
(* bit.  A file's mtime is a number, 0 when it cannot be read.  A loaded   *)
(* library is numbered; the path names it to dlopen, which returns the     *)
(* image already mapped under the path if there is one.                    *)
(***************************************************************************)
EXTENDS Integers, Sequences, FiniteSets, SequencesExt

CONSTANTS
    Paths,        \* DSO paths, in the order of their names
    DirOf,        \* the directory of each path
    Dirs,         \* directories the catalog is pointed at
    Existing,     \* those that exist
    Image,        \* the images, a sequence
    Unread,       \* sets of paths that the iteration of a directory may not reach
    MaxSteps,     \* bound: changes of files and calls of the catalog
    MaxLibs       \* bound: libraries loaded

Families == {"data_source", "message_parser", "toolbox"}
Probed == <<"data_source", "message_parser", "toolbox", "dialog">>

ASSUME RuntimeAssumption ==
    /\ Paths \in Seq(Range(Paths)) /\ IsInjective(Paths)
    /\ DirOf \in [Range(Paths) -> Existing] /\ Existing \subseteq Dirs
    /\ Image \in Seq([exports : SUBSET (Families \cup {"dialog"}), manifest : {"ok", "bare", "bad"},
                      abi : BOOLEAN, dialog : BOOLEAN])
    /\ Unread \subseteq SUBSET Range(Paths)
    /\ MaxSteps \in Nat /\ MaxLibs \in Nat

VARIABLES
    disk,       \* disk[p]: image and mtime of the file at p, image 0 if there is none
    dir,        \* plugin_dir_
    catalog,    \* catalog[f]: data_sources_, message_parsers_, toolbox_plugins_
    libs,       \* libs[l]: path and image of library l
    uses,       \* uses[l]: owners of its shared_ptr
    open,       \* libraries that were not closed
    handles,    \* libraries that a plugin instance is a handle of
    op,         \* what the catalog is doing: "idle", "scan" or "reload"
    plan,       \* descriptors it still has to look at
    changed,    \* reload's changed
    before,     \* the catalog when the call began
    settled,    \* the last scan reached every file, and none changed since it began
    replaced,   \* paths whose file was replaced while it was in use (history)
    steps

files == <<disk, dir>>
loaded == <<catalog, libs, uses, open>>
vars == <<disk, dir, catalog, libs, uses, open, handles, op, plan, changed, before, settled,
          replaced, steps>>

NoFile == [image |-> 0, mtime |-> 0]
Empty == [f \in Families |-> <<>>]
Step == steps < MaxSteps /\ steps' = steps + 1

-----------------------------------------------------------------------------
(* Libraries. *)

(* dlopen(path), external, when the libraries mapped are those of the set: *)
(* the image mapped under the path, else the file's, 0 if there is no file.*)
dlopen(mapped, p) ==
    LET same == {l \in mapped : libs[l].path = p}
    IN  IF same # {} THEN libs[CHOOSE l \in same : TRUE].image ELSE disk[p].image

(* findEmbeddedManifest: where in the order they are probed there are      *)
(* families with a valid vtable; the first one is the plugin's.            *)
findEmbeddedManifest(img) == {i \in DOMAIN Probed : Probed[i] \in Image[img].exports}

(* decodeManifest: a bare manifest has no encodings, which parsers need.   *)
decodeManifest(family, img) ==
    /\ Image[img].manifest # "bad"
    /\ family = "message_parser" => Image[img].manifest # "bare"

(* inspectPluginDso of an image: the family, or none.                      *)
inspectPluginDso(img) ==
    LET found == findEmbeddedManifest(img)
        family == Probed[Min(found)]
    IN  IF Image[img].abi /\ found # {} /\ decodeManifest(family, img) THEN <<family>> ELSE <<>>

(* The descriptor of a file under the directory, if it has one.            *)
descriptor(mapped, p) ==
    LET img == dlopen(mapped, p)
        family == inspectPluginDso(img)
    IN  IF DirOf[p] # dir \/ disk[p].image = 0 \/ family = <<>> THEN <<>>
        ELSE <<[path |-> p, family |-> Head(family), image |-> img]>>

(* scanPluginDsos: the descriptors under the directory, in path order, but *)
(* for those the iteration misses.  It skips a subtree it cannot read, and *)
(* if it cannot begin, the result is empty and no error.                   *)
scanPluginDsos(mapped, missed) ==
    FlattenSeq([i \in DOMAIN Paths |-> IF Paths[i] \in missed THEN <<>> ELSE descriptor(mapped, Paths[i])])

(* resolveDialogVtable.                                                    *)
resolveDialogVtable(img) == "dialog" \in Image[img].exports

(* Slip: the capability bit is believed.                                   *)
loadsAnyway(img, family) ==
    img # 0 /\ Image[img].abi /\ family \in Families \cap Image[img].exports

(* DataSourceLibrary::load and its siblings; then a plugin that says it    *)
(* has a dialog has to export one.                                         *)
loads(img, family) ==
    /\ img # 0 /\ Image[img].abi
    /\ family \in Families \cap Image[img].exports
    /\ family # "message_parser" /\ Image[img].dialog => resolveDialogVtable(img)

Libraries(cat) == UNION {{cat[f][i].lib : i \in DOMAIN cat[f]} : f \in Families}

(* The owners that are left once these libraries lost one each.            *)
Released(gone) == [l \in DOMAIN uses |-> IF l \in gone THEN uses[l] - 1 ELSE uses[l]]

(* adoptLibraryHandle: the last owner closes the library.                  *)
StillOpen(counts) == {l \in open : counts[l] > 0}

-----------------------------------------------------------------------------
(* The catalog. *)

(* std::erase_if of the entries with one of the paths.                     *)
eraseIf(entries, gone) ==
    FlattenSeq([i \in DOMAIN entries |-> IF entries[i].path \in gone THEN <<>> ELSE <<entries[i]>>])

(* Slip: one family is forgotten.                                          *)
evictSources(path) == [catalog EXCEPT !["data_source"] = eraseIf(@, {path})]

evictByPath(path) == [f \in Families |-> eraseIf(catalog[f], {path})]

(* The mtime under which the path was loaded, 0 if it was not.             *)
loadedMtimeForPath(path) ==
    LET find_mtime(f) == LET at == {i \in DOMAIN catalog[f] : catalog[f][i].path = path}
                         IN  IF at = {} THEN 0 ELSE catalog[f][Min(at)].mtime
    IN  IF find_mtime("data_source") # 0 THEN find_mtime("data_source")
        ELSE IF find_mtime("message_parser") # 0 THEN find_mtime("message_parser")
        ELSE find_mtime("toolbox")

(* drop_missing.                                                           *)
dropMissing(scan) ==
    LET on_disk == {scan[i].path : i \in DOMAIN scan}
    IN  [f \in Families |-> eraseIf(catalog[f], Range(Paths) \ on_disk)]

(* The catalog becomes cat; what it no longer has loses an owner.          *)
Becomes(cat) ==
    LET counts == Released(Libraries(catalog) \ Libraries(cat))
    IN  catalog' = cat /\ uses' = counts /\ open' = StillOpen(counts) /\ UNCHANGED libs

(* loadAndRegister once the catalog is cat: the entry owns the library and *)
(* carries what the descriptor says and the mtime of the file.  The mtime  *)
(* is read after the library is loaded; a file that is replaced in between *)
(* is replaced while in use, and of such files nothing is claimed.         *)
loadAndRegister(cat, d) ==
    LET counts == Released(Libraries(catalog) \ Libraries(cat))
        img == dlopen(StillOpen(counts), d.path)
        l == Len(libs) + 1
    IN  IF ~loads(img, d.family) THEN Becomes(cat)
        ELSE /\ l <= MaxLibs
             /\ libs' = Append(libs, [path |-> d.path, image |-> img])
             /\ catalog' = [cat EXCEPT ![d.family] =
                    Append(@, [path |-> d.path, descr |-> d.image, lib |-> l, mtime |-> disk[d.path].mtime])]
             /\ uses' = Append(counts, 1)
             /\ open' = StillOpen(counts) \cup {l}

setPluginDir(d) ==
    /\ Step /\ op = "idle" /\ d # dir
    /\ dir' = d
    /\ settled' = FALSE
    /\ UNCHANGED <<disk, loaded, handles, op, plan, changed, before, replaced>>

(* scanDirectory clears first, also when the directory is not there.       *)
scanDirectory ==
    /\ Step /\ op = "idle"
    /\ Becomes(Empty)
    /\ IF dir \in Existing
       THEN \E missed \in Unread :
              /\ op' = "scan"
              /\ plan' = scanPluginDsos(StillOpen(Released(Libraries(catalog))), missed)
              /\ settled' = (missed = {})
       ELSE settled' = FALSE /\ UNCHANGED <<op, plan>>
    /\ UNCHANGED <<files, handles, changed, before, replaced>>

(* Slip: dropping what is gone is not a change.                            *)
reloadUnreported ==
    /\ Step /\ op = "idle" /\ dir \in Existing
    /\ \E missed \in Unread :
         LET scan == scanPluginDsos(open, missed)
         IN  /\ Becomes(dropMissing(scan))
             /\ changed' = FALSE
             /\ plan' = scan
             /\ settled' = (missed = {})
    /\ op' = "reload"
    /\ before' = catalog
    /\ UNCHANGED <<files, handles, replaced>>

(* reload, if the directory is there: the scan, and what it did not find   *)
(* is dropped, also what is on disk and was only not reached.              *)
reload ==
    /\ Step /\ op = "idle" /\ dir \in Existing
    /\ \E missed \in Unread :
         LET scan == scanPluginDsos(open, missed)
         IN  /\ Becomes(dropMissing(scan))
             /\ changed' = (dropMissing(scan) # catalog)
             /\ plan' = scan
             /\ settled' = (missed = {})
    /\ op' = "reload"
    /\ before' = catalog
    /\ UNCHANGED <<files, handles, replaced>>

(* scanDirectory's loop.                                                   *)
scanNext ==
    /\ op = "scan" /\ plan # <<>>
    /\ loadAndRegister(catalog, Head(plan))
    /\ plan' = Tail(plan)
    /\ UNCHANGED <<files, handles, op, changed, before, settled, replaced, steps>>

(* reload's loop: a file whose mtime cannot be read is skipped, and one    *)
(* that is loaded and no newer; the plugin of a newer file is evicted      *)
(* before the file is loaded.                                              *)
reloadNext ==
    LET d == Head(plan)
        prior == loadedMtimeForPath(d.path)
        old == IF prior = 0 THEN catalog ELSE evictByPath(d.path)
    IN  /\ op = "reload" /\ plan # <<>>
        /\ IF disk[d.path].mtime = 0 \/ (prior # 0 /\ disk[d.path].mtime <= prior)
           THEN UNCHANGED <<loaded, changed>>
           ELSE /\ loadAndRegister(old, d)
                /\ changed' = (changed \/ prior # 0 \/ Len(libs') > Len(libs))
        /\ plan' = Tail(plan)
        /\ UNCHANGED <<files, handles, op, before, settled, replaced, steps>>

returns ==
    /\ op # "idle" /\ plan = <<>>
    /\ op' = "idle"
    /\ UNCHANGED <<files, loaded, handles, plan, changed, before, settled, replaced, steps>>

-----------------------------------------------------------------------------
(* Plugin instances.  createHandle and the handle's destructor. *)

(* Slip: the handle does not share the library's ownership.                *)
createHandleUnowned(l) ==
    /\ Step /\ op = "idle"
    /\ l \in Libraries(catalog) \ handles
    /\ handles' = handles \cup {l}
    /\ UNCHANGED <<files, loaded, op, plan, changed, before, settled, replaced>>

createHandle(l) ==
    /\ Step /\ op = "idle"
    /\ l \in Libraries(catalog) \ handles
    /\ handles' = handles \cup {l}
    /\ uses' = [uses EXCEPT ![l] = @ + 1]
    /\ UNCHANGED <<files, catalog, libs, open, op, plan, changed, before, settled, replaced>>

dropHandle(l) ==
    /\ l \in handles
    /\ handles' = handles \ {l}
    /\ uses' = Released({l})
    /\ open' = StillOpen(Released({l}))
    /\ UNCHANGED <<files, catalog, libs, op, plan, changed, before, settled, replaced, steps>>

-----------------------------------------------------------------------------
(* The other process, external. *)

InUse(p) == \/ \E l \in open : libs[l].path = p
            \/ \E i \in DOMAIN plan : plan[i].path = p

ChangeFile(p, file) ==
    /\ Step
    /\ disk' = [disk EXCEPT ![p] = file]
    /\ settled' = FALSE
    /\ UNCHANGED <<dir, loaded, handles, op, plan, changed, before>>

installFile(p, img) ==
    /\ ChangeFile(p, [image |-> img, mtime |-> steps + 1])
    /\ replaced' = IF InUse(p) THEN replaced \cup {p} ELSE replaced

touchFile(p) ==
    /\ disk[p].image # 0
    /\ ChangeFile(p, [disk[p] EXCEPT !.mtime = steps + 1])
    /\ UNCHANGED replaced

removeFile(p) == disk[p].image # 0 /\ ChangeFile(p, NoFile) /\ UNCHANGED replaced

-----------------------------------------------------------------------------
Init ==
    /\ disk = [p \in Range(Paths) |-> NoFile]
    /\ dir \in Existing
    /\ catalog = Empty /\ libs = <<>> /\ uses = <<>> /\ open = {} /\ handles = {}
    /\ op = "idle" /\ plan = <<>> /\ changed = FALSE /\ before = Empty
    /\ settled = FALSE /\ replaced = {}
    /\ steps = 0

Next ==
    \/ \E d \in Dirs : setPluginDir(d)
    \/ scanDirectory
    \/ reload
    \/ scanNext
    \/ reloadNext
    \/ returns
    \/ \E l \in DOMAIN libs : createHandle(l)
    \/ \E l \in handles : dropHandle(l)
    \/ \E p \in Range(Paths), img \in DOMAIN Image : installFile(p, img)
    \/ \E p \in Range(Paths) : touchFile(p)
    \/ \E p \in Range(Paths) : removeFile(p)

Spec == Init /\ [][Next]_vars

-----------------------------------------------------------------------------
(* Properties. *)

(* RuntimeDataSourcePlugin and its siblings, and PluginDescriptor.         *)
Plugin == [path : Range(Paths), descr : 1 .. Len(Image), lib : 1 .. MaxLibs, mtime : 0 .. MaxSteps]
Descriptor == [path : Range(Paths), family : Range(Probed), image : 1 .. Len(Image)]

(* Type invariant: every variable holds what its declaration says, and a   *)
(* plugin is only in the list of a family its library exports.             *)
TypeOK ==
    /\ disk \in [Range(Paths) -> [image : 0 .. Len(Image), mtime : 0 .. MaxSteps]]
    /\ dir \in Dirs
    /\ libs \in Seq([path : Range(Paths), image : 1 .. Len(Image)])
    /\ catalog \in [Families -> Seq(Plugin)] /\ before \in [Families -> Seq(Plugin)]
    /\ plan \in Seq(Descriptor)
    /\ \A f \in Families : \A i \in DOMAIN catalog[f] :
         /\ catalog[f][i].lib \in DOMAIN libs
         /\ catalog[f][i].path = libs[catalog[f][i].lib].path
         /\ f \in Image[libs[catalog[f][i].lib].image].exports
    /\ Len(libs) <= MaxLibs
    /\ uses \in [DOMAIN libs -> Nat]
    /\ open \subseteq DOMAIN libs /\ handles \subseteq DOMAIN libs
    /\ op \in {"idle", "scan", "reload"}
    /\ changed \in BOOLEAN /\ settled \in BOOLEAN /\ replaced \subseteq Range(Paths)
    /\ steps \in 0 .. MaxSteps

(* A library is mapped exactly as long as the catalog or an instance needs *)
(* it: instances keep the code they run when reload evicts their plugin or *)
(* the directory is rescanned, and nothing stays mapped afterwards.        *)
LoadedWhileOwned == TypeOK /\ open = Libraries(catalog) \cup handles

(* The paths with an entry that has no mtime: their file vanished as it    *)
(* was loaded, and every later reload takes them for not loaded (README).  *)
Undated == UNION {{catalog[f][i].path : i \in {k \in DOMAIN catalog[f] : catalog[f][k].mtime = 0}} :
                    f \in Families}

(* However scans, reloads, touched, replaced and removed files follow each *)
(* other, a path is loaded at most once, in one family, unless its file    *)
(* vanished as it was loaded.                                              *)
OneEntryPerPath ==
    \A f, g \in Families : \A i \in DOMAIN catalog[f], j \in DOMAIN catalog[g] :
        catalog[f][i].path = catalog[g][j].path /\ catalog[f][i].path \notin Undated
        => f = g /\ i = j

(* "returns true if it changed": at its end, reload's result says whether  *)
(* the catalog is another than when it was called.                         *)
ReloadReportsChange ==
    op = "reload" /\ plan = <<>> => changed = (catalog # before)

Loaded == UNION {{[path |-> catalog[f][i].path, family |-> f, descr |-> catalog[f][i].descr,
                   image |-> libs[catalog[f][i].lib].image, mtime |-> catalog[f][i].mtime] :
                    i \in DOMAIN catalog[f]} : f \in Families}

(* A plugin the application can use: a family's vtable of this ABI, the    *)
(* first of those probed, with a manifest that says what the family needs, *)
(* and the dialog it announces.                                            *)
Usable(img, f) ==
    /\ Image[img].abi /\ f \in Image[img].exports
    /\ \A i \in DOMAIN Probed : Probed[i] = f => \A k \in 1 .. i - 1 : Probed[k] \notin Image[img].exports
    /\ Image[img].manifest \in (IF f = "message_parser" THEN {"ok"} ELSE {"ok", "bare"})
    /\ Image[img].dialog /\ f # "message_parser" => "dialog" \in Image[img].exports

(* "Reconciles loaded state with disk": a scan or reload that could read   *)
(* its directory, and during which no file changed, leaves exactly the     *)
(* usable plugins of the directory's files, each described and loaded from *)
(* the image its file has now.  Left out are files that were replaced      *)
(* while their library was loaded or about to be: reload may describe      *)
(* those by the old image (README).                                        *)
CatalogMatchesDisk ==
    op = "idle" /\ settled =>
        {e \in Loaded : e.path \notin replaced} = {[path |-> pf[1], family |-> pf[2], descr |-> disk[pf[1]].image,
                   image |-> disk[pf[1]].image, mtime |-> disk[pf[1]].mtime] :
                    pf \in {q \in (Range(Paths) \ replaced) \X Families :
                              DirOf[q[1]] = dir /\ disk[q[1]].image # 0 /\ Usable(disk[q[1]].image, q[2])}}
=============================================================================
