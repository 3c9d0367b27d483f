-------------------------- MODULE MCAssetPublication --------------------------
EXTENDS AssetPublication, TLC

CONSTANTS catalog, audit, fixture, manifest, rooms

(* A small instance of AssetPublication for TLC: a catalog that is imported,
   files that are built from it, and rooms that are rewritten after them. *)
MCDirectoryOf == (catalog :> 1) @@ (fixture :> 2) @@ (manifest :> 2) @@ (audit :> 3)
                 @@ (rooms :> 3)

Import == [outputs |-> <<catalog>>, sources |-> {}]
Build  == [outputs |-> <<fixture, manifest, audit>>, sources |-> {catalog}]
Rooms  == [outputs |-> <<rooms>>, sources |-> {rooms, manifest}]
MCJob  == {Import, Build, Rooms}
==============================================================================
