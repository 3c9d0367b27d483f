---------------------------- MODULE MCShopCatalog ----------------------------
EXTENDS ShopCatalog

(* Small instances of ShopCatalog for TLC. *)
CONSTANTS a, b, cc, d

MCFound  == {<<a>>, <<b, a>>, <<cc, b>>, <<b, d>>, <<>>}
MCLegacy == {<<a, b>>, <<cc>>}
==============================================================================
