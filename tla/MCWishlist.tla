----------------------------- MODULE MCWishlist -----------------------------
(***************************************************************************)
(* Wishlist for TLC: the products are interchangeable, and so are the      *)
(* places of the calls to the shop.                                        *)
(***************************************************************************)
EXTENDS Wishlist, TLC

WishSymmetry == Permutations(Product) \cup Permutations(Ask)
=============================================================================
