---------------------------- MODULE MCCertLoader ----------------------------
EXTENDS CertLoaderSafety, TLC

CONSTANTS p1, p2, host, image, f1, f2, f3

(* f1 and f3 have the same inode number on two devices.                    *)
MCInode == f1 :> 1 @@ f2 :> 2 @@ f3 :> 1
MCLibPath == p1 :> host @@ p2 :> image

(* p1 sees the reflector's files, p2 has an image of its own.              *)
OneContainer == p1 :> None @@ p2 :> f2

BothPaths == host :> f1 @@ image :> f2
=============================================================================
