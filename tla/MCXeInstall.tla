---------------------------- MODULE MCXeInstall ----------------------------
(* Small instances of XeInstall: the routers of its runs.                  *)
EXTENDS XeInstall

B(kind, rsps, folder, from, sso, partial) ==
  [kind |-> kind, rsps |-> rsps, folder |-> folder, boot |-> from, issu |-> sso,
   partial |-> partial]

\* IOS and consolidated mode, where nothing looks at the image, with copies that
\* leave nothing behind; sub-package mode with one and two RSPs, booted from an
\* image or from packages.conf, in either folder, with and without ISSU.
AllBoxes ==
  {B("ios", 1, "image", "bin", FALSE, FALSE), B("con", 1, "image", "bin", FALSE, FALSE),
   B("sub", 1, "image", "bin", FALSE, TRUE), B("sub", 2, "image", "bin", TRUE, TRUE),
   B("sub", 2, "image", "conf", TRUE, TRUE), B("sub", 2, "root", "conf", TRUE, TRUE),
   B("sub", 2, "image", "conf", FALSE, TRUE), B("other", 1, "image", "bin", FALSE, FALSE)}
=============================================================================
