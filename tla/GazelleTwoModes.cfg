\* A listing whose sources import a package in two modes.
CONSTANTS
    top = top  pkg = pkg  inner = inner  away = away
    src = src  dts = dts  js = js  beside = beside  ts = ts  libfile = libfile  datfile = datfile
    m0 = m0  ma = ma  mb = mb
    gen = gen  handmade = handmade  gentree = gentree  pkgjson = pkgjson  x = x  cfg = cfg
    lib = lib  tst = tst  dat = dat  hand = hand  e = e  v = v  wr = wr
    pub = pub  priv = priv  sub = sub
    group = group  other = other  expr = expr  absent = absent  unset = unset
    f1 = f1  f2 = f2  dep = dep  p1 = p1  p2 = p2
    Dirs = {top, pkg, inner, away}
    Root = top
    Up <- Parents
    Files = {src, beside, ts, dts, js, libfile, datfile, m0, ma, mb, p1, p2, gen, handmade}
    DirOf <- Homes
    None = none
    BuildDirs = {top, pkg}
    Rules = {1, 2, 3}  Home <- RuleHomes  Managed = {2}
    OutputFiles = {f1, f2}  PlaceOf <- OutputPlaces  Declarable <- RuleOutputs  Unset = unset
    Outside = {libfile}  SourceLike = {src, dts, js}  Metadata = {m0, ma, mb}  Twin <- Shadows
    Values = {lib, tst, dat, hand, e, cfg, v, wr}
    Sources = {src, beside, js}  Roots = {src, beside}  Class <- Classes
    Specs <- TwoModes  Resolves <- Answer  Directive = "directive"  Referenced = libfile
    Programmable <- Modules  Hides <- Stems
    ConfigNames = {1, 2}  ConfigGroup = group  Hidden = {}  Expression = expr  Absent = absent
    Order <- Sorted  Visibilities = {pub, priv, sub}  Grants <- Admitted  Subpackages = sub
    FirstParties <- Importable  Library = {x}  Config = cfg  Nowhere = none
    Entry = e  ConfigFile = cfg  VitestFile = v  WranglerFile = wr
    Targets = {1, 2, 3, 4}  Installed = {libfile}  DeclarationFiles = {dts}
    Compilable = {src, p1, p2, dts, js}  Refused = {}  TwinOf <- Shadows
    Labels = {group, other, lib, f1, f2, x}  External = {x}  Computed = expr
SPECIFICATION PatchHistories
INVARIANT PatchesAreFresh
