CONSTANTS
    A = A  B = B  D = D  M = M  X = X  C = C
    a = a  b = b  genA = genA  genB = genB  d = d  m = m
    outD = outD  outD2 = outD2  outX = outX  outX2 = outX2  js = js  outM = outM
    asBuilt = asBuilt  asBuilt2 = asBuilt2
    tree1 = tree1  tree2 = tree2  tree3 = tree3  tree4 = tree4  treeDir = treeDir
    n = n  dep = dep  far = far  none = none  config = config
    Paths = {A, B, D, M, X, C}
    Files <- AllFiles
    Dirs <- AllDirs
    Names = {n}
    Labels = {dep, far}
    None = none
    At <- CoordinateOf
    Within <- In
    Generated = {genA, genB}
    JavaScript = {js}
    Declaration = {D, M, C}
    Config = config
    ConfigPath = C
    Actions <- AllActions
    Later <- Again
    MaxAttempts = 2
SPECIFICATION ToolSpec
INVARIANTS
    EditorSelectsTheCompilers
    RootIsDeclared
    StampedIsChecked
CHECK_DEADLOCK FALSE
