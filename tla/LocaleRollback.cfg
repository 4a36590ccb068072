\* A locale without a file for the category after LC_NUMERIC.
SPECIFICATION PartSpec
CONSTANTS
  t1 = t1 t2 = t2 none = none k1 = k1 live = live m1 = m1 m2 = m2 d1 = d1 d2 = d2 ka = ka kb = kb
  kc = kc kd = kd va = va vb = vb aa = aa ab = ab
  nx = nx ny = ny lx = lx ly = ly C = C global = global e1 = e1 e2 = e2 e3 = e3
  nofile = nofile level = level message = message seven = seven wide = wide
  huge = huge absent = absent
  Threads = {t1, t2} NoThread = none Keys = {k1, live} LIVE_IMAGE_LIST = live
  Images = {m1, m2} NoImage = none
  Destructors = {d1, d2} NoDestructor = none ImageOf <- OneEach StrangerKeys = {} MaxDepth = 2
  OverwriteAfterRemove = FALSE
  ItemSize = 2
  Finalizers = {t1} Handlers = {h1, h2, h3, h4} NoHandler = none Unloaded = {h1, h2}
  ATEXIT_SIZE = 2
  LocaleCategories = {"CTYPE", "NUMERIC", "TIME"}
  MayFail = {"TIME"}
  Parts = {"locale"}
INVARIANT ReferencesCounted
CHECK_DEADLOCK FALSE
